-------------------------- MODULE TokenBudgetProofs --------------------------
(***************************************************************************)
(* Proofs about TokenBudget for any number of calls, any budget and any    *)
(* prompts: the cap holds, reservations add up, and, whenever the estimate *)
(* bounds what one attempt costs, a charge fits its reservation and covers *)
(* what was spent.                                                         *)
(***************************************************************************)
EXTENDS TokenBudget, TLAPS

CallRecord ==
    [pc : Phases, prompt : Prompts \cup {NoPrompt}, tried : Nat, unknown : Nat,
     input : Nat, total : Nat, error : {"none", "provider"}]

\* The types of everything but the two columns the cap is about.
Typed ==
    /\ spent \in Nat /\ rows \in Nat /\ recorded \in Nat
    /\ conversation \in {"open", "human_required"} /\ outstanding \subseteq Calls
    /\ call \in [Calls -> CallRecord]

\* The inductive invariant of the cap.
IInv == Typed /\ used \in Nat /\ reserved \in Nat /\ refunded \in Nat /\ HardCap

\* Every prompt, the empty one included, has natural sizes.
LEMMA PromptSizes ==
    ASSUME NEW p \in Prompts \cup {NoPrompt}
    PROVE  p.bytes \in Nat /\ p.messages \in Nat /\ p.tools \in Nat /\ p.tokens \in Nat \ {0}
BY TokenBudgetAssumption DEF NoPrompt

LEMMA PerAttemptIsNat ==
    ASSUME NEW p \in Prompts \cup {NoPrompt}
    PROVE  PerAttempt(p) \in Nat \ {0}
<1>1. p.bytes \in Nat /\ p.messages \in Nat /\ p.tools \in Nat
  BY PromptSizes, Zenon
<1>2. (p.bytes + BytesPerToken - 1) \div BytesPerToken \in Nat
  BY <1>1 DEF BytesPerToken
<1> QED  BY <1>1, <1>2, TokenBudgetAssumption DEF PerAttempt

LEMMA EstimateIsNat ==
    ASSUME NEW p \in Prompts \cup {NoPrompt}
    PROVE  Estimate(p) \in Nat
BY PerAttemptIsNat, TokenBudgetAssumption DEF Estimate

\* Min of two numbers is one of them and bounded by both.
LEMMA MinOfTwo ==
    ASSUME NEW a \in Nat, NEW b \in Nat
    PROVE  Min({a, b}) \in Nat /\ Min({a, b}) <= a /\ Min({a, b}) <= b
<1>1. \E x \in {a, b} : \A y \in {a, b} : x <= y
  BY SMT
<1> QED  BY <1>1, Zenon DEF Min

\* chargeForModelCall prices a call at a number of tokens.
LEMMA ChargeIsNat ==
    ASSUME NEW k \in CallRecord
    PROVE  chargeForModelCall(k) \in Nat
<1>1. k.total \in Nat /\ k.unknown \in Nat /\ k.input \in Nat /\ Estimate(k.prompt) \in Nat
  BY EstimateIsNat, Zenon DEF CallRecord
<1>2. Surcharged(k) \in Nat
  BY <1>1 DEF Surcharged
<1>3. Min({Surcharged(k), Estimate(k.prompt)}) \in Nat
  BY <1>1, <1>2, MinOfTwo, Zenon
<1> QED  BY <1>1, <1>3, Zenon DEF chargeForModelCall

\* Settle never charges more than the reservation.
LEMMA SettlementFits ==
    ASSUME NEW k \in CallRecord
    PROVE  Settlement(k) \in Nat /\ Settlement(k) <= Estimate(k.prompt)
BY ChargeIsNat, EstimateIsNat, MinOfTwo, Zenon DEF Settlement, CallRecord

\* An attempt's answer or failure only adds to what a call was told.
LEMMA RecordKept ==
    ASSUME Typed, NEW c \in Calls, NEW pc \in Phases
    PROVE  [call EXCEPT ![c].pc = pc] \in [Calls -> CallRecord]
BY ZenonT(60) DEF Typed, CallRecord

LEMMA TypesKept == ASSUME Typed, [Next]_vars PROVE Typed'
<1>1. ASSUME NEW c \in Calls, Reserve(c)
      PROVE Typed'
  <2>1. PICK p \in Prompts : Reserve(c)!(p)
    BY <1>1, Zenon DEF Reserve
  <2>2. call' \in [Calls -> CallRecord]
    <3> DEFINE mid == [call EXCEPT ![c].pc = "calling"]
    <3>1. mid \in [Calls -> CallRecord]
      BY RecordKept, Zenon DEF Phases
    <3>2. call' = [mid EXCEPT ![c].prompt = p]
      BY <2>1
    <3> HIDE DEF mid
    <3> QED  BY <3>1, <3>2 DEF CallRecord
  <2> QED  BY <2>1, <2>2, Zenon DEF Typed
<1>2. ASSUME NEW c \in Calls, AttemptSucceeds(c)
      PROVE Typed'
  <2>1. PICK out \in Outputs, reports \in {TRUE} \cup {~Silent} : AttemptSucceeds(c)!(out, reports)
    BY <1>2, Zenon DEF AttemptSucceeds
  <2>2. call[c] \in CallRecord /\ call[c].prompt.tokens \in Nat /\ out \in Nat
    BY PromptSizes, TokenBudgetAssumption, Zenon DEF Typed, CallRecord
  <2>3. call' \in [Calls -> CallRecord]
    BY <2>1, <2>2 DEF Typed, CallRecord, Phases
  <2> QED  BY <2>1, <2>2, <2>3 DEF Typed
<1>3. ASSUME NEW c \in Calls, AttemptFails(c)
      PROVE Typed'
  <2>1. PICK reports \in BOOLEAN, again \in BOOLEAN : AttemptFails(c)!(reports, again)
    BY <1>3, Zenon DEF AttemptFails
  <2>2. call[c] \in CallRecord /\ call[c].prompt.tokens \in Nat
    BY PromptSizes, ZenonT(60) DEF Typed, CallRecord
  <2>3. call' \in [Calls -> CallRecord]
    BY <2>1, <2>2 DEF Typed, CallRecord, Phases
  <2>4. spent' \in Nat
    BY <2>1, <2>2 DEF Typed, UnreportedCosts
  <2> QED  BY <2>1, <2>3, <2>4, Zenon DEF Typed
<1>4. ASSUME NEW c \in Calls,
             BudgetExceeded(c) \/ Settle(c) \/ SettleFails(c) \/ RecordModelCall(c)
             \/ TraceFails(c) \/ HandOff(c) \/ Crash(c)
      PROVE Typed'
  <2>1. \E pc \in Phases : Move(c, pc)
    BY <1>4, Zenon DEF BudgetExceeded, Settle, SettleFails, RecordModelCall, TraceFails, HandOff, Crash, Phases
  <2>2. call' \in [Calls -> CallRecord]
    BY <2>1, RecordKept, Zenon DEF Move
  <2>3. call[c].total \in Nat /\ Penalty \in Nat
    BY TokenBudgetAssumption, Zenon DEF Typed, CallRecord
  <2>4. rows' \in Nat /\ recorded' \in Nat /\ spent' \in Nat
    BY <1>4, <2>3 DEF Typed, BudgetExceeded, Settle, SettleFails, RecordModelCall, TraceFails, HandOff, Crash
  <2>5. conversation' \in {"open", "human_required"} /\ outstanding' \subseteq Calls
    BY <1>4, Zenon DEF Typed, BudgetExceeded, Settle, SettleFails, RecordModelCall, TraceFails, HandOff, Crash
  <2> QED  BY <2>2, <2>4, <2>5, Zenon DEF Typed
<1>5. CASE RecalibrateInflatedUsage \/ UNCHANGED vars
  BY <1>5, Zenon DEF Typed, RecalibrateInflatedUsage, vars
<1> QED  BY <1>1, <1>2, <1>3, <1>4, <1>5, Zenon DEF Next, ModelCall

\* Only reservation, settlement and recalibration touch the two columns, and
\* each leaves their sum under the cap.
LEMMA CapKept == ASSUME IInv, [Next]_vars PROVE IInv'
<1>1. Typed'
  BY TypesKept, Zenon DEF IInv
<1>2. ASSUME NEW c \in Calls, Reserve(c)
      PROVE used' \in Nat /\ reserved' \in Nat /\ refunded' \in Nat /\ HardCap'
  <2>1. PICK p \in Prompts : Reserve(c)!(p)
    BY <1>2, Zenon DEF Reserve
  <2> QED  BY <2>1, EstimateIsNat, TokenBudgetAssumption DEF IInv, HardCap
<1>3. ASSUME NEW c \in Calls, Settle(c)
      PROVE used' \in Nat /\ reserved' \in Nat /\ refunded' \in Nat /\ HardCap'
  <2>1. call[c] \in CallRecord
    BY Zenon DEF IInv, Typed
  <2>2. Estimate(call[c].prompt) \in Nat
    BY <2>1, EstimateIsNat, Zenon DEF CallRecord
  <2> QED  BY <1>3, <2>1, <2>2, SettlementFits, TokenBudgetAssumption
           DEF IInv, HardCap, Settle, SettleTokens, SettleAccepted
<1>4. CASE RecalibrateInflatedUsage
  BY <1>4, TokenBudgetAssumption DEF IInv, Typed, HardCap, RecalibrateInflatedUsage
<1>5. CASE UNCHANGED <<used, reserved, refunded>>
  BY <1>1, <1>5, Zenon DEF IInv, HardCap
<1>6. \/ RecalibrateInflatedUsage \/ UNCHANGED <<used, reserved, refunded>>
      \/ \E c \in Calls : Reserve(c) \/ Settle(c)
  <2>1. ASSUME NEW c \in Calls, ModelCall(c) \/ Crash(c)
        PROVE UNCHANGED <<used, reserved, refunded>> \/ Reserve(c) \/ Settle(c)
    <3>1. CASE AttemptSucceeds(c)
      BY <3>1, Zenon DEF AttemptSucceeds
    <3>2. CASE AttemptFails(c)
      BY <3>2, ZenonT(60) DEF AttemptFails
    <3>3. CASE BudgetExceeded(c) \/ SettleFails(c) \/ RecordModelCall(c) \/ TraceFails(c)
               \/ HandOff(c) \/ Crash(c)
      BY <3>3, Zenon DEF BudgetExceeded, SettleFails, RecordModelCall, TraceFails, HandOff, Crash
    <3> QED  BY <2>1, <3>1, <3>2, <3>3, Zenon DEF ModelCall
  <2> QED  BY <2>1, Zenon DEF Next, vars
<1> QED  BY <1>1, <1>2, <1>3, <1>4, <1>5, <1>6, Zenon DEF IInv

LEMMA CapInit == ASSUME Init PROVE IInv
BY TokenBudgetAssumption DEF Init, IInv, Typed, HardCap, NoCall, CallRecord, Phases

LEMMA Invariant == Spec => []IInv
<1>1. Init => IInv
  BY CapInit, Zenon
<1>2. IInv /\ [Next]_vars => IInv'
  BY CapKept, Zenon
<1> QED  BY <1>1, <1>2, PTL DEF Spec

\* ReserveTokens and SettleTokens keep tokens_used + tokens_reserved within
\* token_budget for every set of overlapping calls, with crashes, failed
\* settlements and recalibrations in between.
THEOREM BudgetNeverExceeded == Spec => []HardCap
<1>1. IInv => HardCap
  BY Zenon DEF IInv
<1> QED  BY <1>1, Invariant, PTL

\* Every variable keeps its type; used and reserved tokens are never negative,
\* as the CHECK constraints of conversations demand.
THEOREM BudgetTypeCorrect == Spec => []TypeOK
<1>1. IInv => TypeOK
  BY Zenon DEF IInv, Typed, TypeOK, CallRecord
<1> QED  BY <1>1, Invariant, PTL

-----------------------------------------------------------------------------
(* Sums over finite sets.  What holds of every finite set is shown of a    *)
(* least set of which it would be false.                                    *)

INSTANCE FiniteSetTheorems

LEMMA LeastNumber ==
    ASSUME NEW T, T \subseteq Nat, T # {}
    PROVE  \E x \in T : \A y \in T : x <= y
<1> DEFINE Less == OpToRel(<, Nat)
<1>1. IsWellFoundedOn(Less, Nat)
  BY NatLessThanWellFounded, Zenon
<1>2. \A x, y \in Nat : x < y => <<x, y>> \in Less
  BY Zenon DEF OpToRel
<1> HIDE DEF Less
<1>3. PICK x \in T : \A y \in T : ~(<<y, x>> \in Less)
  BY <1>1, WFMin, Zenon
<1>4. ASSUME NEW y \in T PROVE x <= y
  <2>1. x \in Nat /\ y \in Nat
    BY Zenon
  <2>2. ~(y < x)
    BY <1>2, <1>3, <2>1, Zenon
  <2> QED  BY <2>1, <2>2
<1> QED  BY <1>4, Zenon

\* Taking an element away from a subset of a finite set makes it smaller.
LEMMA SmallerSubset ==
    ASSUME NEW S, IsFiniteSet(S), NEW s \in SUBSET S, NEW x \in s
    PROVE  /\ s \ {x} \in SUBSET S
           /\ Cardinality(s) \in Nat \ {0}
           /\ Cardinality(s \ {x}) = Cardinality(s) - 1
<1>1. IsFiniteSet(s)
  BY FS_Subset, Zenon
<1>2. Cardinality(s) \in Nat
  BY <1>1, FS_CardinalityType, Zenon
<1>3. Cardinality(s) # 0
  BY <1>1, FS_EmptySet, Zenon
<1>4. Cardinality(s \ {x}) = Cardinality(s) - 1
  BY <1>1, FS_RemoveElement, Zenon
<1>5. s \ {x} \in SUBSET S
  BY Zenon
<1> QED  BY <1>2, <1>3, <1>4, <1>5

\* A family of subsets of a finite set has a member that leaves the family
\* whatever element it loses.
LEMMA LeastSet ==
    ASSUME NEW S, IsFiniteSet(S), NEW B, B \subseteq SUBSET S, B # {}
    PROVE  \E s \in B : \A x \in s : s \ {x} \notin B
<1> DEFINE N == {Cardinality(s) : s \in B}
<1>1. \A s \in B : Cardinality(s) \in Nat
  BY FS_Subset, FS_CardinalityType, Zenon
<1>2. N \subseteq Nat /\ N # {}
  BY <1>1, Zenon
<1>3. PICK n \in N : \A m \in N : n <= m
  BY <1>2, LeastNumber, Zenon
<1>4. PICK s \in B : n = Cardinality(s)
  BY <1>3, Zenon
<1>5. ASSUME NEW x \in s, s \ {x} \in B PROVE FALSE
  <2>1. Cardinality(s) \in Nat \ {0} /\ Cardinality(s \ {x}) = Cardinality(s) - 1
    BY SmallerSubset, Zenon
  <2>2. Cardinality(s) <= Cardinality(s \ {x})
    BY <1>3, <1>4, <1>5, Zenon
  <2> QED  BY <2>1, <2>2
<1> QED  BY <1>5, Zenon

\* The choice FiniteSetsExt makes when it folds over a set, and the table of
\* partial sums it fills.
Pick(s) == CHOOSE x \in s : TRUE

IsSum(g, f, S) ==
    g = [s \in SUBSET S |-> IF s = {} THEN 0 ELSE f[Pick(s)] + g[s \ {Pick(s)}]]

\* The sum of a function over a set of its arguments.
Total(f, S) == MapThenSumSet(LAMBDA x : f[x], S)

LEMMA PickIsMember ==
    ASSUME NEW s, s # {}
    PROVE  Pick(s) \in s
BY Zenon DEF Pick

\* One entry of the table, a table to which elements can be added in any order,
\* and two tables with the same entries.
Unfolds(g, f, s) == Pick(s) \in s /\ g[s] = f[Pick(s)] + g[s \ {Pick(s)}]
Grows(g, f, S) == \A s \in SUBSET S : \A c \in S \ s : g[s \cup {c}] = g[s] + f[c]
Agree(g, h, T) == \A s \in SUBSET T : g[s] = h[s]

LEMMA SumUnfolds ==
    ASSUME NEW S, NEW f, NEW g, IsSum(g, f, S), NEW s \in SUBSET S, s # {}
    PROVE  Unfolds(g, f, s)
<1>1. g[s] = IF s = {} THEN 0 ELSE f[Pick(s)] + g[s \ {Pick(s)}]
  BY Zenon DEF IsSum
<1> QED  BY <1>1, PickIsMember, Zenon DEF Unfolds

LEMMA SumOfNothing ==
    ASSUME NEW S, NEW f, NEW g, IsSum(g, f, S)
    PROVE  g[{}] = 0
<1>1. {} \in SUBSET S
  BY Zenon
<1> QED  BY <1>1, Zenon DEF IsSum

\* The table exists: sets of n elements only need those of n - 1.
LEMMA SumExists ==
    ASSUME NEW S, IsFiniteSet(S), NEW f
    PROVE  \E g : IsSum(g, f, S)
<1> DEFINE Small(n) == {s \in SUBSET S : Cardinality(s) <= n}
           Up(g, s) == IF s = {} THEN 0 ELSE f[Pick(s)] + g[s \ {Pick(s)}]
           Good(n) == \E g : g = [s \in Small(n) |-> Up(g, s)]
           Bad == {n \in Nat : ~Good(n)}
<1>1. ASSUME NEW n \in Nat, \A m \in Bad : n <= m PROVE Good(n)
  <2>1. PICK h : n # 0 => h = [s \in Small(n - 1) |-> Up(h, s)]
    <3>1. ASSUME n # 0 PROVE Good(n - 1)
      <4>1. n - 1 \in Nat /\ ~(n <= n - 1)
        BY <3>1
      <4> QED  BY <1>1, <4>1, Zenon
    <3> QED  BY <3>1, Zenon
  <2> DEFINE g == [s \in Small(n) |-> Up(h, s)]
  <2>2. ASSUME NEW s \in Small(n) PROVE Up(g, s) = Up(h, s)
    <3>1. CASE s = {}
      BY <3>1, Zenon
    <3>2. CASE s # {}
      <4> DEFINE t == s \ {Pick(s)}
      <4>1. t \in SUBSET S /\ Cardinality(s) \in Nat \ {0} /\ Cardinality(t) = Cardinality(s) - 1
        BY <3>2, PickIsMember, SmallerSubset, Zenon
      <4>2. Cardinality(s) <= n
        BY Zenon
      <4>3. n # 0 /\ Cardinality(t) <= n - 1 /\ Cardinality(t) <= n
        BY <4>1, <4>2
      <4>4. t \in Small(n) /\ t \in Small(n - 1)
        BY <4>1, <4>3, Zenon
      <4>5. h[t] = Up(h, t)
        BY <2>1, <4>3, <4>4, Zenon
      <4>6. g[t] = Up(h, t)
        BY <4>4, Zenon
      <4>7. g[t] = h[t]
        BY <4>5, <4>6, Zenon
      <4> HIDE DEF g
      <4> QED  BY <3>2, <4>7, Zenon
    <3> QED  BY <3>1, <3>2, Zenon
  <2>3. g = [s \in Small(n) |-> Up(g, s)]
    BY <2>2, Zenon
  <2> QED  BY <2>3, Zenon
<1>2. Bad = {}
  <2>1. ASSUME Bad # {} PROVE FALSE
    <3>1. PICK n \in Bad : \A m \in Bad : n <= m
      BY <2>1, LeastNumber, Zenon
    <3> QED  BY <1>1, <3>1, Zenon
  <2> QED  BY <2>1, Zenon
<1>3. Cardinality(S) \in Nat /\ Small(Cardinality(S)) = SUBSET S
  BY FS_CardinalityType, FS_Subset, Zenon
<1>4. Good(Cardinality(S))
  BY <1>2, <1>3, Zenon
<1> QED  BY <1>3, <1>4, Zenon DEF IsSum

\* Two tables agree wherever their functions do.
LEMMA SumsAgree ==
    ASSUME NEW S, NEW T, IsFiniteSet(T), T \subseteq S, NEW f, NEW e, NEW g, NEW h,
           IsSum(g, f, S), IsSum(h, e, T), \A x \in T : f[x] = e[x]
    PROVE  Agree(g, h, T)
<1> DEFINE B == {s \in SUBSET T : g[s] # h[s]}
<1> SUFFICES ASSUME B # {} PROVE FALSE
  BY Zenon DEF Agree
<1>1. PICK s \in B : \A x \in s : s \ {x} \notin B
  BY LeastSet, Zenon
<1>2. s \in SUBSET S /\ s \in SUBSET T
  BY Zenon
<1>3. s # {}
  <2>1. g[{}] = 0 /\ h[{}] = 0
    BY SumOfNothing, Zenon
  <2>2. g[s] # h[s]
    BY Zenon
  <2> QED  BY <2>1, <2>2, Zenon
<1> DEFINE x == Pick(s)
<1>4. x \in s /\ g[s] = f[x] + g[s \ {x}] /\ h[s] = e[x] + h[s \ {x}]
  <2>1. Unfolds(g, f, s) /\ Unfolds(h, e, s)
    BY <1>2, <1>3, SumUnfolds, Zenon
  <2> QED  BY <2>1, Zenon DEF Unfolds
<1>5. g[s \ {x}] = h[s \ {x}]
  BY <1>1, <1>2, <1>4, Zenon
<1> QED  BY <1>2, <1>4, <1>5, Zenon

LEMMA SumsAreNat ==
    ASSUME NEW S, IsFiniteSet(S), NEW f, NEW g, IsSum(g, f, S), \A x \in S : f[x] \in Nat
    PROVE  \A s \in SUBSET S : g[s] \in Nat
<1> DEFINE B == {s \in SUBSET S : g[s] \notin Nat}
<1> SUFFICES ASSUME B # {} PROVE FALSE
  BY Zenon
<1>1. PICK s \in B : \A x \in s : s \ {x} \notin B
  BY LeastSet, Zenon
<1>2. s # {}
  <2>1. g[{}] = 0
    BY SumOfNothing, Zenon
  <2>2. g[s] \notin Nat
    BY Zenon
  <2> QED  BY <2>1, <2>2
<1> DEFINE x == Pick(s)
<1>3. x \in s /\ g[s] = f[x] + g[s \ {x}]
  <2>1. s \in SUBSET S
    BY Zenon
  <2>2. Unfolds(g, f, s)
    BY <1>2, <2>1, SumUnfolds, Zenon
  <2> QED  BY <2>2, Zenon DEF Unfolds
<1>4. g[s \ {x}] \in Nat /\ f[x] \in Nat /\ g[s] \notin Nat
  BY <1>1, <1>3, Zenon
<1> QED  BY <1>3, <1>4

\* The order in which the fold takes the elements does not matter.
LEMMA SumsAdd ==
    ASSUME NEW S, IsFiniteSet(S), NEW f, NEW g, IsSum(g, f, S), \A x \in S : f[x] \in Nat
    PROVE  Grows(g, f, S)
<1> DEFINE B == {s \in SUBSET S : \E c \in S \ s : g[s \cup {c}] # g[s] + f[c]}
<1> SUFFICES ASSUME B # {} PROVE FALSE
  BY Zenon DEF Grows
<1>1. PICK s \in B : \A x \in s : s \ {x} \notin B
  BY LeastSet, Zenon
<1>2. PICK c \in S \ s : g[s \cup {c}] # g[s] + f[c]
  BY <1>1, Zenon
<1> DEFINE u == s \cup {c}
           x == Pick(u)
<1>3. u \in SUBSET S /\ x \in u /\ g[u] = f[x] + g[u \ {x}]
  <2>1. u \in SUBSET S /\ u # {}
    BY Zenon
  <2> HIDE DEF u
  <2>2. Unfolds(g, f, u)
    BY <2>1, SumUnfolds, Zenon
  <2> QED  BY <2>1, <2>2, Zenon DEF Unfolds
<1>4. f[c] \in Nat /\ f[x] \in Nat /\ \A t \in SUBSET S : g[t] \in Nat
  BY <1>3, SumsAreNat, Zenon
<1>5. CASE x = c
  <2>1. u \ {x} = s
    BY <1>5, Zenon
  <2>2. g[u] = f[c] + g[s] /\ g[s] \in Nat
    BY <1>3, <1>4, <1>5, <2>1, Zenon
  <2> QED  BY <1>2, <1>4, <2>2
<1>6. CASE x # c
  <2> DEFINE t == s \ {x}
  <2>1. x \in s /\ x \in S \ t /\ c \in S \ t /\ t \in SUBSET S /\ t \notin B
    BY <1>1, <1>3, <1>6, Zenon
  <2>2. u \ {x} = t \cup {c} /\ t \cup {x} = s
    BY <1>6, <2>1, Zenon
  <2>3. g[t \cup {c}] = g[t] + f[c] /\ g[t \cup {x}] = g[t] + f[x]
    BY <2>1, Zenon
  <2>4. g[u] = f[x] + (g[t] + f[c]) /\ g[s] = g[t] + f[x] /\ g[t] \in Nat
    BY <1>3, <1>4, <2>1, <2>2, <2>3, Zenon
  <2> QED  BY <1>2, <1>4, <2>4
<1> QED  BY <1>5, <1>6, Zenon

\* One table gives the totals over all subsets of a finite set.
Totals(g, f, S) == IsSum(g, f, S) /\ \A T \in SUBSET S : Total(f, T) = g[T]

LEMMA TotalIsSum ==
    ASSUME NEW S, IsFiniteSet(S), NEW f
    PROVE  \E g : Totals(g, f, S)
<1>1. PICK g : IsSum(g, f, S)
  BY SumExists, Zenon
<1>2. ASSUME NEW T \in SUBSET S PROVE Total(f, T) = g[T]
  <2> DEFINE h == CHOOSE h : IsSum(h, f, T)
  <2>1. IsFiniteSet(T)
    BY FS_Subset, Zenon
  <2>2. IsSum(h, f, T)
    BY <2>1, SumExists, Zenon
  <2>3. Total(f, T) = h[T]
    BY Zenon DEF Total, MapThenSumSet, MapThenFoldSet, IsSum, Pick
  <2> HIDE DEF h
  <2>4. T \in SUBSET T /\ T \subseteq S /\ \A x \in T : f[x] = f[x]
    BY Zenon
  <2>5. Agree(g, h, T)
    BY <1>1, <2>1, <2>2, <2>4, SumsAgree, Zenon
  <2> QED  BY <2>3, <2>4, <2>5, Zenon DEF Agree
<1> QED  BY <1>1, <1>2, Zenon DEF Totals

LEMMA TotalEmpty ==
    ASSUME NEW f
    PROVE  Total(f, {}) = 0
<1>1. IsFiniteSet({})
  BY FS_EmptySet, Zenon
<1>2. PICK g : Totals(g, f, {})
  BY <1>1, TotalIsSum, Zenon
<1>3. IsSum(g, f, {}) /\ Total(f, {}) = g[{}]
  BY <1>2, Zenon DEF Totals
<1>4. g[{}] = 0
  BY <1>3, SumOfNothing, Zenon
<1> QED  BY <1>3, <1>4, Zenon

LEMMA TotalIsNat ==
    ASSUME NEW S, IsFiniteSet(S), NEW f \in [S -> Nat], NEW T \in SUBSET S
    PROVE  Total(f, T) \in Nat
<1>1. PICK g : Totals(g, f, S)
  BY TotalIsSum, Zenon
<1>2. IsSum(g, f, S) /\ Total(f, T) = g[T]
  BY <1>1, Zenon DEF Totals
<1>3. \A x \in S : f[x] \in Nat
  BY Zenon
<1>4. \A s \in SUBSET S : g[s] \in Nat
  BY <1>2, <1>3, SumsAreNat, Zenon
<1> QED  BY <1>2, <1>4, Zenon

LEMMA TotalAdds ==
    ASSUME NEW S, IsFiniteSet(S), NEW f \in [S -> Nat], NEW T \in SUBSET S, NEW c \in S \ T
    PROVE  Total(f, T \cup {c}) = Total(f, T) + f[c]
<1>1. PICK g : Totals(g, f, S)
  BY TotalIsSum, Zenon
<1>2. T \cup {c} \in SUBSET S /\ \A x \in S : f[x] \in Nat
  BY Zenon
<1>3. IsSum(g, f, S) /\ Total(f, T) = g[T] /\ Total(f, T \cup {c}) = g[T \cup {c}]
  BY <1>1, <1>2, Zenon DEF Totals
<1>4. Grows(g, f, S)
  BY <1>2, <1>3, SumsAdd, Zenon
<1>5. g[T \cup {c}] = g[T] + f[c]
  BY <1>4, Zenon DEF Grows
<1> QED  BY <1>3, <1>5, Zenon

LEMMA TotalSame ==
    ASSUME NEW T, IsFiniteSet(T), NEW f, NEW e, \A x \in T : f[x] = e[x]
    PROVE  Total(f, T) = Total(e, T)
<1>1. PICK g : Totals(g, f, T)
  BY TotalIsSum, Zenon
<1>2. PICK h : Totals(h, e, T)
  BY TotalIsSum, Zenon
<1>3. T \in SUBSET T /\ T \subseteq T
  BY Zenon
<1>4. IsSum(g, f, T) /\ IsSum(h, e, T) /\ Total(f, T) = g[T] /\ Total(e, T) = h[T]
  BY <1>1, <1>2, <1>3, Zenon DEF Totals
<1>5. Agree(g, h, T)
  BY <1>3, <1>4, SumsAgree, Zenon
<1> QED  BY <1>3, <1>4, <1>5, Zenon DEF Agree

-----------------------------------------------------------------------------
(* What one step does to the call it is about.                              *)

\* The most a call may have cost so far: what it was told, and its prompt for
\* every attempt that told nothing.
Consumed(k) == k.total + k.unknown * k.prompt.tokens

Untouched(c) == \A d \in Calls \ {c} : call'[d] = call[d]

\* Between reservation and price a call's reservation is in the row; before
\* it is not.
Booked ==
    \A c \in Calls : /\ call[c].pc = "idle" => c \notin outstanding
                     /\ call[c].pc \in {"calling", "priced"} => c \in outstanding

LEMMA CallTypes ==
    ASSUME Typed, NEW c \in Calls
    PROVE  /\ call[c] \in CallRecord
           /\ call[c].total \in Nat /\ call[c].unknown \in Nat /\ call[c].input \in Nat
           /\ call[c].tried \in Nat /\ call[c].prompt \in Prompts \cup {NoPrompt}
           /\ call[c].prompt.tokens \in Nat \ {0}
<1>1. call[c] \in CallRecord
  BY Zenon DEF Typed
<1>2. /\ call[c].total \in Nat /\ call[c].unknown \in Nat /\ call[c].input \in Nat
      /\ call[c].tried \in Nat /\ call[c].prompt \in Prompts \cup {NoPrompt}
  BY <1>1 DEF CallRecord
<1> QED  BY <1>1, <1>2, PromptSizes, Zenon

LEMMA ReserveStep ==
    ASSUME Typed, NEW c \in Calls, Reserve(c)
    PROVE  \E p \in Prompts :
             /\ call[c].pc = "idle" /\ call'[c] = [call[c] EXCEPT !.pc = "calling", !.prompt = p]
             /\ call'[c].pc = "calling" /\ call'[c].prompt = p /\ call'[c].tried = call[c].tried
             /\ call'[c].total = call[c].total /\ call'[c].unknown = call[c].unknown
             /\ Untouched(c)
             /\ reserved' = reserved + Estimate(p) /\ outstanding' = outstanding \cup {c}
             /\ UNCHANGED <<used, spent, refunded>>
<1>1. PICK p \in Prompts : Reserve(c)!(p)
  BY Zenon DEF Reserve
<1>2. call[c] \in CallRecord /\ c \in DOMAIN call
  BY Zenon DEF Typed
<1>3. call' = [call EXCEPT ![c] = [call[c] EXCEPT !.pc = "calling", !.prompt = p]]
  BY <1>1, <1>2
<1>4. call'[c] = [call[c] EXCEPT !.pc = "calling", !.prompt = p] /\ Untouched(c)
  BY <1>2, <1>3, Zenon DEF Untouched, Typed
<1>5. /\ call'[c].pc = "calling" /\ call'[c].prompt = p /\ call'[c].tried = call[c].tried
      /\ call'[c].total = call[c].total /\ call'[c].unknown = call[c].unknown
  BY <1>2, <1>4 DEF CallRecord
<1> QED  BY <1>1, <1>4, <1>5, Zenon

\* An attempt adds n to what its call may have cost, and no more than n to what
\* was really spent.
LEMMA SuccessStep ==
    ASSUME Typed, NEW c \in Calls, AttemptSucceeds(c)
    PROVE  LET k == call[c]
               p == call[c].prompt
           IN  \E out \in Outputs, n \in Nat :
                 /\ k.pc = "calling" /\ k.tried < Attempts /\ n <= p.tokens + out
                 /\ call'[c].pc = "priced" /\ call'[c].prompt = p /\ call'[c].tried = k.tried + 1
                 /\ Consumed(call'[c]) = Consumed(k) + n
                 /\ ~Silent => spent' = spent + n /\ p.tokens <= call'[c].input
                 /\ Untouched(c) /\ UNCHANGED <<used, reserved, outstanding, refunded>>
<1> DEFINE p == call[c].prompt
<1>1. PICK out \in Outputs, reports \in {TRUE} \cup {~Silent} : AttemptSucceeds(c)!(out, reports)
  BY Zenon DEF AttemptSucceeds
<1> DEFINE n == IF reports THEN p.tokens + out ELSE 0
           m == IF reports THEN p.tokens ELSE 0
<1>2. call[c].total \in Nat /\ call[c].unknown \in Nat /\ call[c].input \in Nat
      /\ p.tokens \in Nat /\ call[c] \in CallRecord /\ c \in DOMAIN call
  BY CallTypes, Zenon DEF Typed
<1>3. out \in Nat
  BY TokenBudgetAssumption, Zenon
<1>4. n \in Nat /\ n <= p.tokens + out /\ m \in Nat
  BY <1>2, <1>3
<1>5. reports \in BOOLEAN /\ (~Silent => reports)
  BY TokenBudgetAssumption, Zenon
<1>6. call' = [call EXCEPT ![c] = [call[c] EXCEPT !.pc = "priced", !.tried = @ + 1, !.total = @ + n,
                                                  !.input = @ + m]]
  BY <1>1, <1>2
<1>7. call'[c] = [call[c] EXCEPT !.pc = "priced", !.tried = @ + 1, !.total = @ + n, !.input = @ + m]
      /\ Untouched(c)
  BY <1>2, <1>6, Zenon DEF Untouched, Typed
<1>8. /\ call'[c].pc = "priced" /\ call'[c].prompt = p /\ call'[c].tried = call[c].tried + 1
      /\ call'[c].total = call[c].total + n /\ call'[c].unknown = call[c].unknown
      /\ call'[c].input = call[c].input + m
  BY <1>2, <1>7 DEF CallRecord
<1>9. Consumed(call'[c]) = Consumed(call[c]) + n
  <2>1. call[c].unknown * p.tokens \in Nat
    BY <1>2
  <2> QED  BY <1>2, <1>4, <1>8, <2>1 DEF Consumed
<1>10. ~Silent => spent' = spent + n /\ p.tokens <= call'[c].input
  <2>1. spent' = spent + p.tokens + out /\ spent \in Nat
    BY <1>1, Zenon DEF Typed
  <2> QED  BY <1>2, <1>3, <1>5, <1>8, <2>1
<1>11. call[c].pc = "calling" /\ call[c].tried < Attempts
       /\ UNCHANGED <<used, reserved, outstanding, refunded>>
  BY <1>1, Zenon
<1> HIDE DEF n, m
<1> QED  BY <1>4, <1>7, <1>8, <1>9, <1>10, <1>11, Zenon

LEMMA FailureStep ==
    ASSUME Typed, NEW c \in Calls, AttemptFails(c)
    PROVE  LET k == call[c]
               p == call[c].prompt
           IN  /\ k.pc = "calling" /\ k.tried < Attempts
               /\ call'[c].pc \in {"calling", "priced"}
               /\ call'[c].pc = "priced" => call'[c].error = "provider"
               /\ call'[c].prompt = p /\ call'[c].tried = k.tried + 1
               /\ Consumed(call'[c]) = Consumed(k) + p.tokens
               /\ spent' <= spent + p.tokens
               /\ Untouched(c) /\ UNCHANGED <<used, reserved, outstanding, refunded>>
<1> DEFINE p == call[c].prompt
<1>1. PICK reports \in BOOLEAN, again \in BOOLEAN : AttemptFails(c)!(reports, again)
  BY Zenon DEF AttemptFails
<1> DEFINE n == IF reports THEN p.tokens ELSE 0
           u == IF reports THEN 0 ELSE 1
           at == IF again THEN "calling" ELSE "priced"
           why == IF again THEN "none" ELSE "provider"
<1>2. call[c].total \in Nat /\ call[c].unknown \in Nat /\ call[c].input \in Nat
      /\ p.tokens \in Nat /\ call[c] \in CallRecord /\ c \in DOMAIN call
  BY CallTypes, Zenon DEF Typed
<1>3. call' = [call EXCEPT ![c] = [call[c] EXCEPT !.pc = at, !.error = why, !.tried = @ + 1,
                                                  !.total = @ + n, !.input = @ + n, !.unknown = @ + u]]
  BY <1>1, <1>2
<1>4. call'[c] = [call[c] EXCEPT !.pc = at, !.error = why, !.tried = @ + 1,
                                 !.total = @ + n, !.input = @ + n, !.unknown = @ + u]
      /\ Untouched(c)
  BY <1>2, <1>3, Zenon DEF Untouched, Typed
<1>5. /\ call'[c].pc = at /\ call'[c].error = why /\ call'[c].prompt = p
      /\ call'[c].tried = call[c].tried + 1
      /\ call'[c].total = call[c].total + n /\ call'[c].unknown = call[c].unknown + u
  BY <1>2, <1>4 DEF CallRecord
<1>6. Consumed(call'[c]) = Consumed(call[c]) + p.tokens
  <2>1. call[c].unknown * p.tokens \in Nat
        /\ (call[c].unknown + 1) * p.tokens = call[c].unknown * p.tokens + p.tokens
        /\ (call[c].unknown + 0) * p.tokens = call[c].unknown * p.tokens
    BY <1>2
  <2> QED  BY <1>2, <1>5, <2>1 DEF Consumed
<1>7. spent' <= spent + p.tokens
  <2>1. PICK cost \in (IF reports THEN {n} ELSE UnreportedCosts(p)) : spent' = spent + cost
    BY <1>1, Zenon
  <2>2. spent \in Nat
    BY Zenon DEF Typed
  <2> QED  BY <1>2, <2>1, <2>2 DEF UnreportedCosts
<1>8. at \in {"calling", "priced"} /\ (at = "priced" => why = "provider")
  BY Zenon
<1>9. call[c].pc = "calling" /\ call[c].tried < Attempts
      /\ UNCHANGED <<used, reserved, outstanding, refunded>>
  BY <1>1, Zenon
<1> HIDE DEF n, u, at, why
<1> QED  BY <1>4, <1>5, <1>6, <1>7, <1>8, <1>9, Zenon

\* The other steps only say how far the call is.
LEMMA MoveStep ==
    ASSUME Typed, NEW c \in Calls,
           BudgetExceeded(c) \/ Settle(c) \/ SettleFails(c) \/ RecordModelCall(c)
           \/ TraceFails(c) \/ HandOff(c) \/ Crash(c)
    PROVE  /\ call'[c].pc \in {"settled", "failed", "over"}
           /\ call'[c].prompt = call[c].prompt /\ call'[c].tried = call[c].tried
           /\ call'[c].total = call[c].total /\ call'[c].unknown = call[c].unknown
           /\ Untouched(c)
<1>1. PICK pc \in {"settled", "failed", "over"} : call' = [call EXCEPT ![c].pc = pc]
  BY Zenon DEF BudgetExceeded, Settle, SettleFails, RecordModelCall, TraceFails, HandOff, Crash, Move
<1>2. call[c] \in CallRecord /\ c \in DOMAIN call
  BY Zenon DEF Typed
<1>3. call'[c] = [call[c] EXCEPT !.pc = pc] /\ Untouched(c)
  BY <1>1, <1>2, Zenon DEF Untouched, Typed
<1>4. /\ call'[c].pc = pc /\ call'[c].prompt = call[c].prompt /\ call'[c].tried = call[c].tried
      /\ call'[c].total = call[c].total /\ call'[c].unknown = call[c].unknown
  BY <1>2, <1>3 DEF CallRecord
<1> QED  BY <1>3, <1>4, Zenon

\* Of those, only settlement touches the account.
LEMMA QuietStep ==
    ASSUME NEW c \in Calls,
           BudgetExceeded(c) \/ SettleFails(c) \/ RecordModelCall(c)
           \/ TraceFails(c) \/ HandOff(c) \/ Crash(c)
    PROVE  UNCHANGED <<used, reserved, outstanding, spent, refunded>>
BY Zenon DEF BudgetExceeded, SettleFails, RecordModelCall, TraceFails, HandOff, Crash

-----------------------------------------------------------------------------
(* Reservations.                                                            *)

\* What each call holds if its reservation is open.
Held == [c \in Calls |-> Estimate(call[c].prompt)]

LEMMA HeldIsNat ==
    ASSUME Typed
    PROVE  Held \in [Calls -> Nat]
<1>1. \A c \in Calls : Estimate(call[c].prompt) \in Nat
  BY CallTypes, EstimateIsNat, Zenon
<1> QED  BY <1>1, Zenon DEF Held

\* The sum the property is stated with is the total of Held.
LEMMA ReservedIsTotal ==
    ASSUME IsFiniteSet(Calls), outstanding \subseteq Calls
    PROVE  ReservedIsOutstanding <=> reserved = Total(Held, outstanding)
<1> DEFINE Is(g) == g = [s \in SUBSET outstanding |->
                           IF s = {} THEN 0
                           ELSE Estimate(call[Pick(s)].prompt) + g[s \ {Pick(s)}]]
           h == CHOOSE h : Is(h)
<1>1. IsFiniteSet(outstanding)
  BY FS_Subset, Zenon
<1>2. PICK g : Totals(g, Held, outstanding)
  BY <1>1, TotalIsSum, Zenon
<1>3. IsSum(g, Held, outstanding) /\ Total(Held, outstanding) = g[outstanding]
       /\ outstanding \in SUBSET outstanding /\ outstanding \subseteq outstanding
  BY <1>2, Zenon DEF Totals
<1>4. \A s \in SUBSET outstanding : s # {} => Held[Pick(s)] = Estimate(call[Pick(s)].prompt)
  BY PickIsMember, Zenon DEF Held
<1>5. \A f : IsSum(f, Held, outstanding) <=> Is(f)
  BY <1>4, Zenon DEF IsSum
<1>6. Is(h)
  BY <1>3, <1>5, Zenon
<1>7. (reserved = h[outstanding]) <=> ReservedIsOutstanding
  BY Zenon DEF ReservedIsOutstanding, MapThenSumSet, MapThenFoldSet, Pick
<1> HIDE DEF h, Is
<1>8. h[outstanding] = g[outstanding]
  <2>1. IsSum(h, Held, outstanding) /\ \A c \in outstanding : Held[c] = Held[c]
    BY <1>5, <1>6, Zenon
  <2>2. Agree(h, g, outstanding)
    BY <1>1, <1>3, <2>1, SumsAgree, Zenon
  <2> QED  BY <1>3, <2>2, Zenon DEF Agree
<1> QED  BY <1>3, <1>7, <1>8, Zenon

AccountInv == Booked /\ reserved = Total(Held, outstanding)

LEMMA BookedKept ==
    ASSUME Typed, Booked, [Next]_vars
    PROVE  Booked'
<1>1. ASSUME NEW c \in Calls, Reserve(c) PROVE Booked'
  <2>1. call'[c].pc = "calling" /\ outstanding' = outstanding \cup {c} /\ Untouched(c)
    BY <1>1, ReserveStep, Zenon
  <2> QED  BY <2>1, Zenon DEF Booked, Untouched
<1>2. ASSUME NEW c \in Calls, AttemptSucceeds(c) PROVE Booked'
  BY <1>2, SuccessStep, Zenon DEF Booked, Untouched
<1>3. ASSUME NEW c \in Calls, AttemptFails(c) PROVE Booked'
  BY <1>3, FailureStep, Zenon DEF Booked, Untouched
<1>4. ASSUME NEW c \in Calls, Settle(c) PROVE Booked'
  <2>1. outstanding' = outstanding \ {c}
    BY <1>4, Zenon DEF Settle
  <2> QED  BY <1>4, <2>1, MoveStep, Zenon DEF Booked, Untouched
<1>5. ASSUME NEW c \in Calls, BudgetExceeded(c) \/ SettleFails(c) \/ RecordModelCall(c)
                              \/ TraceFails(c) \/ HandOff(c) \/ Crash(c)
      PROVE Booked'
  <2>1. outstanding' = outstanding
    BY <1>5, QuietStep, Zenon
  <2> QED  BY <1>5, <2>1, MoveStep, Zenon DEF Booked, Untouched
<1>6. CASE RecalibrateInflatedUsage \/ UNCHANGED vars
  BY <1>6, Zenon DEF Booked, RecalibrateInflatedUsage, vars
<1> QED  BY <1>1, <1>2, <1>3, <1>4, <1>5, <1>6, Zenon DEF Next, ModelCall

\* A total over the calls that changes at one of them.
LEMMA TotalGains ==
    ASSUME IsFiniteSet(Calls), NEW f \in [Calls -> Nat], NEW g \in [Calls -> Nat],
           NEW T \in SUBSET Calls, NEW c \in Calls \ T, \A d \in Calls \ {c} : g[d] = f[d]
    PROVE  Total(g, T \cup {c}) = Total(f, T) + g[c]
<1>1. IsFiniteSet(T) /\ \A x \in T : g[x] = f[x]
  BY FS_Subset, Zenon
<1>2. Total(g, T) = Total(f, T)
  BY <1>1, TotalSame, Zenon
<1>3. Total(g, T \cup {c}) = Total(g, T) + g[c]
  BY TotalAdds, SMT
<1> QED  BY <1>2, <1>3, Zenon

LEMMA TotalLoses ==
    ASSUME IsFiniteSet(Calls), NEW f \in [Calls -> Nat], NEW g \in [Calls -> Nat],
           NEW T \in SUBSET Calls, NEW c \in T, \A d \in Calls \ {c} : g[d] = f[d]
    PROVE  Total(f, T) = Total(g, T \ {c}) + f[c]
<1>1. T \ {c} \in SUBSET Calls /\ c \in Calls \ (T \ {c}) /\ (T \ {c}) \cup {c} = T
  BY Zenon
<1>2. \A d \in Calls \ {c} : f[d] = g[d]
  BY Zenon
<1>3. Total(f, (T \ {c}) \cup {c}) = Total(g, T \ {c}) + f[c]
  BY <1>1, <1>2, TotalGains, SMT
<1> QED  BY <1>1, <1>3, Zenon

\* Steps that leave the prompts alone leave Held alone.
LEMMA HeldKept ==
    ASSUME NEW c \in Calls, call'[c].prompt = call[c].prompt, Untouched(c)
    PROVE  Held' = Held
<1>1. \A d \in Calls : call'[d].prompt = call[d].prompt
  BY Zenon DEF Untouched
<1> QED  BY <1>1, Zenon DEF Held

LEMMA AccountKept ==
    ASSUME IsFiniteSet(Calls), Typed, reserved \in Nat, AccountInv, [Next]_vars
    PROVE  AccountInv'
<1>0. Booked'
  BY BookedKept, Zenon DEF AccountInv
<1>1. ASSUME NEW c \in Calls, Reserve(c) PROVE reserved' = Total(Held', outstanding')
  <2>1. PICK p \in Prompts : /\ call[c].pc = "idle" /\ call'[c].prompt = p /\ Untouched(c)
                             /\ reserved' = reserved + Estimate(p)
                             /\ outstanding' = outstanding \cup {c}
    BY <1>1, ReserveStep, Zenon
  <2>2. Held \in [Calls -> Nat] /\ Held' \in [Calls -> Nat]
    <3>1. \A d \in Calls : Estimate(call[d].prompt) \in Nat
      BY CallTypes, EstimateIsNat, Zenon
    <3>2. Estimate(p) \in Nat
      BY EstimateIsNat, Zenon
    <3>3. \A d \in Calls : Estimate(call'[d].prompt) \in Nat
      BY <2>1, <3>1, <3>2, Zenon DEF Untouched
    <3> QED  BY <3>1, <3>3, Zenon DEF Held
  <2>3. Held'[c] = Estimate(p) /\ \A d \in Calls \ {c} : Held'[d] = Held[d]
    BY <2>1, Zenon DEF Held, Untouched
  <2>4. outstanding \in SUBSET Calls /\ c \in Calls \ outstanding
    BY <2>1, Zenon DEF AccountInv, Booked, Typed
  <2>5. Total(Held', outstanding \cup {c}) = Total(Held, outstanding) + Held'[c]
    BY <2>2, <2>3, <2>4, TotalGains, Zenon
  <2> QED  BY <2>1, <2>3, <2>5, Zenon DEF AccountInv
<1>2. ASSUME NEW c \in Calls, Settle(c) PROVE reserved' = Total(Held', outstanding')
  <2>1. /\ call[c].pc = "priced" /\ outstanding' = outstanding \ {c}
        /\ reserved' = reserved - Estimate(call[c].prompt)
    BY <1>2, Zenon DEF Settle, SettleTokens
  <2>2. Held' = Held /\ Held \in [Calls -> Nat] /\ Held[c] = Estimate(call[c].prompt)
    BY <1>2, MoveStep, HeldKept, HeldIsNat, Zenon DEF Held
  <2>3. outstanding \in SUBSET Calls /\ c \in outstanding
    BY <2>1, Zenon DEF AccountInv, Booked, Typed
  <2>4. Total(Held, outstanding) = Total(Held, outstanding \ {c}) + Held[c]
    BY <2>2, <2>3, TotalLoses, Zenon
  <2>5. Total(Held, outstanding \ {c}) \in Nat /\ Held[c] \in Nat
    BY <2>2, <2>3, TotalIsNat, Zenon
  <2>6. reserved = Total(Held, outstanding)
    BY Zenon DEF AccountInv
  <2>7. reserved' = Total(Held, outstanding \ {c})
    BY <2>1, <2>2, <2>4, <2>5, <2>6
  <2> QED  BY <2>1, <2>2, <2>7, Zenon
<1>3. ASSUME NEW c \in Calls, AttemptSucceeds(c) PROVE reserved' = Total(Held', outstanding')
  <2>1. call'[c].prompt = call[c].prompt /\ Untouched(c) /\ UNCHANGED <<reserved, outstanding>>
    BY <1>3, SuccessStep, Zenon
  <2> QED  BY <2>1, HeldKept, Zenon DEF AccountInv
<1>4. ASSUME NEW c \in Calls, AttemptFails(c) PROVE reserved' = Total(Held', outstanding')
  <2>1. call'[c].prompt = call[c].prompt /\ Untouched(c) /\ UNCHANGED <<reserved, outstanding>>
    BY <1>4, FailureStep, Zenon
  <2> QED  BY <2>1, HeldKept, Zenon DEF AccountInv
<1>5. ASSUME NEW c \in Calls, BudgetExceeded(c) \/ SettleFails(c) \/ RecordModelCall(c)
                              \/ TraceFails(c) \/ HandOff(c) \/ Crash(c)
      PROVE reserved' = Total(Held', outstanding')
  <2>1. UNCHANGED <<reserved, outstanding>>
    BY <1>5, QuietStep, Zenon
  <2>2. Held' = Held
    BY <1>5, MoveStep, HeldKept, Zenon
  <2> QED  BY <2>1, <2>2, Zenon DEF AccountInv
<1>6. ASSUME RecalibrateInflatedUsage \/ UNCHANGED vars PROVE reserved' = Total(Held', outstanding')
  <2>1. UNCHANGED <<call, reserved, outstanding>>
    BY <1>6, Zenon DEF RecalibrateInflatedUsage, vars
  <2>2. Held' = Held
    BY <2>1, Zenon DEF Held
  <2> QED  BY <2>1, <2>2, Zenon DEF AccountInv
<1>7. reserved' = Total(Held', outstanding')
  BY <1>1, <1>2, <1>3, <1>4, <1>5, <1>6, Zenon DEF Next, ModelCall
<1> QED  BY <1>0, <1>7, Zenon DEF AccountInv

LEMMA AccountInit == ASSUME Init PROVE AccountInv
<1>1. reserved = 0 /\ outstanding = {} /\ \A c \in Calls : call[c].pc = "idle"
  BY Zenon DEF Init, NoCall
<1> QED  BY <1>1, TotalEmpty, Zenon DEF AccountInv, Booked

\* tokens_reserved is the sum of the estimates of the calls whose reservation
\* nobody settled, for any number of overlapping calls, any budget and any
\* prompts: ReserveTokens and SettleTokens add and take away the same amount,
\* and nothing else touches the column.
THEOREM ReservationsAddUp ==
    ASSUME IsFiniteSet(Calls)
    PROVE  Spec => []ReservedIsOutstanding
<1>1. Init => AccountInv
  BY AccountInit, Zenon
<1>2. IInv /\ AccountInv /\ [Next]_vars => AccountInv'
  BY AccountKept, Zenon DEF IInv
<1>3. IInv /\ AccountInv => ReservedIsOutstanding
  BY ReservedIsTotal, Zenon DEF AccountInv, IInv, Typed
<1> QED  BY <1>1, <1>2, <1>3, Invariant, PTL DEF Spec

-----------------------------------------------------------------------------
(* What a call may cost, and what is charged for it.                        *)

\* The estimate is never below what one attempt costs.
Conservative ==
    \A p \in Prompts : /\ p.tokens <= PerAttempt(p)
                       /\ \A out \in Outputs : p.tokens + out <= PerAttempt(p)

\* What a call may have cost fits the attempts it made.
FitsOne(k) ==
    /\ k.pc = "idle" => k.tried = 0 /\ k.total = 0 /\ k.unknown = 0
    /\ k.pc = "calling" => k.prompt \in Prompts
    /\ k.tried <= Attempts
    /\ Consumed(k) <= PerAttempt(k.prompt) * k.tried

Fits == \A c \in Calls : FitsOne(call[c])

\* One more attempt allows for one more attempt's estimate.
LEMMA OneMore ==
    ASSUME NEW a \in Nat, NEW n \in Nat, NEW t \in Nat, NEW u \in Nat, t <= a * n, u <= a
    PROVE  t + u <= a * (n + 1)
<1>1. a * (n + 1) = a * n + a
  BY SMT
<1>2. a * n \in Nat
  BY SMT
<1> QED  BY <1>1, <1>2

LEMMA Monotone ==
    ASSUME NEW a \in Nat, NEW m \in Nat, NEW n \in Nat, m <= n
    PROVE  a * m <= a * n
<1>1. PICK d \in Nat : n = m + d
  <2>1. n - m \in Nat /\ n = m + (n - m)
    BY SMT
  <2> QED  BY <2>1, Zenon
<1>2. a * n = a * m + a * d /\ a * d \in Nat /\ a * m \in Nat
  BY <1>1, SMT
<1> QED  BY <1>2

LEMMA ConsumedIsNat ==
    ASSUME NEW k \in CallRecord
    PROVE  Consumed(k) \in Nat /\ k.total <= Consumed(k)
<1>1. k.total \in Nat /\ k.unknown \in Nat /\ k.prompt \in Prompts \cup {NoPrompt}
  BY DEF CallRecord
<1>2. k.prompt.tokens \in Nat
  BY <1>1, PromptSizes
<1>3. k.unknown * k.prompt.tokens \in Nat
  BY <1>1, <1>2
<1> QED  BY <1>1, <1>3 DEF Consumed

\* One attempt more, of a cost within the estimate for one.
LEMMA AttemptFits ==
    ASSUME Typed, Fits, NEW c \in Calls, NEW n \in Nat,
           call[c].pc = "calling", call[c].tried < Attempts, n <= PerAttempt(call[c].prompt),
           call'[c].pc \in {"calling", "priced"}, call'[c].prompt = call[c].prompt,
           call'[c].tried = call[c].tried + 1, Consumed(call'[c]) = Consumed(call[c]) + n,
           Untouched(c)
    PROVE  Fits'
<1>1. call[c] \in CallRecord /\ call[c].tried \in Nat /\ call[c].prompt \in Prompts \cup {NoPrompt}
  BY CallTypes, Zenon
<1>2. PerAttempt(call[c].prompt) \in Nat
  BY <1>1, PerAttemptIsNat
<1>3. /\ call[c].prompt \in Prompts
      /\ Consumed(call[c]) <= PerAttempt(call[c].prompt) * call[c].tried
  BY Zenon DEF Fits, FitsOne
<1>4. Consumed(call[c]) \in Nat
  BY <1>1, ConsumedIsNat, Zenon
<1>5. Consumed(call[c]) + n <= PerAttempt(call[c].prompt) * (call[c].tried + 1)
  BY <1>1, <1>2, <1>3, <1>4, OneMore, Zenon
<1>6. call'[c].tried <= Attempts
  BY <1>1, TokenBudgetAssumption
<1>7. FitsOne(call'[c])
  BY <1>3, <1>5, <1>6, Zenon DEF FitsOne
<1> QED  BY <1>7, Zenon DEF Fits, Untouched

\* A step of one call keeps every call's cost within its attempts.
LEMMA FitsKept ==
    ASSUME Typed, Fits, Conservative, [Next]_vars
    PROVE  Fits'
<1>1. ASSUME NEW c \in Calls, Reserve(c) PROVE Fits'
  <2>1. PICK p \in Prompts :
          /\ call[c].pc = "idle" /\ call'[c].pc = "calling" /\ call'[c].prompt = p
          /\ call'[c].tried = call[c].tried /\ call'[c].total = call[c].total
          /\ call'[c].unknown = call[c].unknown /\ Untouched(c)
    BY <1>1, ReserveStep, Zenon
  <2>2. call'[c].tried = 0 /\ call'[c].total = 0 /\ call'[c].unknown = 0
    BY <2>1, Zenon DEF Fits, FitsOne
  <2>3. PerAttempt(p) \in Nat /\ p.tokens \in Nat
    BY PerAttemptIsNat, PromptSizes
  <2>4. Consumed(call'[c]) <= PerAttempt(call'[c].prompt) * call'[c].tried
        /\ call'[c].tried <= Attempts
    BY <2>1, <2>2, <2>3, TokenBudgetAssumption DEF Consumed
  <2>5. FitsOne(call'[c])
    BY <2>1, <2>4, Zenon DEF FitsOne
  <2> QED  BY <2>1, <2>5, Zenon DEF Fits, Untouched
<1>2. ASSUME NEW c \in Calls, AttemptSucceeds(c) PROVE Fits'
  <2>1. PICK out \in Outputs, n \in Nat :
          /\ call[c].pc = "calling" /\ call[c].tried < Attempts /\ n <= call[c].prompt.tokens + out
          /\ call'[c].pc = "priced" /\ call'[c].prompt = call[c].prompt
          /\ call'[c].tried = call[c].tried + 1
          /\ Consumed(call'[c]) = Consumed(call[c]) + n /\ Untouched(c)
    BY <1>2, SuccessStep, Zenon
  <2>2. call[c].prompt \in Prompts /\ call[c].prompt.tokens + out <= PerAttempt(call[c].prompt)
    BY <2>1, Zenon DEF Fits, FitsOne, Conservative
  <2>3. call[c].prompt.tokens \in Nat /\ out \in Nat /\ PerAttempt(call[c].prompt) \in Nat
    BY <2>2, PromptSizes, PerAttemptIsNat, TokenBudgetAssumption
  <2>4. n <= PerAttempt(call[c].prompt)
    BY <2>1, <2>2, <2>3
  <2> QED  BY <2>1, <2>4, AttemptFits, Zenon
<1>3. ASSUME NEW c \in Calls, AttemptFails(c) PROVE Fits'
  <2>1. /\ call[c].pc = "calling" /\ call[c].tried < Attempts
        /\ call'[c].pc \in {"calling", "priced"} /\ call'[c].prompt = call[c].prompt
        /\ call'[c].tried = call[c].tried + 1
        /\ Consumed(call'[c]) = Consumed(call[c]) + call[c].prompt.tokens /\ Untouched(c)
    BY <1>3, FailureStep, Zenon
  <2>2. call[c].prompt.tokens <= PerAttempt(call[c].prompt)
    BY <2>1, Zenon DEF Fits, FitsOne, Conservative
  <2>3. call[c].prompt.tokens \in Nat
    BY CallTypes, Zenon
  <2> QED  BY <2>1, <2>2, <2>3, AttemptFits, Zenon
<1>4. ASSUME NEW c \in Calls,
             BudgetExceeded(c) \/ Settle(c) \/ SettleFails(c) \/ RecordModelCall(c)
             \/ TraceFails(c) \/ HandOff(c) \/ Crash(c)
      PROVE Fits'
  <2>1. FitsOne(call'[c])
    BY <1>4, MoveStep, Zenon DEF Fits, FitsOne, Consumed
  <2> QED  BY <1>4, <2>1, MoveStep, Zenon DEF Fits, Untouched
<1>5. CASE RecalibrateInflatedUsage \/ UNCHANGED vars
  BY <1>5, Zenon DEF Fits, RecalibrateInflatedUsage, vars
<1> QED  BY <1>1, <1>2, <1>3, <1>4, <1>5, Zenon DEF Next, ModelCall

\* What a call may have cost is within its estimate.
LEMMA CostFits ==
    ASSUME NEW k \in CallRecord, FitsOne(k)
    PROVE  Consumed(k) <= Estimate(k.prompt)
<1>1. k.tried \in Nat /\ k.prompt \in Prompts \cup {NoPrompt}
  BY DEF CallRecord
<1>2. PerAttempt(k.prompt) \in Nat /\ Consumed(k) \in Nat
  BY <1>1, PerAttemptIsNat, ConsumedIsNat
<1>3. PerAttempt(k.prompt) * k.tried <= Estimate(k.prompt)
  BY <1>1, <1>2, Monotone, TokenBudgetAssumption DEF FitsOne, Estimate
<1>4. PerAttempt(k.prompt) * k.tried \in Nat /\ Estimate(k.prompt) \in Nat
  BY <1>1, <1>2, EstimateIsNat
<1> QED  BY <1>2, <1>3, <1>4 DEF FitsOne

\* A call whose cost fits its attempts is priced within its estimate.
LEMMA PriceFits ==
    ASSUME NEW k \in CallRecord, FitsOne(k)
    PROVE  chargeForModelCall(k) <= Estimate(k.prompt)
<1>1. k.total \in Nat /\ k.unknown \in Nat /\ k.input \in Nat /\ Estimate(k.prompt) \in Nat
  BY EstimateIsNat DEF CallRecord
<1>2. k.total <= Estimate(k.prompt)
  BY <1>1, CostFits, ConsumedIsNat
<1>3. Surcharged(k) \in Nat
  BY <1>1 DEF Surcharged
<1>4. Min({Surcharged(k), Estimate(k.prompt)}) <= Estimate(k.prompt)
  BY <1>1, <1>3, MinOfTwo, Zenon
<1> QED  BY <1>1, <1>2, <1>4 DEF chargeForModelCall

LEMMA FitsInit == ASSUME Init PROVE Fits
<1>1. PerAttempt(NoPrompt) \in Nat
  BY PerAttemptIsNat, Zenon
<1>2. FitsOne(NoCall)
  BY <1>1, TokenBudgetAssumption DEF FitsOne, Consumed, NoCall, NoPrompt
<1> QED  BY <1>2, Zenon DEF Init, Fits

\* If no attempt costs more than the estimator allows for one, then
\* chargeForModelCall never exceeds the reservation, retries and silent
\* attempts included: the condition under which its comment is true.
THEOREM ChargesFitReservations ==
    ASSUME Conservative
    PROVE  Spec => []ChargeWithinReservation
<1>1. Init => Typed /\ Fits
  BY CapInit, FitsInit, Zenon DEF IInv
<1>2. Typed /\ Fits /\ [Next]_vars => (Typed /\ Fits)'
  BY TypesKept, FitsKept, Zenon
<1>3. Typed /\ Fits => ChargeWithinReservation
  BY PriceFits, Zenon DEF Typed, Fits, ChargeWithinReservation
<1> QED  BY <1>1, <1>2, <1>3, PTL DEF Spec

-----------------------------------------------------------------------------
(* What was spent.                                                          *)

\* What an open reservation can still pay for.
Slack == [c \in Calls |-> Estimate(call[c].prompt) - Consumed(call[c])]

\* An answer told the tokens of its prompt at least.
Reported ==
    \A c \in Calls : call[c].pc = "priced" /\ call[c].error = "none" =>
        call[c].prompt.tokens <= call[c].input

SpendInv ==
    /\ Fits
    /\ Reported
    /\ spent + Total(Slack, outstanding) <= used + reserved + refunded

LEMMA SlackIsNat ==
    ASSUME Typed, Fits
    PROVE  Slack \in [Calls -> Nat]
<1>1. ASSUME NEW c \in Calls PROVE Estimate(call[c].prompt) - Consumed(call[c]) \in Nat
  <2>1. call[c] \in CallRecord /\ FitsOne(call[c]) /\ call[c].prompt \in Prompts \cup {NoPrompt}
    BY CallTypes, Zenon DEF Fits
  <2>2. Consumed(call[c]) \in Nat /\ Estimate(call[c].prompt) \in Nat
        /\ Consumed(call[c]) <= Estimate(call[c].prompt)
    BY <2>1, ConsumedIsNat, EstimateIsNat, CostFits, Zenon
  <2> QED  BY <2>2
<1> QED  BY <1>1, Zenon DEF Slack

LEMMA SlackIsNatNext == (Typed /\ Fits)' => (Slack \in [Calls -> Nat])'
<1>1. Typed /\ Fits => Slack \in [Calls -> Nat]
  BY SlackIsNat, Zenon
<1> QED  BY <1>1, PTL

LEMMA MinIsOne ==
    ASSUME NEW a \in Nat, NEW b \in Nat
    PROVE  Min({a, b}) \in {a, b}
<1>1. \E x \in {a, b} : \A y \in {a, b} : x <= y
  BY SMT
<1> QED  BY <1>1, Zenon DEF Min

\* The price of a call covers what it may have cost.
LEMMA PriceCovers ==
    ASSUME NEW k \in CallRecord, FitsOne(k),
           k.error = "none" => k.prompt.tokens <= k.input
    PROVE  Consumed(k) <= Settlement(k)
<1>1. k.total \in Nat /\ k.unknown \in Nat /\ k.input \in Nat /\ k.prompt \in Prompts \cup {NoPrompt}
  BY DEF CallRecord
<1>2. k.prompt.tokens \in Nat \ {0} /\ Estimate(k.prompt) \in Nat /\ Consumed(k) \in Nat
      /\ Consumed(k) <= Estimate(k.prompt)
  BY <1>1, PromptSizes, EstimateIsNat, ConsumedIsNat, CostFits, Zenon
<1>3. ASSUME k.error = "none" PROVE Consumed(k) <= Surcharged(k) /\ Surcharged(k) \in Nat
  <2>1. k.input > 0 /\ k.prompt.tokens <= k.input
    BY <1>1, <1>2, <1>3
  <2>2. k.unknown * k.prompt.tokens <= k.unknown * k.input
    BY <1>1, <1>2, <2>1, Monotone
  <2>3. k.unknown * k.prompt.tokens \in Nat /\ k.unknown * k.input \in Nat
    BY <1>1, <1>2
  <2>4. Surcharged(k) = k.total + k.unknown * k.input
    BY <2>1 DEF Surcharged
  <2> QED  BY <1>1, <2>2, <2>3, <2>4 DEF Consumed
<1>4. k.unknown = 0 => Consumed(k) = k.total
  BY <1>1, <1>2 DEF Consumed
<1>5. Consumed(k) <= chargeForModelCall(k)
  <2>1. CASE k.error # "none" \/ k.total = 0
    BY <1>2, <2>1 DEF chargeForModelCall
  <2>2. CASE ~(k.error # "none" \/ k.total = 0) /\ k.unknown = 0
    BY <1>1, <1>2, <1>4, <2>2 DEF chargeForModelCall
  <2>3. CASE ~(k.error # "none" \/ k.total = 0) /\ k.unknown # 0
    <3>1. chargeForModelCall(k) = Min({Surcharged(k), Estimate(k.prompt)})
      BY <2>3, Zenon DEF chargeForModelCall
    <3>2. Surcharged(k) \in Nat /\ Consumed(k) <= Surcharged(k)
      BY <1>3, <2>3, Zenon
    <3>3. Min({Surcharged(k), Estimate(k.prompt)}) \in {Surcharged(k), Estimate(k.prompt)}
      BY <1>2, <3>2, MinIsOne, Zenon
    <3> QED  BY <1>2, <3>1, <3>2, <3>3, Zenon
  <2> QED  BY <2>1, <2>2, <2>3, Zenon
<1>6. chargeForModelCall(k) \in Nat
  BY ChargeIsNat, Zenon
<1>7. Settlement(k) \in {chargeForModelCall(k), Estimate(k.prompt)}
  BY <1>2, <1>6, MinIsOne, Zenon DEF Settlement
<1> QED  BY <1>2, <1>5, <1>7, Zenon

LEMMA ReportedKept ==
    ASSUME Typed, Reported, ~Silent, [Next]_vars
    PROVE  Reported'
<1>1. ASSUME NEW c \in Calls, Reserve(c) PROVE Reported'
  BY <1>1, ReserveStep, Zenon DEF Reported, Untouched
<1>2. ASSUME NEW c \in Calls, AttemptSucceeds(c) PROVE Reported'
  BY <1>2, SuccessStep, Zenon DEF Reported, Untouched
<1>3. ASSUME NEW c \in Calls, AttemptFails(c) PROVE Reported'
  BY <1>3, FailureStep, Zenon DEF Reported, Untouched
<1>4. ASSUME NEW c \in Calls,
             BudgetExceeded(c) \/ Settle(c) \/ SettleFails(c) \/ RecordModelCall(c)
             \/ TraceFails(c) \/ HandOff(c) \/ Crash(c)
      PROVE Reported'
  BY <1>4, MoveStep, Zenon DEF Reported, Untouched
<1>5. CASE RecalibrateInflatedUsage \/ UNCHANGED vars
  BY <1>5, Zenon DEF Reported, RecalibrateInflatedUsage, vars
<1> QED  BY <1>1, <1>2, <1>3, <1>4, <1>5, Zenon DEF Next, ModelCall

\* The slack of the other calls does not move.
LEMMA SlackElsewhere ==
    ASSUME NEW c \in Calls, Untouched(c)
    PROVE  /\ \A d \in Calls \ {c} : Slack'[d] = Slack[d]
           /\ Slack[c] = Estimate(call[c].prompt) - Consumed(call[c])
           /\ Slack'[c] = Estimate(call'[c].prompt) - Consumed(call'[c])
BY Zenon DEF Slack, Untouched

LEMMA SlackKept ==
    ASSUME NEW c \in Calls, Untouched(c), call'[c].prompt = call[c].prompt,
           call'[c].total = call[c].total, call'[c].unknown = call[c].unknown
    PROVE  Slack' = Slack
<1>1. Consumed(call'[c]) = Consumed(call[c])
  BY Zenon DEF Consumed
<1>2. \A d \in Calls : Estimate(call'[d].prompt) - Consumed(call'[d])
                        = Estimate(call[d].prompt) - Consumed(call[d])
  BY <1>1, Zenon DEF Untouched
<1> QED  BY <1>2, Zenon DEF Slack

\* An attempt of an open call takes from the call's slack what it spends.
LEMMA AttemptSpends ==
    ASSUME IsFiniteSet(Calls), IInv, SpendInv, Booked, Fits', Typed',
           NEW c \in Calls, NEW n \in Nat, call[c].pc = "calling",
           call'[c].prompt = call[c].prompt, Consumed(call'[c]) = Consumed(call[c]) + n,
           Untouched(c), spent' <= spent + n, spent' \in Nat,
           UNCHANGED <<used, reserved, outstanding, refunded>>
    PROVE  spent' + Total(Slack', outstanding') <= used' + reserved' + refunded'
<1>1. Slack \in [Calls -> Nat] /\ Slack' \in [Calls -> Nat]
  <2>1. Slack \in [Calls -> Nat]
    BY SlackIsNat, Zenon DEF IInv, SpendInv
  <2>2. Slack' \in [Calls -> Nat]
    BY SlackIsNatNext, Zenon
  <2> QED  BY <2>1, <2>2, Zenon
<1>2. outstanding \in SUBSET Calls /\ c \in outstanding
  BY Zenon DEF IInv, Typed, Booked
<1> DEFINE rest == outstanding \ {c}
<1>3. rest \in SUBSET Calls /\ c \in Calls \ rest /\ rest \cup {c} = outstanding
  BY <1>2, Zenon
<1>4. Total(Slack, outstanding) = Total(Slack, rest) + Slack[c]
  BY <1>1, <1>2, TotalLoses, Zenon
<1>5. \A d \in Calls \ {c} : Slack'[d] = Slack[d]
  BY SlackElsewhere, Zenon
<1>6. Total(Slack', outstanding) = Total(Slack, rest) + Slack'[c]
  BY <1>1, <1>3, <1>5, TotalGains, SMT
<1>7. Slack'[c] = Slack[c] - n
  <2>1. Estimate(call[c].prompt) \in Nat /\ Consumed(call[c]) \in Nat
    BY CallTypes, EstimateIsNat, ConsumedIsNat, Zenon DEF IInv
  <2>2. /\ Slack[c] = Estimate(call[c].prompt) - Consumed(call[c])
        /\ Slack'[c] = Estimate(call[c].prompt) - (Consumed(call[c]) + n)
    BY SlackElsewhere, Zenon
  <2> QED  BY <2>1, <2>2
<1>8. Total(Slack, rest) \in Nat /\ Slack[c] \in Nat
  BY <1>1, <1>3, TotalIsNat, Zenon
<1>9. spent \in Nat /\ used \in Nat /\ reserved \in Nat /\ refunded \in Nat
      /\ spent + Total(Slack, outstanding) <= used + reserved + refunded
  BY Zenon DEF IInv, Typed, SpendInv
<1>10. spent' + Total(Slack', outstanding) <= used + reserved + refunded
  BY <1>4, <1>6, <1>7, <1>8, <1>9
<1> QED  BY <1>10, Zenon

LEMMA SpendKept ==
    ASSUME IsFiniteSet(Calls), Conservative, ~Silent, IInv, Booked, SpendInv, [Next]_vars
    PROVE  SpendInv'
<1>1. Typed' /\ Fits' /\ Reported'
  BY TypesKept, FitsKept, ReportedKept, Zenon DEF IInv, SpendInv
<1>2. Typed /\ spent \in Nat /\ used \in Nat /\ reserved \in Nat /\ refunded \in Nat
      /\ outstanding \in SUBSET Calls
  BY Zenon DEF IInv, Typed
<1>3. Slack \in [Calls -> Nat]
  BY SlackIsNat, Zenon DEF IInv, SpendInv
<1>4. Slack' \in [Calls -> Nat]
  BY <1>1, SlackIsNatNext, Zenon
<1>5. spent + Total(Slack, outstanding) <= used + reserved + refunded
  BY Zenon DEF SpendInv
<1>6. Total(Slack, outstanding) \in Nat
  BY <1>2, <1>3, TotalIsNat, Zenon
<1> DEFINE Goal == spent' + Total(Slack', outstanding') <= used' + reserved' + refunded'
<1>7. ASSUME NEW c \in Calls, Reserve(c) PROVE Goal
  <2>1. PICK p \in Prompts :
          /\ call[c].pc = "idle" /\ call'[c].prompt = p
          /\ call'[c].total = call[c].total /\ call'[c].unknown = call[c].unknown /\ Untouched(c)
          /\ reserved' = reserved + Estimate(p) /\ outstanding' = outstanding \cup {c}
          /\ UNCHANGED <<used, spent, refunded>>
    BY <1>2, <1>7, ReserveStep, Zenon
  <2>2. call'[c].total = 0 /\ call'[c].unknown = 0
    BY <2>1, Zenon DEF SpendInv, Fits, FitsOne
  <2>3. p.tokens \in Nat /\ Estimate(p) \in Nat
    BY PromptSizes, EstimateIsNat
  <2>4. Consumed(call'[c]) = 0
    BY <2>1, <2>2, <2>3 DEF Consumed
  <2>5. c \in Calls \ outstanding /\ \A d \in Calls \ {c} : Slack'[d] = Slack[d]
    BY <2>1, SlackElsewhere, Zenon DEF Booked
  <2>6. Slack'[c] = Estimate(p) - 0
    BY <2>1, <2>4, SlackElsewhere, Zenon
  <2>7. Total(Slack', outstanding \cup {c}) = Total(Slack, outstanding) + Slack'[c]
    BY <1>2, <1>3, <1>4, <2>5, TotalGains, Zenon
  <2>8. spent + (Total(Slack, outstanding) + Estimate(p)) <= used + (reserved + Estimate(p)) + refunded
    BY <1>2, <1>5, <1>6, <2>3
  <2>9. Slack'[c] = Estimate(p)
    BY <2>3, <2>6
  <2> QED  BY <2>1, <2>7, <2>8, <2>9, Zenon
<1>8. ASSUME NEW c \in Calls, AttemptSucceeds(c) PROVE Goal
  <2>1. PICK n \in Nat :
          /\ call[c].pc = "calling" /\ call'[c].prompt = call[c].prompt
          /\ Consumed(call'[c]) = Consumed(call[c]) + n /\ spent' = spent + n
          /\ Untouched(c) /\ UNCHANGED <<used, reserved, outstanding, refunded>>
    BY <1>2, <1>8, SuccessStep, Zenon
  <2>2. spent' \in Nat /\ spent' <= spent + n
    BY <1>2, <2>1
  <2> QED  BY <1>1, <2>1, <2>2, AttemptSpends, Zenon
<1>9. ASSUME NEW c \in Calls, AttemptFails(c) PROVE Goal
  <2>1. /\ call[c].pc = "calling" /\ call'[c].prompt = call[c].prompt
        /\ Consumed(call'[c]) = Consumed(call[c]) + call[c].prompt.tokens
        /\ spent' <= spent + call[c].prompt.tokens
        /\ Untouched(c) /\ UNCHANGED <<used, reserved, outstanding, refunded>>
    BY <1>2, <1>9, FailureStep, Zenon
  <2>2. spent' \in Nat
    BY <1>1, Zenon DEF Typed
  <2>3. call[c].prompt.tokens \in Nat
    BY <1>2, CallTypes, Zenon
  <2> QED  BY <1>1, <2>1, <2>2, <2>3, AttemptSpends, Zenon
<1>10. ASSUME NEW c \in Calls, Settle(c) PROVE Goal
  <2>1. /\ call[c].pc = "priced" /\ outstanding' = outstanding \ {c}
        /\ reserved' = reserved - Estimate(call[c].prompt)
        /\ used' = used + Settlement(call[c]) /\ UNCHANGED <<spent, refunded>>
    BY <1>10, Zenon DEF Settle, SettleTokens
  <2>2. Slack' = Slack
    BY <1>2, <1>10, MoveStep, SlackKept, Zenon
  <2>3. c \in outstanding /\ call[c] \in CallRecord /\ FitsOne(call[c])
        /\ (call[c].error = "none" => call[c].prompt.tokens <= call[c].input)
    BY <1>2, <2>1, CallTypes, Zenon DEF Booked, SpendInv, Fits, Reported
  <2>4. Consumed(call[c]) <= Settlement(call[c])
    BY <2>3, PriceCovers, Zenon
  <2>5. Consumed(call[c]) \in Nat /\ Settlement(call[c]) \in Nat /\ Estimate(call[c].prompt) \in Nat
    BY <1>2, <2>3, CallTypes, ConsumedIsNat, SettlementFits, EstimateIsNat, Zenon
  <2>6. Total(Slack, outstanding) = Total(Slack, outstanding \ {c}) + Slack[c]
    BY <1>2, <1>3, <2>3, TotalLoses, Zenon
  <2>7. Slack[c] = Estimate(call[c].prompt) - Consumed(call[c])
    BY Zenon DEF Slack
  <2>8. Total(Slack, outstanding \ {c}) \in Nat
    <3>1. outstanding \ {c} \in SUBSET Calls
      BY <1>2, Zenon
    <3> QED  BY <1>3, <3>1, TotalIsNat, Zenon
  <2>9. spent + Total(Slack, outstanding \ {c})
          <= (used + Settlement(call[c])) + (reserved - Estimate(call[c].prompt)) + refunded
    BY <1>2, <1>5, <2>4, <2>5, <2>6, <2>7, <2>8
  <2> QED  BY <2>1, <2>2, <2>9, Zenon
<1>11. ASSUME NEW c \in Calls, BudgetExceeded(c) \/ SettleFails(c) \/ RecordModelCall(c)
                               \/ TraceFails(c) \/ HandOff(c) \/ Crash(c)
       PROVE Goal
  <2>1. UNCHANGED <<used, reserved, outstanding, spent, refunded>>
    BY <1>11, QuietStep, Zenon
  <2>2. Slack' = Slack
    BY <1>2, <1>11, MoveStep, SlackKept, Zenon
  <2> QED  BY <1>5, <2>1, <2>2, Zenon
<1>12. ASSUME RecalibrateInflatedUsage PROVE Goal
  <2>1. /\ used' = recorded /\ refunded' = refunded + (used - recorded)
        /\ UNCHANGED <<reserved, call, outstanding, spent>> /\ recorded \in Nat
    BY <1>2, <1>12, Zenon DEF RecalibrateInflatedUsage, Typed
  <2>2. Slack' = Slack
    BY <2>1, Zenon DEF Slack
  <2>3. spent + Total(Slack, outstanding) <= recorded + reserved + (refunded + (used - recorded))
    BY <1>2, <1>5, <1>6, <2>1
  <2> QED  BY <2>1, <2>2, <2>3, Zenon
<1>13. ASSUME UNCHANGED vars PROVE Goal
  <2>1. UNCHANGED <<call, used, reserved, outstanding, spent, refunded>>
    BY <1>13, Zenon DEF vars
  <2>2. Slack' = Slack
    BY <2>1, Zenon DEF Slack
  <2> QED  BY <1>5, <2>1, <2>2, Zenon
<1>14. Goal
  BY <1>7, <1>8, <1>9, <1>10, <1>11, <1>12, <1>13, Zenon DEF Next, ModelCall
<1> QED  BY <1>1, <1>14, Zenon DEF SpendInv

LEMMA SpendInit == ASSUME Init PROVE SpendInv
<1>1. Fits
  BY FitsInit, Zenon
<1>2. Reported
  BY Zenon DEF Init, NoCall, Reported
<1>3. spent = 0 /\ used = 0 /\ reserved = 0 /\ refunded = 0 /\ Total(Slack, outstanding) = 0
  BY TotalEmpty, Zenon DEF Init
<1>4. spent + Total(Slack, outstanding) <= used + reserved + refunded
  BY <1>3
<1> QED  BY <1>1, <1>2, <1>4, Zenon DEF SpendInv

\* Both accounts of a conversation are right for any number of calls, any
\* budget and any prompts, with overlapping and dying calls, failed
\* settlements and recalibrations: if no attempt costs more than the estimator
\* allows for one and every answer reports its usage, nothing the provider
\* consumed is missing from what was charged, is reserved or was charged until a
\* recalibration took it back.
THEOREM AccountsAreRight ==
    ASSUME IsFiniteSet(Calls), Conservative, ~Silent
    PROVE  Spec => []BudgetIsAccounted
<1>1. Init => AccountInv /\ SpendInv
  BY AccountInit, SpendInit, Zenon
<1>2. IInv /\ AccountInv /\ SpendInv /\ [Next]_vars => (AccountInv /\ SpendInv)'
  BY AccountKept, SpendKept, Zenon DEF IInv, AccountInv
<1>3. IInv /\ SpendInv => SpendIsAccounted
  <2> SUFFICES ASSUME IInv, SpendInv PROVE SpendIsAccounted
    BY Zenon
  <2>1. Slack \in [Calls -> Nat] /\ outstanding \in SUBSET Calls
    BY SlackIsNat, Zenon DEF IInv, Typed, SpendInv
  <2>2. Total(Slack, outstanding) \in Nat
    BY <2>1, TotalIsNat, Zenon
  <2>3. spent \in Nat /\ used \in Nat /\ reserved \in Nat /\ refunded \in Nat
        /\ spent + Total(Slack, outstanding) <= used + reserved + refunded
    BY Zenon DEF IInv, Typed, SpendInv
  <2> QED  BY <2>2, <2>3 DEF SpendIsAccounted
<1>4. Spec => [](IInv /\ AccountInv /\ SpendInv)
  BY <1>1, <1>2, Invariant, PTL DEF Spec
<1> QED  BY <1>3, <1>4, ReservationsAddUp, PTL DEF BudgetIsAccounted
=============================================================================
