------------------------- MODULE AvailabilityProofs -------------------------
(***************************************************************************)
(* A slot token that can still be used is inside the booking window, for   *)
(* every zone, rule set, service, clock and window.                        *)
(***************************************************************************)
EXTENDS Availability, TLAPS

\* The inductive invariant: starts are numbers, every token expires at or
\* before the lead-time boundary of its start, and its slot ended within the
\* horizon when it was signed (the horizon only moves on).
IInv ==
  /\ now \in Nat
  /\ \A x \in all : x.start \in Int
  /\ \A k \in tokens : /\ k.start \in Int /\ k.expires \in Int
                       /\ k.expires =< k.start - Lead
                       /\ k.start + Duration =< now + Horizon

LEMMA MinOfTwo ==
  ASSUME NEW a \in Int, NEW b \in Int
  PROVE  Min({a, b}) \in Int /\ Min({a, b}) =< a /\ Min({a, b}) =< b
<1>1. \E x \in {a, b} : \A y \in {a, b} : x =< y
  BY SMT
<1> QED  BY <1>1, Zenon DEF Min

\* Whatever the rules, the engine's starts are numbers.
LEMMA StartsAreNumbers ==
  ASSUME NEW r, NEW busy, NEW a, NEW b, NEW n, NEW t \in EngineFindSlots(r, busy, a, b, n)
  PROVE  t \in Int
<1>1. PICK d : t \in SlotsOn(d, r, busy, a, b)
  BY Zenon DEF EngineFindSlots, First
<1>2. \E p : t \in p.start .. p.end - Duration
  BY <1>1, Zenon DEF SlotsOn
<1> QED  BY <1>2

\* The slots a member's search adds carry such starts.
LEMMA FoundAreNumbers ==
  ASSUME NEW b, NEW s, NEW x \in Found(b, s)
  PROVE  x.start \in Int
<1>1. PICK t \in EngineFindSlots(rules[s], BusyOf(b, s, from, to), from, to, Limit) :
        x = [staff |-> s, start |-> t, read |-> b[s]]
  BY Zenon DEF Found
<1>2. t \in Int
  BY StartsAreNumbers, Zenon
<1> QED  BY <1>1, <1>2, Zenon

LEMMA InitIInv == Init => IInv
BY DEF Init, IInv

LEMMA NextIInv == IInv /\ [Next]_vars => IInv'
<1> SUFFICES ASSUME IInv, [Next]_vars
             PROVE  IInv'
  BY Zenon
<1> USE AvailabilityAssumption, SlotEngineAssumption
<1>1. CASE StartSearch
  BY <1>1, Zenon DEF StartSearch, IInv
<1>2. CASE SearchMember
  <2>1. \A x \in all' : x.start \in Int
    BY <1>2, FoundAreNumbers, Zenon DEF SearchMember, IInv
  <2> QED  BY <1>2, <2>1, Zenon DEF SearchMember, IInv
<1>3. CASE SignSlots
  <2>1. \A k \in tokens' : /\ k.start \in Int /\ k.expires \in Int
                           /\ k.expires =< k.start - Lead
                           /\ k.start + Duration =< now + Horizon
    <3> SUFFICES ASSUME NEW k \in tokens'
                 PROVE  /\ k.start \in Int /\ k.expires \in Int
                        /\ k.expires =< k.start - Lead
                        /\ k.start + Duration =< now + Horizon
      BY Zenon
    <3>1. PICK x \in all : /\ Signable(x)
                           /\ k = [staff |-> x.staff, start |-> x.start,
                                   expires |-> Expiry(x), read |-> x.read]
      BY <1>3, Zenon DEF SignSlots, Earliest_n
    <3>2. x.start \in Int /\ x.start - Lead \in Int /\ now + TTL \in Int
      BY DEF IInv
    <3>3. Expiry(x) \in Int /\ Expiry(x) =< x.start - Lead
      BY <3>2, MinOfTwo, Zenon DEF Expiry
    <3>4. x.start + Duration =< now + Horizon
      BY <3>1, Zenon DEF Signable, slotWithinBookingWindow
    <3> QED  BY <3>1, <3>2, <3>3, <3>4, Zenon
  <2> QED  BY <1>3, <2>1, Zenon DEF SignSlots, IInv
<1>4. CASE TakeToken
  BY <1>4, Zenon DEF TakeToken, IInv
<1>5. CASE OtherBooking
  BY <1>5, Zenon DEF OtherBooking, IInv
<1>6. CASE Cancellation
  BY <1>6, Zenon DEF Cancellation, IInv
<1>7. CASE Tick
  <2>1. now' = now + 1 /\ tokens' = tokens /\ all' = all
    BY <1>7, Zenon DEF Tick
  <2>2. now \in Nat
    BY Zenon DEF IInv
  <2>3. \A k \in tokens : k.start + Duration =< now + 1 + Horizon
    BY <2>2 DEF IInv
  <2> QED  BY <2>1, <2>2, <2>3 DEF IInv
<1>8. CASE OperatorBooking
  BY <1>8, Zenon DEF OperatorBooking, IInv
<1>9. CASE UNCHANGED vars
  BY <1>9, Zenon DEF vars, IInv
<1> QED  BY <1>1, <1>2, <1>3, <1>4, <1>5, <1>6, <1>7, <1>8, <1>9, Zenon DEF Next

LEMMA IInvKeepsWindow == IInv => TokensStayInWindow
<1> SUFFICES ASSUME IInv, NEW k \in tokens, now < k.expires
             PROVE  slotWithinBookingWindow(k.start, k.start + Duration, now)
  BY Zenon DEF TokensStayInWindow
<1>1. k.start \in Int /\ k.expires \in Int /\ now \in Nat
  BY Zenon DEF IInv
<1>2. k.expires =< k.start - Lead /\ k.start + Duration =< now + Horizon
  BY Zenon DEF IInv
<1> QED
  BY <1>1, <1>2, AvailabilityAssumption, SlotEngineAssumption DEF slotWithinBookingWindow

\* createBooking's window check never refuses a token that Verify accepts:
\* findSlots clamps every expiry to the lead-time boundary.
THEOREM UsableTokensStayInWindow == Spec => []TokensStayInWindow
<1>1. Spec => []IInv
  BY InitIInv, NextIInv, PTL DEF Spec
<1> QED  BY <1>1, IInvKeepsWindow, PTL
=============================================================================
