---------------------------- MODULE Availability ----------------------------
(***************************************************************************)
(* The availability search that runs the slot engine over the database     *)
(* (internal/scheduling/repository.go FindSlots), the slot tokens the tool *)
(* gateway signs from its answer (internal/tools/gateway.go findSlots) and *)
(* the recheck a booking makes with the same engine when such a token is   *)
(* used, with other bookings and cancellations in between.                 *)
(***************************************************************************)
EXTENDS SlotEngine

CONSTANTS Staff,       \* the members eligible for the service, in list order
          RuleSets,    \* the sets of availability rules a member may have
          Blocks,      \* the sets of schedule_blocks a member may have
          Limit,       \* FindSlotsRequest.Limit
          Facing,      \* maxModelFacingSlots
          BusySlack,   \* the four hours loadBusy widens its range by
          TTL, Lead, Horizon,
          Ranges,      \* the date ranges asked for
          OperatorStarts,   \* the starts operators choose, off the grid or not
          MaxBooked, MaxNow, MaxChanges   \* bounds of the model: bookings of a member,
                       \* the clock, versions of the bookings during a search

ASSUME AvailabilityAssumption ==
  /\ {Limit, Facing, TTL} \subseteq Nat \ {0}
  /\ {BusySlack, Lead, Horizon, MaxBooked, MaxNow, MaxChanges} \subseteq Nat
  /\ BufferBefore =< BusySlack /\ BufferAfter =< BusySlack
  /\ Ranges \subseteq Instants \X Instants /\ OperatorStarts \subseteq Instants

Members == ToSet(Staff)

VARIABLES
  now,      \* the clock of the gateway and the database
  rules,    \* availability_rules, per member
  blocks,   \* schedule_blocks, per member
  booked,   \* the starts of the member's bookings with an active status
  pc, from, to,   \* the find_slots call in progress and its range
  todo,     \* the members still to be searched, in order
  all,      \* the slots found so far
  tokens,   \* the slot tokens of the last answer; each is judged by itself
  states    \* every value booked had since the search began

vars == <<now, rules, blocks, booked, pc, from, to, todo, all, tokens, states>>

Init ==
  /\ now = 0
  /\ rules \in [Members -> RuleSets]
  /\ blocks \in [Members -> Blocks]
  /\ booked = [s \in Members |-> {}]
  /\ pc = "idle" /\ from = 0 /\ to = 0
  /\ todo = <<>> /\ all = {} /\ tokens = {}
  /\ states = {}

BusyOf(bookings, s, a, b) ==
  {i \in blocks[s] \cup {Occupied(t) : t \in bookings[s]} :
     i.start < b + BusySlack /\ a - BusySlack < i.end}

loadBusy(s, a, b) == BusyOf(booked, s, a, b)

\* The slots of one member a search finds when it reads these bookings.
Found(bookings, s) ==
  {[staff |-> s, start |-> t, read |-> bookings[s]] :
     t \in EngineFindSlots(rules[s], BusyOf(bookings, s, from, to), from, to, Limit)}

\* A recheck that reads the busy times of the local day alone.
Recheck_DayOnly(s, t) ==
  LET a == DayStart(DateOf(t))
      b == DayStart(DateOf(t) + 1)
  IN IsAvailable(rules[s], {i \in loadBusy(s, a, b) : i.start < b /\ a < i.end}, t)

\* The recheck a booking makes inside its transaction.
Recheck(s, t) ==
  IsAvailable(rules[s], loadBusy(s, DayStart(DateOf(t)), DayStart(DateOf(t) + 1)), t)

slotWithinBookingWindow(start, end, at) ==
  at + Lead =< start /\ start < end /\ end =< at + Horizon

\* findSlots: the range is checked against the booking window, then handed to
\* the backend, which lists the service and its staff.
StartSearch ==
  /\ pc = "idle"
  /\ \E range \in Ranges :
       /\ range[1] < range[2] /\ now + Lead =< range[1] /\ range[2] =< now + Horizon
       /\ from' = range[1] /\ to' = range[2]
  /\ pc' = "search"
  /\ todo' = Staff
  /\ all' = {}
  /\ states' = {booked}
  /\ UNCHANGED <<now, rules, blocks, booked, tokens>>

\* One member of the repository's loop: their rules and busy times are read,
\* outside any transaction, and the engine runs on them.
SearchMember ==
  /\ pc = "search" /\ todo # <<>>
  /\ all' = all \cup Found(booked, Head(todo))
  /\ todo' = Tail(todo)
  /\ UNCHANGED <<now, rules, blocks, booked, pc, from, to, tokens, states>>

\* sortSlots orders by start, then by the member's id.
Sooner(x, y) ==
  \/ x.start < y.start
  \/ /\ x.start = y.start
     /\ \E i, j \in DOMAIN Staff : i < j /\ Staff[i] = x.staff /\ Staff[j] = y.staff

Earliest_n(slots, n) == {x \in slots : Cardinality({y \in slots : Sooner(y, x)}) < n}

Expiry_TTL(x) == now + TTL

Expiry(x) == Min({now + TTL, x.start - Lead})

Signable(x) ==
  /\ slotWithinBookingWindow(x.start, x.start + Duration, now)
  /\ now < Expiry(x)

\* The answer is cut to the request's limit; the gateway reads the clock
\* again, skips what has aged out of the window and signs the first ones.
SignSlots ==
  /\ pc = "search" /\ todo = <<>>
  /\ LET answer == Earliest_n(all, Limit)
         signed == Earliest_n({x \in answer : Signable(x)}, Facing)
     IN tokens' =
          {[staff |-> x.staff, start |-> x.start, expires |-> Expiry(x),
            read |-> x.read] : x \in signed}
  /\ pc' = "idle"
  /\ all' = {} /\ from' = 0 /\ to' = 0 /\ states' = {}
  /\ UNCHANGED <<now, rules, blocks, booked, todo>>

\* A search in progress sees the database change under it.
Witness ==
  /\ states' = IF pc = "search" THEN states \cup {booked'} ELSE states
  /\ Cardinality(states') =< MaxChanges

\* create_booking with a token: the signature's expiry and the booking window
\* are checked, then the slot is rechecked and inserted.
TakeToken ==
  \E k \in tokens :
    /\ now < k.expires
    /\ slotWithinBookingWindow(k.start, k.start + Duration, now)
    /\ Recheck(k.staff, k.start)
    /\ Cardinality(booked[k.staff]) < MaxBooked
    /\ booked' = [booked EXCEPT ![k.staff] = @ \cup {k.start}]
    /\ Witness
    /\ UNCHANGED <<now, rules, blocks, pc, from, to, todo, all, tokens>>

\* A booking of another conversation, rechecked the same way.
OtherBooking ==
  \E s \in Members, t \in Instants :
    /\ now < t /\ DateOf(t) < Days - 1
    /\ Recheck(s, t)
    /\ Cardinality(booked[s]) < MaxBooked
    /\ booked' = [booked EXCEPT ![s] = @ \cup {t}]
    /\ Witness
    /\ UNCHANGED <<now, rules, blocks, pc, from, to, todo, all, tokens>>

\* An operator's booking skips the engine: only the exclusion constraint, on
\* the occupied ranges, holds it back.
OperatorBooking ==
  \E s \in Members, t \in OperatorStarts :
    /\ now < t
    /\ ~ overlapsAny(Occupied(t), {Occupied(u) : u \in booked[s]})
    /\ Cardinality(booked[s]) < MaxBooked
    /\ booked' = [booked EXCEPT ![s] = @ \cup {t}]
    /\ Witness
    /\ UNCHANGED <<now, rules, blocks, pc, from, to, todo, all, tokens>>

Cancellation ==
  \E s \in Members : \E t \in booked[s] :
    /\ booked' = [booked EXCEPT ![s] = @ \ {t}]
    /\ Witness
    /\ UNCHANGED <<now, rules, blocks, pc, from, to, todo, all, tokens>>

Tick ==
  /\ now < MaxNow
  /\ now' = now + 1
  /\ UNCHANGED <<rules, blocks, booked, pc, from, to, todo, all, tokens, states>>

Next == \/ StartSearch \/ SearchMember \/ SignSlots \/ TakeToken
        \/ OtherBooking \/ OperatorBooking \/ Cancellation \/ Tick

Spec == Init /\ [][Next]_vars

-----------------------------------------------------------------------------
\* Types, and the sizes of what is handed on: at most Limit slots a member,
\* and at most maxModelFacingSlots tokens an answer.
TypeOK ==
  /\ now \in 0 .. MaxNow
  /\ \A s \in Members : booked[s] \subseteq Instants
  /\ pc \in {"idle", "search"}
  /\ from \in Instants /\ to \in Instants
  /\ \A x \in all : x.staff \in Members /\ x.start \in Instants
  /\ \A k \in tokens : k.staff \in Members /\ k.start \in Instants
  /\ Cardinality(all) =< Limit * Len(Staff) /\ Cardinality(tokens) =< Facing

\* The engine's merged periods, grid walk and clipped busy list give exactly
\* the starts that are bookable instant by instant, against everything the
\* member has booked or blocked: neither the merge, a DST gap, nor the four
\* hours loadBusy stops at hides a start or offers one that is taken.
EngineMatchesReference ==
  pc = "search" =>
    \A s \in Members :
      EngineFindSlots(rules[s], loadBusy(s, from, to), from, to, 0)
        = {t \in from .. to - Duration :
             Bookable(rules[s], blocks[s] \cup {Occupied(u) : u \in booked[s]}, t)}

\* Cutting each member's search at the limit loses none of the limit's
\* earliest slots of all members together.
LimitKeepsEarliest ==
  (pc = "search" /\ todo = <<>> /\ states = {booked}) =>
    LET every == UNION {{[staff |-> s, start |-> t, read |-> booked[s]] :
                           t \in EngineFindSlots(rules[s], loadBusy(s, from, to), from, to, 0)} :
                         s \in Members}
    IN Earliest_n(all, Limit) = Earliest_n(every, Limit)

\* A slot token that has not expired never leads a booking past the window
\* check: its expiry is clamped to the lead-time boundary of its start, and
\* the horizon only moves away from it.
TokensStayInWindow ==
  \A k \in tokens :
    now < k.expires => slotWithinBookingWindow(k.start, k.start + Duration, now)

\* What was offered is bookable: unless the member's bookings changed since
\* the search read them, the recheck in the booking transaction (over the
\* whole local day, not the range asked for) accepts the slot of every token.
OffersAreHonoured ==
  \A k \in tokens : booked[k.staff] = k.read => Recheck(k.staff, k.start)

\* Rechecking each booking against the member's local day and four hours
\* around it keeps occupied times apart across midnight too.
NeverOverlapping ==
  \A s \in Members : \A t, u \in booked[s] :
    t # u => ~ overlapsAny(Occupied(t), {Occupied(u)})

-----------------------------------------------------------------------------
(* What comments and documents promise and the code does not keep; the     *)
(* README says how each of them fails.                                      *)

\* The search "builds a consistent availability snapshot": what it returns
\* is what the database held at one moment of it.
ConsistentSnapshot ==
  (pc = "search" /\ todo = <<>>) =>
    \E b \in states : {[staff |-> x.staff, start |-> x.start] : x \in all}
      = UNION {{[staff |-> s, start |-> x.start] : x \in Found(b, s)} : s \in Members}

\* "Rules use the staff member's local wall clock": no slot is offered at a
\* time of day outside the member's working rules.
OffersInWorkingHours ==
  \A x \in all : Worked(rules[x.staff], x.start, x.start + Duration - 1)

=============================================================================
