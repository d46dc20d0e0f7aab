----------------------------- MODULE SlotEngine -----------------------------
(***************************************************************************)
(* The pure slot engine of internal/scheduling/engine.go: from a member's  *)
(* availability rules and busy intervals to the starts of the slots one    *)
(* service can be booked at, and, at the end, what those starts should be. *)
(*                                                                         *)
(* An instant is a natural number of time units.  The wall clock of the    *)
(* modelled zone reads t before the instant Switch and t + Shift from it   *)
(* on: Shift > 0 is a forward DST change (a gap in the wall clock),        *)
(* Shift < 0 a backward one (repeated times).  The change is not at local  *)
(* midnight.                                                               *)
(***************************************************************************)
EXTENDS Integers, Sequences, FiniteSets, FiniteSetsExt, SequencesExt

CONSTANTS Day,         \* units of a local day (1440 minutes)
          Days,        \* local days the model covers
          Switch, Shift,
          Duration, BufferBefore, BufferAfter,
          Step         \* SlotInterval

ASSUME SlotEngineAssumption ==
  /\ {Day, Days, Duration, Step} \subseteq Nat \ {0}
  /\ {BufferBefore, BufferAfter, Switch} \subseteq Nat
  /\ Shift \in Int
  /\ Duration =< Day

Instants == 0 .. Day * Days

Local(t) == IF t < Switch THEN t ELSE t + Shift

DateOf(t) == Local(t) \div Day

ruleAppliesOn(rule, date) == rule.from =< date /\ date =< rule.until

\* The instants at which the wall clock shows a time: none in a gap, two for
\* a repeated time.  Only these two can.
Reading(wall) == {t \in {wall, wall - Shift} : t \in Instants /\ Local(t) = wall}

\* The wall-clock times from a minute to midnight that some instant has.
RealFrom(date, minute) ==
  {m \in minute .. Day - 1 : Reading(date * Day + m) # {}}

\* A minute inside a gap moves to the first real minute after it.
WallTime(date, minute) ==
  LET target == IF minute = Day THEN date + 1 ELSE date
      real   == RealFrom(target, minute % Day)
  IN IF real = {} THEN (target + 1) * Day ELSE target * Day + Min(real)

localMinute(date, minute, latest) ==
  LET readings == Reading(WallTime(date, minute))
  IN IF latest THEN Max(readings) ELSE Min(readings)

intervalsForDate(date, rules, kind) ==
  {i \in {[start |-> localMinute(date, r.start, FALSE),
           end   |-> localMinute(date, r.end, TRUE)] :
            r \in {r \in rules : /\ r.kind = kind
                                 /\ r.weekday = date % 7
                                 /\ ruleAppliesOn(r, date)}} :
     i.start < i.end}

Before(i, j) == i.start < j.start \/ (i.start = j.start /\ i.end < j.end)

\* Merging that replaces the last interval's end by the later interval's,
\* even when the later interval ends first.
Extended_Shrinking(merged, item) ==
  LET last == Last(merged)
  IN IF item.start =< last.end
     THEN Front(merged) \o <<[last EXCEPT !.end = item.end]>>
     ELSE Append(merged, item)

Extended(merged, item) ==
  LET last == Last(merged)
  IN IF item.start =< last.end
     THEN Front(merged) \o <<[last EXCEPT !.end = Max({@, item.end})]>>
     ELSE Append(merged, item)

mergeIntervals(items) ==
  IF items = {} THEN {}
  ELSE LET sorted == SetToSortSeq(items, Before)
       IN ToSet(FoldLeft(Extended, <<sorted[1]>>, Tail(sorted)))

overlapsAny(candidate, items) ==
  \E i \in items : candidate.start < i.end /\ i.start < candidate.end

Occupied(t) == [start |-> t - BufferBefore, end |-> t + Duration + BufferAfter]

\* The starts one local day contributes.
SlotsOn(date, rules, busy, from, to) ==
  LET working == mergeIntervals(intervalsForDate(date, rules, "working"))
      breaks  == mergeIntervals(intervalsForDate(date, rules, "break"))
  IN {t \in UNION {{t \in p.start .. p.end - Duration :
                       (t - p.start) % Step = 0} : p \in working} :
        /\ from =< t /\ t + Duration =< to
        /\ ~ overlapsAny(Occupied(t), breaks)
        /\ ~ overlapsAny(Occupied(t), busy)}

\* The walk stops one slot early.
First_Short(starts, n) == {t \in starts : Cardinality({u \in starts : u < t}) < n - 1}

First(starts, n) == {t \in starts : Cardinality({u \in starts : u < t}) < n}

\* The days are walked in order and the walk stops at the limit, so what it
\* returns is the limit's earliest starts; limit 0 is no limit.
EngineFindSlots(rules, busy, from, to, limit) ==
  LET all == UNION {SlotsOn(d, rules, busy, from, to) :
                      d \in DateOf(from) .. DateOf(to - 1)}
  IN IF limit = 0 THEN all ELSE First(all, limit)

DayStart(date) == Min(Reading(date * Day))

\* A recheck over the proposed slot's own time only, on a grid of its own.
IsAvailable_OwnGrid(rules, busy, t) ==
  t \in EngineFindSlots(rules, busy, t, t + Duration - 1, 0)

IsAvailable(rules, busy, t) ==
  t \in EngineFindSlots(rules, busy, DayStart(DateOf(t)), DayStart(DateOf(t) + 1), 0)

-----------------------------------------------------------------------------
(* What the engine should compute, instant by instant.                     *)

\* The wall clock is inside a rule of the kind that applies on its date.
During(rules, kind, t) ==
  \E r \in rules : /\ r.kind = kind
                   /\ r.weekday = DateOf(t) % 7
                   /\ ruleAppliesOn(r, DateOf(t))
                   /\ r.start =< Local(t) % Day /\ Local(t) % Day < r.end

\* Every instant between the two is worked, and on one local date.
Worked(rules, a, b) ==
  \A t \in a .. b : During(rules, "working", t) /\ DateOf(t) = DateOf(b)

\* A start is bookable when the appointment is worked throughout, starts on
\* the grid of its working period and keeps, with its buffers, clear of the
\* date's breaks and of everything busy.
Bookable(rules, busy, t) ==
  /\ Worked(rules, t, t + Duration - 1)
  /\ (t - Min({a \in 0 .. t : Worked(rules, a, t)})) % Step = 0
  /\ \A u \in Occupied(t).start .. Occupied(t).end - 1 :
       /\ ~ (DateOf(u) = DateOf(t) /\ During(rules, "break", u))
       /\ ~ \E i \in busy : i.start =< u /\ u < i.end

=============================================================================
