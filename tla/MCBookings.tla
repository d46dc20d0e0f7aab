----------------------------- MODULE MCBookings -----------------------------
(***************************************************************************)
(* Small instances of Bookings.  Days are four units long; the spans are   *)
(* chosen to meet, to touch and to cross midnight.                         *)
(***************************************************************************)
EXTENDS Bookings, TLC

CONSTANTS b1, b2, b3, ana, bob, kim, lee, k1

Span(a, b) == [from |-> a, until |-> b]
At(s, a, b) == [staff |-> s, span |-> Span(a, b)]

TwoStaff == {kim, lee}
SomeSpans == {Span(0, 2), Span(1, 3), Span(2, 4), Span(3, 5), Span(4, 6)}
ApartZones == [s \in Staff |-> IF s = kim THEN 0 ELSE 2]
Day == 4
AllPlaces == [staff : Staff, span : Spans]

Req(op, by, owner, booking, place, key, expect, note) ==
    [op |-> op, by |-> by, owner |-> owner, booking |-> booking, place |-> place,
     key |-> key, expect |-> expect, note |-> note]

AgentCreate(w, p, k) == Req("create", "agent", w, None, p, k, 0, "short")
AdminCreate(w, p, k) == Req("create", "operator", w, None, p, k, 0, "short")
AgentMove(w, b, p) == Req("move", "agent", w, b, p, None, 0, "short")
AdminMove(b, p, v) == Req("move", "operator", None, b, p, None, v, "short")
AgentCancel(w, b, n) == Req("cancel", "agent", w, b, None, None, 0, n)
AdminCancel(b, v) == Req("cancel", "operator", None, b, None, None, v, "short")

Long == {"long"}

\* Two appointments at the start, of different customers on one day.
Two == [b \in Bookings |->
          CASE b = b1 -> [owner |-> ana, place |-> At(kim, 0, 2)]
            [] b = b2 -> [owner |-> bob, place |-> At(kim, 4, 6)]
            [] OTHER -> None]

\* Creates that race for one place, with and without a shared key, across
\* midnight, by both kinds of caller.
RaceRequests ==
    {AgentCreate(ana, At(lee, 1, 3), None), AdminCreate(bob, At(lee, 1, 3), k1),
     AgentCreate(ana, At(lee, 2, 4), k1), AgentCreate(ana, At(kim, 2, 4), k1)}

\* Moves that swap places, a move that counts its dates in the wrong zone and a
\* create in its way, stale operators, and cancels of what is moved.
ChangeRequests ==
    {AdminMove(b1, At(kim, 4, 6), 1), AdminMove(b2, At(kim, 0, 2), 1),
     AgentMove(ana, b1, At(lee, 2, 4)), AdminCreate(bob, At(kim, 2, 4), None),
     AgentCancel(ana, b1, "short")}

\* A booking from its creation to its cancellation, and the same again.
LifeRequests ==
    {AgentCreate(ana, At(lee, 1, 3), None), AgentMove(ana, b3, At(lee, 4, 6)),
     AgentCancel(ana, b3, "short"), AdminCancel(b3, 1), AdminMove(b3, At(lee, 1, 3), 2)}

Stories == {RaceRequests, ChangeRequests, LifeRequests}
StoryRequests == UNION Stories

\* The commands of a behaviour all belong to one story.
OneStory == \E S \in Stories : \A c \in Calls : req[c] \in S \cup {None}

Permute == Permutations(Calls)

=============================================================================
