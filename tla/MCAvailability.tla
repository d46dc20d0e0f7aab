--------------------------- MODULE MCAvailability ---------------------------
(***************************************************************************)
(* Instances of Availability with days of eight units, one of them chosen  *)
(* by subject: offers is the module with the constants of the              *)
(* configuration, two members and what tokens promise; forward and         *)
(* backward are one member's searches among bookings over a clock change   *)
(* of either kind, whose answers are not signed.                           *)
(***************************************************************************)
EXTENDS Availability

VARIABLE subject

Rule(kind, weekday, start, end) ==
  [kind |-> kind, weekday |-> weekday, start |-> start, end |-> end,
   from |-> 0, until |-> Days]

\* Overlapping, touching and nested periods, a break, a day that runs into
\* the next, a rule that is valid on the second day only.
Split    == {Rule("working", 0, 1, 6), Rule("working", 0, 2, 4), Rule("break", 0, 3, 4)}
Touching == {Rule("working", 0, 0, 3), Rule("working", 0, 3, 7), Rule("working", 1, 1, 5)}
Round    == {Rule("working", 0, 4, 8), Rule("working", 1, 0, 5), Rule("break", 1, 3, 4)}
Later    == {[Rule("working", 1, 0, 8) EXCEPT !.from = 1, !.until = 1],
             [Rule("working", 0, 0, 8) EXCEPT !.from = 1]}

\* Rules with no boundary inside the repeated span 1..3 of the backward change.
Evening == {Rule("working", 0, 1, 5), Rule("working", 0, 5, 8), Rule("break", 0, 6, 7)}

TwoMembers  == <<"a", "b">>
TwoRuleSets == {Split, Round}
NoBlock     == {{}}
Future      == {<<2, 12>>}

SomeBlock == {{}, {[start |-> 6, end |-> 9]}}
Wide      == {<<0, 16>>, <<2, 12>>, <<3, 9>>}

forward == INSTANCE Availability WITH
  BufferAfter <- 1, Step <- 1, Staff <- <<"a">>,
  RuleSets <- {Split, Touching, Round, Later}, Blocks <- SomeBlock, Ranges <- Wide,
  Limit <- 4, Lead <- 0, Horizon <- 24, OperatorStarts <- {5, 7},
  MaxBooked <- 2, MaxNow <- 0, MaxChanges <- 1

backward == INSTANCE Availability WITH
  Shift <- -2, BufferAfter <- 1, Step <- 1, Staff <- <<"a">>,
  RuleSets <- {Evening, Round}, Blocks <- SomeBlock, Ranges <- Wide,
  Limit <- 4, Lead <- 0, Horizon <- 24, OperatorStarts <- {7},
  MaxBooked <- 2, MaxNow <- 0, MaxChanges <- 1

ManyInit ==
  \/ subject = "offers" /\ Init
  \/ subject = "forward" /\ forward!Init
  \/ subject = "backward" /\ backward!Init

Forward == \/ forward!StartSearch \/ forward!SearchMember
           \/ forward!OtherBooking \/ forward!OperatorBooking \/ forward!Cancellation

Backward == \/ backward!StartSearch \/ backward!SearchMember
            \/ backward!OtherBooking \/ backward!OperatorBooking \/ backward!Cancellation

ManyNext ==
  /\ \/ subject = "offers" /\ Next
     \/ subject = "forward" /\ Forward
     \/ subject = "backward" /\ Backward
  /\ UNCHANGED subject

ManySpec == ManyInit /\ [][ManyNext]_<<subject, vars>>

-----------------------------------------------------------------------------
\* Over a clock change of either kind the engine gives exactly the starts that
\* are bookable instant by instant, what is booked from them stays apart, and
\* cutting each member's search at the limit keeps to the sizes of answers and
\* loses none of the earliest slots (Availability: EngineMatchesReference,
\* NeverOverlapping, TypeOK, LimitKeepsEarliest).
EngineIsExact ==
  /\ subject = "forward" => forward!EngineMatchesReference /\ forward!NeverOverlapping
  /\ subject = "backward" => backward!EngineMatchesReference /\ backward!NeverOverlapping
  /\ subject = "offers" => TypeOK /\ LimitKeepsEarliest
=============================================================================
