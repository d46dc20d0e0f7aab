------------------------------- MODULE MCEdge -------------------------------
(***************************************************************************)
(* The HTTP edge beside the conversation: the limiter (RateLimiter), the   *)
(* request metrics (Metrics) and the operator console's reads: Console,     *)
(* once paging through the list and once putting a dashboard together, and *)
(* TraceRead, requests for traces beside a turn.                           *)
(* A behaviour is one of these, chosen by subject.                         *)
(***************************************************************************)
EXTENDS RateLimiter, TLC

VARIABLES subject, pc, code, old, child, inFlight, children, value, observed,
          time, status, started, list, board,
          turn, run, closed, opened, reader

metricsVars == <<pc, code, old, child, inFlight, children, value, observed>>
consoleVars == <<time, status, started, list, board>>
traceVars == <<turn, run, closed, opened, reader>>
all == <<subject, vars, metricsVars, consoleVars, traceVars>>

\* Three requests, and two response statuses.
Served == {"r1", "r2", "r3"}

metrics == INSTANCE Metrics WITH Requests <- Served, Codes <- {200, 429}

pages == INSTANCE Console WITH
    Runs <- 1..4, Limit <- 1, Reads <- {"list"}, MaxClock <- 2, clock <- time
dashboard == INSTANCE Console WITH
    Runs <- 1..4, Limit <- 2, Reads <- {"dashboard"}, MaxClock <- 0, clock <- time

\* Two requests for traces beside a turn in a pool of three.
trace == INSTANCE TraceRead WITH
    Readers <- {"q1", "q2"}, Turns <- {"t1"}, MaxConns <- 3, Tools <- 2

ASSUME EdgeAssumption == pages!ConsoleAssumption /\ dashboard!ConsoleAssumption

\* One initial state per subject for what the others leave alone.
EdgeInit ==
    /\ subject \in {"limiter", "metrics", "pages", "dashboard", "trace"}
    /\ Init /\ metrics!Init /\ pages!Init /\ trace!Init
    /\ subject # "limiter" => \A g, h \in Callers : calls[g] = calls[h]
    /\ subject # "metrics" => code = [q \in Served |-> 200]

EdgeNext ==
    \/ subject = "limiter" /\ Next /\ UNCHANGED <<subject, metricsVars, consoleVars, traceVars>>
    \/ subject = "metrics" /\ metrics!Next /\ UNCHANGED <<subject, vars, consoleVars, traceVars>>
    \/ subject = "pages" /\ pages!Next /\ UNCHANGED <<subject, vars, metricsVars, traceVars>>
    \/ subject = "dashboard" /\ dashboard!Next /\ UNCHANGED <<subject, vars, metricsVars, traceVars>>
    \/ subject = "trace" /\ trace!Next /\ UNCHANGED <<subject, vars, metricsVars, consoleVars>>

EdgeSpec == EdgeInit /\ [][EdgeNext]_all

AnyName == Permutations(Clients) \cup Permutations(Callers)

-----------------------------------------------------------------------------
\* The gauge of requests in flight is exact, and no request is lost from its
\* counter (Metrics).
CountsAreExact == metrics!InFlightIsExact /\ metrics!NoRequestUncounted

\* What an operator puts together from several reads fits together: following
\* the cursors to the end skips no run and shows none twice, the parts of a
\* dashboard agree (Console), and a trace that shows its run completed shows
\* none of its tool calls open (TraceRead).
ReadsFitTogether ==
    /\ subject = "pages" => pages!PagesSkipNothing /\ pages!PagesStayInOrder
    /\ subject = "dashboard" => dashboard!DashboardFitsTogether
    /\ subject = "trace" => trace!CompletedTracesAreClosed
=============================================================================
