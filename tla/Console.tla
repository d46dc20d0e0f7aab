---------------------------- MODULE Console ----------------------------
(* The operator console's reads of the agent trace                         *)
(* (internal/channels/operatorhttp/postgres.go) while turns start and      *)
(* finish: the run list, page by page, and the dashboard, statement by     *)
(* statement.  Each statement sees the rows committed when it starts.      *)
EXTENDS Integers, FiniteSets, Sequences, SequencesExt

CONSTANTS
    Runs,       \* run ids, ordered as PostgreSQL orders uuids
    Limit,      \* the page size a client asks for
    Reads,      \* what this console does: "list", "dashboard"
    MaxClock    \* bound on started_at

ConsoleAssumption ==
    /\ Runs \subseteq Nat /\ Limit \in Nat \ {0} /\ MaxClock \in Nat
    /\ Reads \subseteq {"list", "dashboard"}

VARIABLES
    clock,
    status,     \* "none", "starting" (not committed), or the column
    started,    \* started_at, the database's time when the insert began
    list,       \* the client paging through the list
    board       \* a dashboard being put together

vars == <<clock, status, started, list, board>>

Terminal == {"completed", "failed"}
Filters == {"", "running", "completed"}
NoCursor == [at |-> -1, id |-> 0]
NewList == [pc |-> "idle", filter |-> "", cursor |-> NoCursor, items |-> <<>>, owed |-> {}]
NewBoard == [pc |-> "idle", total |-> 0, completed |-> 0, ended |-> 0,
             outcomes |-> [s \in Terminal \cup {"running"} |-> 0], recent |-> <<>>]

Init == /\ clock = 0
        /\ status = [r \in Runs |-> "none"] /\ started = [r \in Runs |-> 0]
        /\ list = NewList /\ board = NewBoard

-----------------------------------------------------------------------------
(* Turns *)

\* The insert takes its time stamp; the row shows only once it commits.
StartRun(r) ==
    /\ status[r] = "none"
    /\ status' = [status EXCEPT ![r] = "starting"]
    /\ started' = [started EXCEPT ![r] = clock]
    /\ UNCHANGED <<clock, list, board>>

CommitRun(r) ==
    /\ status[r] = "starting"
    /\ status' = [status EXCEPT ![r] = "running"]
    /\ UNCHANGED <<clock, started, list, board>>

FinishRun_Again(r) ==
    /\ status[r] \in Terminal \cup {"running"}
    /\ \E s \in Terminal :
        /\ status' = [status EXCEPT ![r] = s]
        /\ list' = [list EXCEPT !.owed = IF list.filter \in {"", s} THEN @ ELSE @ \ {r}]
    /\ UNCHANGED <<clock, started, board>>

\* The turn finishes its run once.
\* A run that no longer matches the client's filter is no longer owed to it.
FinishRun(r) ==
    /\ status[r] = "running"
    /\ \E s \in Terminal :
        /\ status' = [status EXCEPT ![r] = s]
        /\ list' = [list EXCEPT !.owed = IF list.filter \in {"", s} THEN @ ELSE @ \ {r}]
    /\ UNCHANGED <<clock, started, board>>

-----------------------------------------------------------------------------
(* The run list *)

Visible == {r \in Runs : status[r] \notin {"none", "starting"}}
Matching(filter) == {r \in Visible : filter \in {"", status[r]}}

\* started_at DESC, id DESC
Newer(a, b) == started[a] > started[b] \/ (started[a] = started[b] /\ a > b)

After_TimeOnly(cursor) == {r \in Runs : cursor = NoCursor \/ started[r] < cursor.at}

\* The rows the keyset condition lets through.
After(cursor) == {r \in Runs : \/ cursor = NoCursor \/ started[r] < cursor.at
                               \/ started[r] = cursor.at /\ r < cursor.id}

\* At most limit + 1 rows; the last tells only that there is another page.
listRunSummaries(filter, cursor, limit) ==
    LET rows == SetToSortSeq(Matching(filter) \cap After(cursor), Newer)
    IN  SubSeq(rows, 1, IF Len(rows) < limit + 1 THEN Len(rows) ELSE limit + 1)

\* started_at keeps the database's precision through the JSON of the cursor.
encodeRunCursor(r) == [at |-> started[r], id |-> r]

TakePage(filter, cursor, before, owed) ==
    LET rows == listRunSummaries(filter, cursor, Limit)
        more == Len(rows) > Limit
        page == IF more THEN SubSeq(rows, 1, Limit) ELSE rows
    IN  list' = [pc |-> IF more THEN "more" ELSE "end", filter |-> filter,
                 cursor |-> IF more THEN encodeRunCursor(Last(page)) ELSE NoCursor,
                 items |-> before \o page, owed |-> owed]

\* The first page; owed is every run the filter matches at this moment.
ListRuns ==
    /\ list.pc = "idle" /\ "list" \in Reads
    /\ \E f \in Filters : TakePage(f, NoCursor, <<>>, Matching(f))
    /\ UNCHANGED <<clock, status, started, board>>

NextPage ==
    /\ list.pc = "more"
    /\ TakePage(list.filter, list.cursor, list.items, list.owed)
    /\ UNCHANGED <<clock, status, started, board>>

-----------------------------------------------------------------------------
(* The dashboard *)

Count(s) == Cardinality({r \in Runs : status[r] = s})

DashboardMetrics ==
    /\ board.pc = "idle" /\ "dashboard" \in Reads
    /\ board' = [board EXCEPT !.pc = "outcomes", !.total = Cardinality(Visible),
                              !.completed = Count("completed"),
                              !.ended = Count("completed") + Count("failed")]
    /\ UNCHANGED <<clock, status, started, list>>

DashboardOutcomes ==
    /\ board.pc = "outcomes"
    /\ board' = [board EXCEPT !.pc = "recent",
                              !.outcomes = [s \in DOMAIN board.outcomes |-> Count(s)]]
    /\ UNCHANGED <<clock, status, started, list>>

DashboardRecent ==
    /\ board.pc = "recent"
    /\ LET rows == listRunSummaries("", NoCursor, Limit)
       IN  board' = [board EXCEPT !.pc = "done",
                        !.recent = SubSeq(rows, 1, IF Len(rows) < Limit THEN Len(rows) ELSE Limit)]
    /\ UNCHANGED <<clock, status, started, list>>

Tick == /\ clock < MaxClock /\ clock' = clock + 1
        /\ UNCHANGED <<status, started, list, board>>

Next == \/ \E r \in Runs : StartRun(r) \/ CommitRun(r) \/ FinishRun(r)
        \/ ListRuns \/ NextPage
        \/ DashboardMetrics \/ DashboardOutcomes \/ DashboardRecent
        \/ Tick

Spec == Init /\ [][Next]_vars

-----------------------------------------------------------------------------
(* A client that follows the cursors to the end has seen every run that    *)
(* matched its filter from the first page on, whatever started or finished *)
(* in between and however many runs share a time stamp                     *)
(* (postgres.go:248-252, 271-277).                                         *)
PagesSkipNothing ==
    list.pc = "end" => list.owed \subseteq {list.items[i] : i \in DOMAIN list.items}

(* Across pages, runs come newest first and none comes twice               *)
(* (postgres.go:248-252).                                                  *)
PagesStayInOrder ==
    \A i, j \in DOMAIN list.items : i < j => Newer(list.items[i], list.items[j])

(* The parts of a dashboard, read by separate statements, fit together: the *)
(* outcomes add up to at least the total, no class that ends a run shrinks, *)
(* and no run is missing from the recent ones that the total has room for   *)
(* (postgres.go:85-100, 134-160).                                           *)
DashboardFitsTogether ==
    board.pc = "done" =>
        /\ board.total <= board.outcomes["running"] + board.outcomes["completed"]
                            + board.outcomes["failed"]
        /\ board.completed <= board.outcomes["completed"]
        /\ board.ended <= board.outcomes["completed"] + board.outcomes["failed"]
        /\ Len(board.recent) = Limit \/ Len(board.recent) >= board.total
=============================================================================
