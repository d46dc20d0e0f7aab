--------------------------- MODULE TraceRead ---------------------------
(* Reading the trace of a run (internal/agenttrace/postgres.go) from the   *)
(* connection pool that the turns use too.                                 *)
(*                                                                         *)
(* GetRun keeps the connection of its tool rows while it asks for another  *)
(* one, for the attempts of each row.  A turn keeps one connection for its *)
(* advisory lock and writes its trace with others.  A query that needs one *)
(* connection and waits for nothing else is one step.                      *)
EXTENDS Integers, FiniteSets

CONSTANTS
    Readers,    \* requests for a run's trace, each for any run
    Turns,      \* turns, each with a run of its own
    MaxConns,   \* size of the pool
    Tools       \* tool executions of a run

VARIABLES
    turn,       \* what each turn does next
    run,        \* status of the turn's run
    closed,     \* tool executions of the run that are recorded as finished
    opened,     \* tool executions of the run that are recorded at all
    reader      \* the readers

vars == <<turn, run, closed, opened, reader>>

NewReader == [pc |-> "run", of |-> "none", status |-> "none", rows |-> 0, open |-> 0, next |-> 0]

Init ==
    /\ turn = [t \in Turns |-> "arrived"]
    /\ run = [t \in Turns |-> "none"]
    /\ opened = [t \in Turns |-> 0] /\ closed = [t \in Turns |-> 0]
    /\ reader = [r \in Readers |-> NewReader]

-----------------------------------------------------------------------------
(* The pool *)

\* Connections kept by turns for their lock, and by readers for their rows and attempts.
InUse == Cardinality({t \in Turns : turn[t] \in {"locked", "working"}})
         + Cardinality({r \in Readers : reader[r].pc \in {"tools", "attempts"}})
         + Cardinality({r \in Readers : reader[r].pc = "attempts"})

Free == InUse < MaxConns

turnCapacity == MaxConns \div 2

-----------------------------------------------------------------------------
(* Turns *)

acquireConversationTurn(t) ==
    /\ turn[t] = "arrived"
    /\ Cardinality({u \in Turns : turn[u] \in {"locked", "working"}}) < turnCapacity
    /\ Free
    /\ turn' = [turn EXCEPT ![t] = "locked"]
    /\ UNCHANGED <<run, closed, opened, reader>>

StartRun(t) ==
    /\ turn[t] = "locked" /\ Free
    /\ run' = [run EXCEPT ![t] = "running"]
    /\ turn' = [turn EXCEPT ![t] = "working"]
    /\ UNCHANGED <<closed, opened, reader>>

RecordToolExecutionStarted(t) ==
    /\ turn[t] = "working" /\ Free
    /\ opened[t] = closed[t] /\ opened[t] < Tools
    /\ opened' = [opened EXCEPT ![t] = @ + 1]
    /\ UNCHANGED <<turn, run, closed, reader>>

RecordToolExecutionCompleted(t) ==
    /\ turn[t] = "working" /\ Free
    /\ closed[t] < opened[t]
    /\ closed' = [closed EXCEPT ![t] = @ + 1]
    /\ UNCHANGED <<turn, run, opened, reader>>

\* The turn's last transaction; the lock's connection goes back to the pool.
CompleteTurn(t) ==
    /\ turn[t] = "working" /\ Free
    /\ opened[t] = closed[t]
    /\ run' = [run EXCEPT ![t] = "completed"]
    /\ turn' = [turn EXCEPT ![t] = "done"]
    /\ UNCHANGED <<closed, opened, reader>>

\* The turn's deadline: the failure may or may not still be recorded.
TurnTimesOut(t) ==
    /\ turn[t] \in {"arrived", "locked", "working"}
    /\ turn' = [turn EXCEPT ![t] = "done"]
    /\ \/ run[t] = "running" /\ Free /\ run' = [run EXCEPT ![t] = "failed"]
       \/ UNCHANGED run
    /\ UNCHANGED <<closed, opened, reader>>

-----------------------------------------------------------------------------
(* GetRun *)

\* The row of the run comes first.
GetRun(r) ==
    /\ reader[r].pc = "run" /\ Free
    /\ \E t \in Turns :
        /\ run[t] # "none"
        /\ reader' = [reader EXCEPT ![r] = [NewReader EXCEPT !.pc = "iterations", !.of = t,
                                                            !.status = run[t]]]
    /\ UNCHANGED <<turn, run, closed, opened>>

ListIterations(r) ==
    /\ reader[r].pc = "iterations" /\ Free
    /\ reader' = [reader EXCEPT ![r].pc = "list"]
    /\ UNCHANGED <<turn, run, closed, opened>>

\* The tool rows, on a connection that stays open while they are read.
ListTools(r) ==
    /\ reader[r].pc = "list" /\ Free
    /\ LET t == reader[r].of
       IN  reader' = [reader EXCEPT ![r].pc = "tools", ![r].rows = opened[t],
                                    ![r].open = opened[t] - closed[t]]
    /\ UNCHANGED <<turn, run, closed, opened>>

\* The query of the attempts of the next row, on a second connection.
getAttempts(r) ==
    /\ reader[r].pc = "tools" /\ reader[r].next < reader[r].rows /\ Free
    /\ reader' = [reader EXCEPT ![r].pc = "attempts", ![r].next = @ + 1]
    /\ UNCHANGED <<turn, run, closed, opened>>

AttemptsRead(r) ==
    /\ reader[r].pc = "attempts"
    /\ reader' = [reader EXCEPT ![r].pc = "tools"]
    /\ UNCHANGED <<turn, run, closed, opened>>

RowsRead_RefreshesRun(r) ==
    /\ reader[r].pc = "tools" /\ reader[r].next = reader[r].rows
    /\ reader' = [reader EXCEPT ![r].pc = "done", ![r].status = run[reader[r].of]]
    /\ UNCHANGED <<turn, run, closed, opened>>

RowsRead(r) ==
    /\ reader[r].pc = "tools" /\ reader[r].next = reader[r].rows
    /\ reader' = [reader EXCEPT ![r].pc = "done"]
    /\ UNCHANGED <<turn, run, closed, opened>>

-----------------------------------------------------------------------------
Work(t) == \/ acquireConversationTurn(t) \/ StartRun(t) \/ RecordToolExecutionStarted(t)
           \/ RecordToolExecutionCompleted(t) \/ CompleteTurn(t)

Read(r) == \/ ListIterations(r) \/ ListTools(r) \/ getAttempts(r) \/ AttemptsRead(r)
           \/ RowsRead(r)

Next == \/ \E t \in Turns : Work(t) \/ TurnTimesOut(t)
        \/ \E r \in Readers : GetRun(r) \/ Read(r)

Spec == Init /\ [][Next]_vars

\* A query that gets a connection ends, a turn meets its deadline, and the pool
\* serves a request that waits long enough.  Requests have no deadline of their own.
Fairness == /\ \A t \in Turns : WF_vars(TurnTimesOut(t))
            /\ \A r \in Readers : SF_vars(Read(r))

FairSpec == Spec /\ Fairness

-----------------------------------------------------------------------------
(* A trace that shows its run completed shows none of its tool calls still *)
(* open, although run, iterations and tool rows are read by separate       *)
(* statements while turns go on (agenttrace/postgres.go:228-312).          *)
CompletedTracesAreClosed ==
    \A r \in Readers : reader[r].pc \in {"tools", "attempts", "done"}
                       /\ reader[r].status = "completed" => reader[r].open = 0

(* A request for a trace that found its run is answered: trace work always *)
(* gets the connections it needs (app/service.go:118-119).                 *)
TraceWorkHasCapacity ==
    \A r \in Readers : reader[r].pc = "iterations" ~> reader[r].pc = "done"
=============================================================================
