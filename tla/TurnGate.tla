------------------------------ MODULE TurnGate ------------------------------
(***************************************************************************)
(* How a turn gets to run: in-process admission, a pool connection for the *)
(* conversation's advisory lock, the polling for that lock, the work that  *)
(* needs further connections of the same pool, and the release             *)
(* (internal/app/service.go acquireConversationTurn, acquireTurnAdmission).*)
(* A request is a record of its API process, tenant and conversation; each *)
(* process has one pool, and one application service per tenant on it      *)
(* (internal/bootstrap/runtime.go componentsFor).                          *)
(***************************************************************************)
EXTENDS Integers, FiniteSets

CONSTANTS Requests,   \* records with fields proc, tenant, conv, n
          MaxConns,   \* the pool's size
          Queries,    \* bound: queries a turn makes while it holds the lock
          Faults      \* whether queries on the lock's session may fail

ASSUME TurnGateAssumption ==
  /\ MaxConns \in Nat \ {0, 1} /\ Queries \in Nat /\ Faults \in BOOLEAN
  /\ IsFiniteSet(Requests)

VARIABLES
  pc,        \* each request's step
  queries,   \* queries each turn has made
  admitted,  \* requests that hold a place in their service's admission channel
  session,   \* requests that hold a pool connection for the lock
  busy,      \* requests that hold a pool connection for one query
  lock,      \* requests whose session has their conversation's lock
  ghost      \* requests whose closed session the server has not ended yet

vars == <<pc, queries, admitted, session, busy, lock, ghost>>

Init == /\ pc = [r \in Requests |-> "arrived"]
        /\ queries = [r \in Requests |-> 0]
        /\ admitted = {} /\ session = {} /\ busy = {} /\ lock = {} /\ ghost = {}

Goto(r, step) == pc' = [pc EXCEPT ![r] = step]

Of(S, p) == {r \in S : r.proc = p}

\* The process's pool has a connection to hand out.
Free(p) == Cardinality(Of(session, p)) + Cardinality(Of(busy, p)) < MaxConns

turnCapacity == MaxConns \div 2

\* The requests that share an admission channel with one; as if every
\* conversation had a channel of its own.
Channel_PerConversation(r) ==
  {a \in admitted : a.proc = r.proc /\ a.tenant = r.tenant /\ a.conv = r.conv}

Channel(r) == {a \in admitted : a.proc = r.proc /\ a.tenant = r.tenant}

acquireTurnAdmission(r) ==
  /\ pc[r] = "arrived"
  /\ Cardinality(Channel(r)) < turnCapacity
  /\ admitted' = admitted \cup {r}
  /\ Goto(r, "stamp")
  /\ UNCHANGED <<queries, session, busy, lock, ghost>>

AdmissionTimesOut(r) ==
  /\ pc[r] = "arrived"
  /\ Goto(r, "overloaded")
  /\ UNCHANGED <<queries, admitted, session, busy, lock, ghost>>

\* SELECT clock_timestamp() takes a connection and gives it back.
StartStamp(r) ==
  /\ pc[r] = "stamp" /\ Free(r.proc)
  /\ busy' = busy \cup {r}
  /\ Goto(r, "stamping")
  /\ UNCHANGED <<queries, admitted, session, lock, ghost>>

EndStamp(r) ==
  /\ pc[r] = "stamping"
  /\ busy' = busy \ {r}
  /\ Goto(r, "connect")
  /\ UNCHANGED <<queries, admitted, session, lock, ghost>>

Connect(r) ==
  /\ pc[r] = "connect" /\ Free(r.proc)
  /\ session' = session \cup {r}
  /\ Goto(r, "trylock")
  /\ UNCHANGED <<queries, admitted, busy, lock, ghost>>

Conversation(r) == <<r.tenant, r.conv>>

Contenders(r) == {o \in lock \cup ghost : Conversation(o) = Conversation(r)}

\* A lock known to this process only.
Contenders_Local(r) == {o \in lock : Conversation(o) = Conversation(r) /\ o.proc = r.proc}

\* pg_try_advisory_lock succeeds; while it does not, the request tries again.
TryLock_Local(r) ==
  /\ pc[r] = "trylock" /\ Contenders_Local(r) = {}
  /\ lock' = lock \cup {r}
  /\ Goto(r, "working")
  /\ UNCHANGED <<queries, admitted, session, busy, ghost>>

TryLock(r) ==
  /\ pc[r] = "trylock" /\ Contenders(r) = {}
  /\ lock' = lock \cup {r}
  /\ Goto(r, "working")
  /\ UNCHANGED <<queries, admitted, session, busy, ghost>>

\* The queue deadline passes: what was taken is given back.
QueueTimesOut(r) ==
  /\ pc[r] \in {"stamp", "stamping", "connect", "trylock"}
  /\ admitted' = admitted \ {r}
  /\ session' = session \ {r}
  /\ busy' = busy \ {r}
  /\ Goto(r, "overloaded")
  /\ UNCHANGED <<queries, lock, ghost>>

\* The lock query fails, with or without the lock taken on the server; the
\* session is hijacked from the pool and closed, never returned.
LockQueryFails(r) ==
  /\ Faults /\ pc[r] = "trylock"
  /\ session' = session \ {r}
  /\ \/ UNCHANGED ghost
     \/ Contenders(r) = {} /\ ghost' = ghost \cup {r}
  /\ admitted' = admitted \ {r}
  /\ Goto(r, "failed")
  /\ UNCHANGED <<queries, busy, lock>>

\* The turn's own queries, each on a further connection of the pool.
StartQuery(r) ==
  /\ pc[r] = "working" /\ queries[r] < Queries /\ Free(r.proc)
  /\ busy' = busy \cup {r}
  /\ Goto(r, "querying")
  /\ UNCHANGED <<queries, admitted, session, lock, ghost>>

\* A query that keeps its connection.
EndQuery_Held(r) ==
  /\ pc[r] = "querying"
  /\ queries' = [queries EXCEPT ![r] = @ + 1]
  /\ Goto(r, "working")
  /\ UNCHANGED <<admitted, session, busy, lock, ghost>>

EndQuery(r) ==
  /\ pc[r] = "querying"
  /\ busy' = busy \ {r}
  /\ queries' = [queries EXCEPT ![r] = @ + 1]
  /\ Goto(r, "working")
  /\ UNCHANGED <<admitted, session, lock, ghost>>

\* The turn is over: it answered, or its deadline passed.
EndTurn(r) ==
  /\ \/ pc[r] = "working" /\ queries[r] = Queries
     \/ Faults /\ pc[r] \in {"working", "querying"}
  /\ busy' = busy \ {r}
  /\ Goto(r, "release")
  /\ UNCHANGED <<queries, admitted, session, lock, ghost>>

Finish(r) == queries[r] = Queries /\ EndTurn(r)

\* The unlock succeeds and the session goes back to the pool, or it fails and
\* the session is closed instead.
Release(r) ==
  /\ pc[r] = "release"
  /\ session' = session \ {r} /\ lock' = lock \ {r}
  /\ ghost' = ghost \/ (Faults /\ ghost' = ghost \cup {r})
  /\ admitted' = admitted \ {r}
  /\ Goto(r, "done")
  /\ UNCHANGED <<queries, busy>>

\* The server ends a closed session and drops its lock.
SessionEnds(r) ==
  /\ r \in ghost
  /\ ghost' = ghost \ {r}
  /\ UNCHANGED <<pc, queries, admitted, session, busy, lock>>

Step(r) == \/ acquireTurnAdmission(r) \/ AdmissionTimesOut(r)
           \/ StartStamp(r) \/ EndStamp(r) \/ Connect(r) \/ TryLock(r)
           \/ QueueTimesOut(r) \/ LockQueryFails(r)
           \/ StartQuery(r) \/ EndQuery(r) \/ EndTurn(r) \/ Release(r)
           \/ SessionEnds(r)

Next == \E r \in Requests : Step(r)

Spec == Init /\ [][Next]_vars

\* What a request does without waiting for a connection or a lock.
Move(r) == \/ AdmissionTimesOut(r) \/ QueueTimesOut(r) \/ EndStamp(r)
           \/ EndQuery(r) \/ Finish(r) \/ Release(r)

\* Timers fire, queries end, the pool serves its waiters in order; no turn is
\* assumed to run into its deadline.
Fairness == \A r \in Requests : WF_vars(Move(r)) /\ WF_vars(StartQuery(r))

FairSpec == Spec /\ Fairness

-----------------------------------------------------------------------------
\* Types; a service never admits more turns than half its pool.
TypeOK ==
  /\ pc \in [Requests -> {"arrived", "stamp", "stamping", "connect", "trylock",
                          "working", "querying", "release", "done", "failed",
                          "overloaded"}]
  /\ queries \in [Requests -> 0 .. Queries]
  /\ admitted \cup session \cup busy \cup lock \cup ghost \subseteq Requests
  /\ \A r \in Requests : Cardinality(Channel(r)) =< MaxConns \div 2

Running(r) == pc[r] \in {"working", "querying", "release"}

\* A conversation's turns run one at a time, in however many API processes
\* they arrive, and also while a closed session's lock is still held.
OneTurnPerConversation ==
  \A r, o \in Requests :
    (Running(r) /\ Running(o) /\ Conversation(r) = Conversation(o)) => r = o

\* "A session lock must never leak back into the pool": whoever has a lock
\* still has its session, and a request that is over holds no place, no
\* connection and no lock, whichever way it ended.
NothingLeaks ==
  /\ lock \subseteq session
  /\ \A r \in Requests : pc[r] \in {"done", "failed", "overloaded"} =>
       r \notin admitted \cup session \cup busy \cup lock

\* "Admit at most half the pool so trace/tool/query work always has
\* capacity": the lock sessions of a process leave half of its pool alone.
WorkHasCapacity ==
  \A r \in Requests : 2 * Cardinality(Of(session, r.proc)) =< MaxConns

\* A turn that got the lock gets the connections it needs and finishes, with
\* no help from its deadline.
TurnsFinish ==
  \A r \in Requests : (pc[r] = "working") ~> (pc[r] = "done")

=============================================================================
