---------------------------- MODULE Metrics ----------------------------
(* The request metrics (internal/platform/metrics): a gauge and counters   *)
(* updated by compare-and-swap loops, children of a labelled counter made  *)
(* on first use, and a histogram under a mutex.                            *)
EXTENDS Integers, FiniteSets

CONSTANTS
    Requests,   \* requests, each served by a goroutine of its own
    Codes       \* label values

VARIABLES
    pc, code,   \* the requests: what each does next and its response status
    old,        \* the value a compare-and-swap loop read
    child,      \* the counter With gave the request
    inFlight,   \* the gauge
    children,   \* the map of the labelled counter; a child is named by its maker
    value,      \* the children's values
    observed    \* the histogram: observations, and those of them in a finite bucket

vars == <<pc, code, old, child, inFlight, children, value, observed>>

None == "none"

Init ==
    /\ pc = [q \in Requests |-> "arrived"]
    /\ code \in [Requests -> Codes]
    /\ old = [q \in Requests |-> 0]
    /\ child = [q \in Requests |-> None]
    /\ inFlight = 0
    /\ children = [c \in Codes |-> None]
    /\ value = [q \in Requests |-> 0]
    /\ observed = [count |-> 0, fast |-> 0]

Goto(q, step) == pc' = [pc EXCEPT ![q] = step]

-----------------------------------------------------------------------------
(* Gauge.Add: load, add, compare and swap, again when another got in between *)

GaugeLoad(q, at, next) ==
    /\ pc[q] = at /\ old' = [old EXCEPT ![q] = inFlight] /\ Goto(q, next)
    /\ UNCHANGED <<code, child, inFlight, children, value, observed>>

GaugeSwap_Store(q, at, delta, retry, next) ==
    /\ pc[q] = at
    /\ inFlight' = old[q] + delta /\ Goto(q, next)
    /\ UNCHANGED <<code, old, child, children, value, observed>>

GaugeSwap(q, at, delta, retry, next) ==
    /\ pc[q] = at
    /\ IF inFlight = old[q] THEN inFlight' = old[q] + delta /\ Goto(q, next)
                            ELSE UNCHANGED inFlight /\ Goto(q, retry)
    /\ UNCHANGED <<code, old, child, children, value, observed>>

\* The middleware counts the request in, serves it, and counts it out.
Enter(q) == GaugeLoad(q, "arrived", "entering")
Entered(q) == GaugeSwap(q, "entering", 1, "arrived", "serving")
Leave(q) == GaugeLoad(q, "serving", "leaving")
Left(q) == GaugeSwap(q, "leaving", -1, "serving", "lookup")

-----------------------------------------------------------------------------
(* CounterVec.With, then Counter.Inc *)

\* Under the read lock.
Lookup(q) ==
    /\ pc[q] = "lookup"
    /\ child' = [child EXCEPT ![q] = children[code[q]]]
    /\ Goto(q, IF children[code[q]] = None THEN "create" ELSE "load")
    /\ UNCHANGED <<code, old, inFlight, children, value, observed>>

With_NoRecheck(q) ==
    /\ pc[q] = "create"
    /\ children' = [children EXCEPT ![code[q]] = q]
    /\ child' = [child EXCEPT ![q] = q]
    /\ Goto(q, "load")
    /\ UNCHANGED <<code, old, inFlight, value, observed>>

\* Under the write lock, where another request may have made the child.
With(q) ==
    /\ pc[q] = "create"
    /\ children' = [children EXCEPT ![code[q]] = IF @ = None THEN q ELSE @]
    /\ child' = [child EXCEPT ![q] = children'[code[q]]]
    /\ Goto(q, "load")
    /\ UNCHANGED <<code, old, inFlight, value, observed>>

CounterLoad(q) ==
    /\ pc[q] = "load"
    /\ old' = [old EXCEPT ![q] = value[child[q]]] /\ Goto(q, "swap")
    /\ UNCHANGED <<code, child, inFlight, children, value, observed>>

CounterSwap(q) ==
    /\ pc[q] = "swap"
    /\ IF value[child[q]] = old[q]
       THEN value' = [value EXCEPT ![child[q]] = old[q] + 1] /\ Goto(q, "observe")
       ELSE UNCHANGED value /\ Goto(q, "load")
    /\ UNCHANGED <<code, old, child, inFlight, children, observed>>

\* The histogram's mutex makes the whole observation one step; a stream is not observed.
Observe(q) ==
    /\ pc[q] = "observe"
    /\ \/ \E fast \in {0, 1} : observed' = [count |-> observed.count + 1,
                                            fast |-> observed.fast + fast]
       \/ UNCHANGED observed
    /\ Goto(q, "done")
    /\ UNCHANGED <<code, old, child, inFlight, children, value>>

-----------------------------------------------------------------------------
Next == \E q \in Requests : \/ Enter(q) \/ Entered(q) \/ Leave(q) \/ Left(q)
                            \/ Lookup(q) \/ With(q) \/ CounterLoad(q) \/ CounterSwap(q) \/ Observe(q)

Spec == Init /\ [][Next]_vars

-----------------------------------------------------------------------------
(* The gauge is the number of requests that were counted in and not out,   *)
(* after any interleaving of compare-and-swap loops (metrics.go:175-183).  *)
InFlightIsExact ==
    inFlight = Cardinality({q \in Requests : pc[q] \in {"serving", "leaving"}})

(* No request is lost from its counter: two requests that meet a label for *)
(* the first time end up with one child, and no increment overwrites       *)
(* another (metrics.go:145-156, 226-245).                                  *)
NoRequestUncounted ==
    \A c \in Codes : Cardinality({q \in Requests : code[q] = c /\ pc[q] \in {"observe", "done"}})
                     = IF children[c] = None THEN 0 ELSE value[children[c]]
=============================================================================
