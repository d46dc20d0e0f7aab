-------------------------- MODULE RateLimiter --------------------------
(* The per-client token bucket at the HTTP edge                            *)
(* (internal/platform/httpx/middleware.go).                                *)
(*                                                                         *)
(* A goroutine reads the clock before it takes the mutex, so calls are     *)
(* served in an order other than that of their readings.  Tokens are       *)
(* counted in the time that earns them: one tick of the clock refills one  *)
(* unit, and a request costs Cost = (one minute) / perMinute units.        *)
EXTENDS Integers

CONSTANTS
    Clients,        \* client keys
    Callers,        \* goroutines inside the middleware
    Cost,           \* price of a request
    Burst,          \* capacity of a bucket
    CleanEvery,     \* one minute
    Idle,           \* ten minutes
    MaxLag,         \* bound on the wait for the mutex
    MaxTime         \* bound on the clock

ASSUME LimiterAssumption ==
    /\ Cost \in Nat \ {0} /\ Burst \in Nat /\ Cost <= Burst
    /\ CleanEvery \in Nat /\ Idle \in Nat /\ MaxLag \in Nat /\ MaxTime \in Nat
    /\ MaxLag <= Idle

VARIABLES
    clock,
    calls,          \* the middleware's goroutines
    buckets,        \* the keys of the map
    tokens, seen,   \* the fields of a bucket, meaningless for other keys
    lastCleanup,
    surge,          \* history: the largest excess of admitted cost over elapsed
                    \* time in a window that ends with the client's last admission
    admitted        \* history: the clock reading of the client's last admission

vars == <<clock, calls, buckets, tokens, seen, lastCleanup, surge, admitted>>

Call == [state : {"idle", "waiting", "passed", "rejected"}, key : Clients, now : Nat]

Init ==
    /\ clock = 0
    /\ calls \in [Callers -> [state : {"idle"}, key : Clients, now : {0}]]
    /\ buckets = {}
    /\ tokens = [c \in Clients |-> 0]
    /\ seen = [c \in Clients |-> 0]
    /\ lastCleanup = 0 - CleanEvery - 1
    /\ surge = [c \in Clients |-> 0]
    /\ admitted = [c \in Clients |-> 0]

Least(a, b) == IF a <= b THEN a ELSE b
Most(a, b) == IF a >= b THEN a ELSE b

\* A request other than a probe reaches the limiter and reads the clock.
Middleware(q) ==
    /\ calls[q].state # "waiting"
    /\ \E c \in Clients :
        calls' = [calls EXCEPT ![q] = [state |-> "waiting", key |-> c, now |-> clock]]
    /\ UNCHANGED <<clock, buckets, tokens, seen, lastCleanup, surge, admitted>>

-----------------------------------------------------------------------------
Swept_Minute(now) == IF now - lastCleanup > CleanEvery
                     THEN {c \in buckets : now - seen[c] <= CleanEvery} ELSE buckets

\* The buckets left after the sweep a call makes when the last one is a minute old.
Swept(now) == IF now - lastCleanup > CleanEvery
              THEN {c \in buckets : now - seen[c] <= Idle} ELSE buckets

\* A key without a bucket starts full; a bucket earns the time since it was seen.
Refill(c, now) == IF c \in Swept(now) THEN Least(Burst, tokens[c] + (now - seen[c])) ELSE Burst

Cleanup(c, now) ==
    /\ buckets' = Swept(now) \cup {c}
    /\ lastCleanup' = IF now - lastCleanup > CleanEvery THEN now ELSE lastCleanup

Admit(q, c, now) ==
    /\ Refill(c, now) >= Cost
    /\ tokens' = [tokens EXCEPT ![c] = Refill(c, now) - Cost]
    /\ surge' = [surge EXCEPT ![c] = Cost + Most(0, surge[c] - (now - admitted[c]))]
    /\ admitted' = [admitted EXCEPT ![c] = now]
    /\ calls' = [calls EXCEPT ![q].state = "passed"]

Reject(q, c, now) ==
    /\ Refill(c, now) < Cost
    /\ tokens' = [tokens EXCEPT ![c] = Refill(c, now)]
    /\ calls' = [calls EXCEPT ![q].state = "rejected"]
    /\ UNCHANGED <<surge, admitted>>

\* The critical section of one call.
allow(q) ==
    /\ calls[q].state = "waiting"
    /\ Cleanup(calls[q].key, calls[q].now)
    /\ seen' = [seen EXCEPT ![calls[q].key] = calls[q].now]
    /\ \/ Admit(q, calls[q].key, calls[q].now)
       \/ Reject(q, calls[q].key, calls[q].now)
    /\ UNCHANGED clock

Tick ==
    /\ clock < MaxTime
    /\ \A q \in Callers : calls[q].state = "waiting" => clock - calls[q].now < MaxLag
    /\ clock' = clock + 1
    /\ UNCHANGED <<calls, buckets, tokens, seen, lastCleanup, surge, admitted>>

Next == (\E q \in Callers : Middleware(q) \/ allow(q)) \/ Tick

Spec == Init /\ [][Next]_vars

-----------------------------------------------------------------------------
TypeOK ==
    /\ clock \in Nat
    /\ calls \in [Callers -> Call]
    /\ buckets \subseteq Clients
    /\ tokens \in [Clients -> Int]
    /\ seen \in [Clients -> Int]
    /\ lastCleanup \in Int
    /\ surge \in [Clients -> Nat]
    /\ admitted \in [Clients -> Nat]

(* In no window between two of its admissions does a client get more than  *)
(* the burst plus what the window earned, by the clock readings of the     *)
(* calls, although readings are served out of order and idle buckets are   *)
(* dropped and start again full (middleware.go:111-142).                   *)
WithinBurst == \A c \in Clients : surge[c] <= Burst

(* A client that stayed away for the time one request costs, plus the      *)
(* longest wait for the mutex, is admitted: a rejected call takes nothing  *)
(* from the bucket (middleware.go:130-139).                                *)
PatientClientsPass ==
    [][\A q \in Callers :
          /\ calls[q].state = "waiting" /\ calls'[q].state # "waiting"
          /\ calls[q].now - seen[calls[q].key] >= Cost + MaxLag
          => calls'[q].state = "passed"]_vars

(* The map stays bounded by recent traffic: after any call, no bucket is   *)
(* left that was last seen more than eleven minutes before it              *)
(* (middleware.go:116-123).                                                *)
IdleBucketsGo ==
    [][\A q \in Callers :
          calls[q].state = "waiting" /\ calls'[q].state # "waiting" =>
              \A c \in buckets' : calls[q].now - seen'[c] <= Idle + CleanEvery]_vars

(* The strengthening behind the three properties.  A bucket holds no more  *)
(* than the window that ends now leaves of the burst, and a client without *)
(* one has been away for longer than its last surge takes to pay off.      *)
IInv ==
    /\ TypeOK
    /\ \A q \in Callers : calls[q].state = "waiting" =>
            calls[q].now <= clock /\ clock - calls[q].now <= MaxLag
    /\ \A c \in Clients : surge[c] <= Burst /\ admitted[c] <= clock
    /\ \A c \in buckets :
            /\ seen[c] <= clock /\ admitted[c] - seen[c] <= MaxLag
            /\ lastCleanup - seen[c] <= Idle
            /\ tokens[c] <= Burst /\ 0 - MaxLag <= tokens[c]
            /\ surge[c] + tokens[c] <= Burst + (seen[c] - admitted[c])
            /\ seen[c] - tokens[c] <= clock
    /\ \A c \in Clients \ buckets :
            \/ surge[c] = 0 /\ admitted[c] = 0
            \/ surge[c] <= clock - MaxLag - admitted[c]
    /\ lastCleanup <= clock
=============================================================================
