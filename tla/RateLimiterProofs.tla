----------------------- MODULE RateLimiterProofs -----------------------
(* Proofs about the token bucket, for every number of clients and callers, *)
(* every price, burst and interval.                                        *)
EXTENDS RateLimiter, TLAPS

(* A bucket that the sweep of a call kept was seen within ten minutes of   *)
(* the call, or the sweep was not due (middleware.go:116-123).             *)
LEMMA SweptIsRecent ==
    ASSUME IInv, NEW now \in Nat, NEW c \in Swept(now)
    PROVE  /\ c \in buckets
           /\ now - lastCleanup > CleanEvery => now - seen[c] <= Idle
    BY DEF Swept

(* The refill never overfills a bucket, and takes it from its old level by *)
(* at most the time since it was seen (middleware.go:126-134).             *)
LEMMA RefillBounds ==
    ASSUME IInv, NEW c \in Clients, NEW now \in Nat
    PROVE  /\ Refill(c, now) \in Int
           /\ Refill(c, now) <= Burst
           /\ c \in Swept(now) =>
                \/ Refill(c, now) = Burst /\ Burst <= tokens[c] + (now - seen[c])
                \/ Refill(c, now) = tokens[c] + (now - seen[c])
           /\ c \notin Swept(now) => Refill(c, now) = Burst
<1>1. tokens[c] \in Int /\ seen[c] \in Int
    BY DEF IInv, TypeOK
<1>2. Burst \in Int
    BY LimiterAssumption
<1> QED BY <1>1, <1>2 DEF Refill, Least

(* A client whose bucket is missing when a call serves it, because it is   *)
(* new or was swept, has paid off its last surge (middleware.go:116-128).  *)
LEMMA AbsentIsPaid ==
    ASSUME Burst + MaxLag + MaxLag <= Idle, IInv, NEW c \in Clients,
           NEW now \in Nat, NEW t \in Nat, now <= clock, clock - t <= MaxLag,
           c \notin Swept(now)
    PROVE  \/ surge[c] = 0 /\ admitted[c] = 0
           \/ surge[c] <= clock - MaxLag - admitted[c]
<1> USE LimiterAssumption
<1>0. clock \in Nat /\ seen[c] \in Int /\ surge[c] \in Nat /\ admitted[c] \in Nat
    BY DEF IInv, TypeOK
<1>1. CASE c \notin buckets
    BY <1>1 DEF IInv
<1>2. CASE c \in buckets
    <2>1. now - seen[c] > Idle
        BY <1>0, <1>2 DEF Swept
    <2>2. admitted[c] - seen[c] <= MaxLag /\ surge[c] <= Burst
        BY <1>2 DEF IInv
    <2> QED BY <1>0, <2>1, <2>2
<1> QED BY <1>1, <1>2

(* Admission adds the price to what is left of the client's surge, and     *)
(* both stay within the burst and the tokens left (middleware.go:137-141). *)
LEMMA AdmitKeepsBurst ==
    ASSUME Burst + MaxLag + MaxLag <= Idle, IInv, NEW c \in Clients,
           NEW now \in Nat, now <= clock, clock - now <= MaxLag, Refill(c, now) >= Cost
    PROVE  LET new == Cost + Most(0, surge[c] - (now - admitted[c]))
           IN  /\ new \in Nat
               /\ new + (Refill(c, now) - Cost) <= Burst
               /\ new <= Burst
<1> USE LimiterAssumption
<1>0. clock \in Nat /\ seen[c] \in Int /\ tokens[c] \in Int /\ surge[c] \in Nat
      /\ admitted[c] \in Nat
    BY DEF IInv, TypeOK
<1>1. Refill(c, now) \in Int /\ Refill(c, now) <= Burst
    BY RefillBounds
<1>2. CASE c \in Swept(now)
    <2>1. Refill(c, now) <= tokens[c] + (now - seen[c])
        BY <1>0, <1>1, <1>2, RefillBounds
    <2>2. surge[c] + tokens[c] <= Burst + (seen[c] - admitted[c])
        BY <1>2, SweptIsRecent DEF IInv
    <2> QED BY <1>0, <1>1, <2>1, <2>2 DEF Most
<1>3. CASE c \notin Swept(now)
    <2>1. surge[c] <= now - admitted[c] \/ (surge[c] = 0 /\ admitted[c] = 0)
        BY <1>0, <1>3, AbsentIsPaid
    <2> QED BY <1>0, <1>1, <2>1 DEF Most
<1> QED BY <1>2, <1>3

(* The limiter starts with no buckets and nothing owed. *)
LEMMA InitIInv == Init => IInv
<1> USE LimiterAssumption
<1>1. SUFFICES ASSUME Init PROVE IInv
    OBVIOUS
<1>2. calls \in [Callers -> Call] /\ \A q \in Callers : calls[q].state = "idle"
    BY <1>1 DEF Init, Call
<1>3. TypeOK
    BY <1>1, <1>2 DEF Init, TypeOK
<1> QED BY <1>1, <1>2, <1>3 DEF Init, IInv

(* One critical section keeps the invariant. *)
LEMMA AllowIInv ==
    ASSUME Burst + MaxLag + MaxLag <= Idle, IInv, NEW q \in Callers, allow(q)
    PROVE  IInv'
<1> USE LimiterAssumption
<1> DEFINE k == calls[q].key
           now == calls[q].now
<1>0. k \in Clients /\ now \in Nat /\ calls[q].state = "waiting" /\ clock' = clock
      /\ clock \in Nat /\ now <= clock /\ clock - now <= MaxLag
    BY DEF IInv, TypeOK, Call, allow
<1>1. seen' = [seen EXCEPT ![k] = now] /\ buckets' = Swept(now) \cup {k}
      /\ lastCleanup' = (IF now - lastCleanup > CleanEvery THEN now ELSE lastCleanup)
    BY DEF allow, Cleanup
<1>2. Refill(k, now) \in Int /\ Refill(k, now) <= Burst
    BY <1>0, RefillBounds
<1> DEFINE left == IF Refill(k, now) >= Cost THEN Refill(k, now) - Cost ELSE Refill(k, now)
           new == IF Refill(k, now) >= Cost
                  THEN Cost + Most(0, surge[k] - (now - admitted[k])) ELSE surge[k]
           at == IF Refill(k, now) >= Cost THEN now ELSE admitted[k]
<1>3. tokens' = [tokens EXCEPT ![k] = left]
    BY <1>2 DEF allow, Admit, Reject
<1>4. surge' = [surge EXCEPT ![k] = new] /\ admitted' = [admitted EXCEPT ![k] = at]
    <2>1. CASE Refill(k, now) >= Cost
        BY <1>2, <2>1 DEF allow, Admit, Reject
    <2>2. CASE ~(Refill(k, now) >= Cost)
        <3>1. surge' = surge /\ admitted' = admitted
            BY <1>2, <2>2 DEF allow, Admit, Reject
        <3>2. surge \in [Clients -> Nat] /\ admitted \in [Clients -> Nat]
            BY DEF IInv, TypeOK
        <3> QED BY <1>0, <2>2, <3>1, <3>2
    <2> QED BY <2>1, <2>2
<1>5. \E s \in {"passed", "rejected"} : calls' = [calls EXCEPT ![q].state = s]
    BY DEF allow, Admit, Reject
<1>6. seen[k] \in Int /\ tokens[k] \in Int /\ surge[k] \in Nat /\ admitted[k] \in Nat
      /\ admitted[k] <= clock /\ surge[k] <= Burst /\ lastCleanup \in Int /\ lastCleanup <= clock
    BY <1>0 DEF IInv, TypeOK
<1>7. left \in Int /\ new \in Nat /\ at \in Nat /\ left <= Burst /\ new <= Burst /\ at <= clock
    <2>1. CASE Refill(k, now) >= Cost
        BY <1>0, <1>2, <2>1, AdmitKeepsBurst
    <2>2. CASE ~(Refill(k, now) >= Cost)
        BY <1>0, <1>2, <1>6, <2>2
    <2> QED BY <2>1, <2>2
<1>8. new + left <= Burst + (now - at)
    <2>1. CASE Refill(k, now) >= Cost
        BY <1>0, <1>2, <2>1, AdmitKeepsBurst
    <2>2. CASE ~(Refill(k, now) >= Cost)
        <3>1. k \in Swept(now) /\ k \in buckets
            BY <1>0, <1>2, <2>2, RefillBounds, SweptIsRecent
        <3>2. surge[k] + tokens[k] <= Burst + (seen[k] - admitted[k])
            BY <3>1 DEF IInv
        <3>3. Refill(k, now) <= tokens[k] + (now - seen[k])
            BY <1>0, <1>2, <1>6, <3>1, RefillBounds
        <3> QED BY <1>0, <1>2, <1>6, <2>2, <3>2, <3>3
    <2> QED BY <2>1, <2>2
<1>9. 0 - MaxLag <= left /\ now - left <= clock
    <2>1. CASE Refill(k, now) >= Cost
        BY <1>0, <1>2, <2>1
    <2>2. CASE ~(Refill(k, now) >= Cost)
        <3>1. k \in Swept(now) /\ k \in buckets
            BY <1>0, <1>2, <2>2, RefillBounds, SweptIsRecent
        <3>2. seen[k] - tokens[k] <= clock
            BY <3>1 DEF IInv
        <3>3. Refill(k, now) = tokens[k] + (now - seen[k])
            BY <1>0, <1>2, <1>6, <2>2, <3>1, RefillBounds
        <3> QED BY <1>0, <1>2, <1>6, <2>2, <3>2, <3>3
    <2> QED BY <2>1, <2>2
<1>10. TypeOK'
    <2>1. calls' \in [Callers -> Call]
        BY <1>5 DEF IInv, TypeOK, Call
    <2>2. buckets' \subseteq Clients
        BY <1>0, <1>1 DEF IInv, TypeOK, Swept
    <2>3. tokens' \in [Clients -> Int] /\ seen' \in [Clients -> Int]
        BY <1>0, <1>1, <1>3, <1>7 DEF IInv, TypeOK
    <2>4. surge' \in [Clients -> Nat] /\ admitted' \in [Clients -> Nat]
        BY <1>0, <1>4, <1>7 DEF IInv, TypeOK
    <2> QED BY <1>0, <1>1, <1>6, <2>1, <2>2, <2>3, <2>4 DEF TypeOK
<1>11. \A p \in Callers : calls'[p].state = "waiting" =>
            calls'[p].now <= clock' /\ clock' - calls'[p].now <= MaxLag
    <2> SUFFICES ASSUME NEW p \in Callers, calls'[p].state = "waiting"
                 PROVE  calls'[p].now <= clock' /\ clock' - calls'[p].now <= MaxLag
        OBVIOUS
    <2>1. p # q /\ calls'[p] = calls[p]
        BY <1>5 DEF IInv, TypeOK, Call
    <2> QED BY <1>0, <2>1 DEF IInv
<1>12. \A c \in Clients : surge'[c] <= Burst /\ admitted'[c] <= clock'
    BY <1>0, <1>4, <1>7 DEF IInv, TypeOK
<1>13. ASSUME NEW c \in buckets'
       PROVE  /\ seen'[c] <= clock' /\ admitted'[c] - seen'[c] <= MaxLag
              /\ lastCleanup' - seen'[c] <= Idle
              /\ tokens'[c] <= Burst /\ 0 - MaxLag <= tokens'[c]
              /\ surge'[c] + tokens'[c] <= Burst + (seen'[c] - admitted'[c])
              /\ seen'[c] - tokens'[c] <= clock'
    <2>1. CASE c = k
        <3>1. seen'[c] = now /\ tokens'[c] = left /\ surge'[c] = new /\ admitted'[c] = at
            BY <1>0, <1>1, <1>3, <1>4, <2>1 DEF IInv, TypeOK
        <3>2. at - now <= MaxLag
            BY <1>0, <1>6, <1>7
        <3>3. lastCleanup' - now <= Idle
            BY <1>0, <1>1, <1>6
        <3> HIDE DEF left, new, at
        <3> QED BY <1>0, <1>7, <1>8, <1>9, <3>1, <3>2, <3>3
    <2>2. CASE c # k
        <3>1. c \in Swept(now)
            BY <1>1, <2>2
        <3>2. c \in buckets /\ (now - lastCleanup > CleanEvery => now - seen[c] <= Idle)
            BY <1>0, <3>1, SweptIsRecent
        <3>3. seen'[c] = seen[c] /\ tokens'[c] = tokens[c] /\ surge'[c] = surge[c]
              /\ admitted'[c] = admitted[c]
            BY <1>1, <1>3, <1>4, <2>2, <3>2 DEF IInv, TypeOK
        <3>4. lastCleanup' - seen[c] <= Idle
            BY <1>1, <3>2 DEF IInv
        <3> QED BY <1>0, <3>2, <3>3, <3>4 DEF IInv
    <2> QED BY <2>1, <2>2
<1>14. ASSUME NEW c \in Clients, c \notin buckets'
       PROVE  \/ surge'[c] = 0 /\ admitted'[c] = 0
              \/ surge'[c] <= clock' - MaxLag - admitted'[c]
    <2>1. c # k /\ c \notin Swept(now)
        BY <1>1, <1>14
    <2>2. surge'[c] = surge[c] /\ admitted'[c] = admitted[c]
        BY <1>4, <2>1 DEF IInv, TypeOK
    <2> QED BY <1>0, <2>1, <2>2, AbsentIsPaid
<1>15. lastCleanup' <= clock'
    BY <1>0, <1>1, <1>6
<1> HIDE DEF k, now
<1> QED BY <1>10, <1>11, <1>12, <1>13, <1>14, <1>15 DEF IInv

(* Every step of the limiter keeps the invariant. *)
LEMMA NextIInv ==
    ASSUME Burst + MaxLag + MaxLag <= Idle, IInv, [Next]_vars
    PROVE  IInv'
<1> USE LimiterAssumption
<1>1. ASSUME NEW q \in Callers, Middleware(q) PROVE IInv'
    <2>1. PICK c \in Clients :
            calls' = [calls EXCEPT ![q] = [state |-> "waiting", key |-> c, now |-> clock]]
        BY <1>1 DEF Middleware
    <2>2. calls' \in [Callers -> Call]
        BY <2>1 DEF IInv, TypeOK, Call
    <2>3. \A p \in Callers : calls'[p].state = "waiting" =>
            calls'[p].now <= clock /\ clock - calls'[p].now <= MaxLag
        BY <2>1 DEF IInv, TypeOK
    <2> QED BY <1>1, <2>2, <2>3 DEF IInv, TypeOK, Middleware
<1>2. ASSUME NEW q \in Callers, allow(q) PROVE IInv'
    BY <1>2, AllowIInv
<1>3. CASE Tick
    <2>1. TypeOK'
        BY <1>3 DEF IInv, TypeOK, Tick
    <2>2. \A p \in Callers : calls'[p].state = "waiting" =>
            calls'[p].now <= clock' /\ clock' - calls'[p].now <= MaxLag
        BY <1>3 DEF IInv, TypeOK, Call, Tick
    <2>3. \A c \in Clients : surge'[c] <= Burst /\ admitted'[c] <= clock'
        BY <1>3 DEF IInv, TypeOK, Tick
    <2>4. \A c \in buckets' :
            /\ seen'[c] <= clock' /\ admitted'[c] - seen'[c] <= MaxLag
            /\ lastCleanup' - seen'[c] <= Idle
            /\ tokens'[c] <= Burst /\ 0 - MaxLag <= tokens'[c]
            /\ surge'[c] + tokens'[c] <= Burst + (seen'[c] - admitted'[c])
            /\ seen'[c] - tokens'[c] <= clock'
        BY <1>3 DEF IInv, TypeOK, Tick
    <2>5. \A c \in Clients \ buckets' :
            \/ surge'[c] = 0 /\ admitted'[c] = 0
            \/ surge'[c] <= clock' - MaxLag - admitted'[c]
        BY <1>3 DEF IInv, TypeOK, Tick
    <2>6. lastCleanup' <= clock'
        BY <1>3 DEF IInv, TypeOK, Tick
    <2> QED BY <2>1, <2>2, <2>3, <2>4, <2>5, <2>6 DEF IInv
<1>4. CASE UNCHANGED vars
    BY <1>4 DEF IInv, TypeOK, vars
<1> QED BY <1>1, <1>2, <1>3, <1>4 DEF Next

(* The limiter never admits a client beyond its burst and its rate, when   *)
(* the burst pays off within the ten minutes after which an idle bucket is *)
(* dropped (middleware.go:111-142).                                        *)
THEOREM LimiterHoldsBurst ==
    ASSUME Burst + MaxLag + MaxLag <= Idle
    PROVE  Spec => []WithinBurst
<1>1. Init => IInv
    BY InitIInv
<1>2. IInv /\ [Next]_vars => IInv'
    BY NextIInv
<1>3. IInv => WithinBurst
    BY DEF IInv, WithinBurst
<1> QED BY <1>1, <1>2, <1>3, PTL DEF Spec

(* Only the critical section of a waiting call ends its wait. *)
LEMMA ServedByAllow ==
    ASSUME IInv, [Next]_vars, NEW q \in Callers,
           calls[q].state = "waiting", calls'[q].state # "waiting"
    PROVE  allow(q)
<1>0. calls \in [Callers -> Call]
    BY DEF IInv, TypeOK
<1>1. ~UNCHANGED vars /\ ~Tick
    BY DEF vars, Tick
<1>2. \A p \in Callers : Middleware(p) => calls'[q] = calls[q] \/ calls'[q].state = "waiting"
    BY <1>0 DEF Middleware
<1>3. \A p \in Callers : allow(p) /\ p # q => calls'[q] = calls[q]
    BY <1>0 DEF allow, Admit, Reject
<1> QED BY <1>1, <1>2, <1>3 DEF Next

(* A client that kept away for the price of a request is never rejected    *)
(* (middleware.go:130-139).                                                *)
THEOREM PatientClientsAreAdmitted ==
    ASSUME Burst + MaxLag + MaxLag <= Idle
    PROVE  Spec => PatientClientsPass
<1> USE LimiterAssumption
<1> DEFINE Good == \A q \in Callers :
          /\ calls[q].state = "waiting" /\ calls'[q].state # "waiting"
          /\ calls[q].now - seen[calls[q].key] >= Cost + MaxLag
          => calls'[q].state = "passed"
<1>1. ASSUME IInv, [Next]_vars PROVE [Good]_vars
    <2> SUFFICES ASSUME NEW q \in Callers,
                        calls[q].state = "waiting", calls'[q].state # "waiting",
                        calls[q].now - seen[calls[q].key] >= Cost + MaxLag
                 PROVE  calls'[q].state = "passed"
        OBVIOUS
    <2>0. calls \in [Callers -> Call]
        BY <1>1 DEF IInv, TypeOK
    <2>1. allow(q)
        BY <1>1, ServedByAllow
    <2>2. calls[q].key \in Clients /\ calls[q].now \in Nat
        BY <2>0 DEF Call
    <2>3. Refill(calls[q].key, calls[q].now) >= Cost
        <3>1. CASE calls[q].key \in Swept(calls[q].now)
            <4>1. calls[q].key \in buckets
                BY <3>1 DEF Swept
            <4>2. 0 - MaxLag <= tokens[calls[q].key] /\ tokens[calls[q].key] \in Int
                  /\ seen[calls[q].key] \in Int
                BY <1>1, <2>2, <4>1 DEF IInv, TypeOK
            <4> QED BY <1>1, <2>2, <3>1, <4>2, RefillBounds
        <3>2. CASE calls[q].key \notin Swept(calls[q].now)
            BY <1>1, <2>2, <3>2, RefillBounds
        <3> QED BY <3>1, <3>2
    <2>4. Refill(calls[q].key, calls[q].now) \in Int
        BY <1>1, <2>2, RefillBounds
    <2>5. Admit(q, calls[q].key, calls[q].now)
        BY <2>1, <2>3, <2>4 DEF allow, Reject
    <2> QED BY <2>0, <2>5 DEF Admit
<1>2. Init => IInv
    BY InitIInv
<1>3. IInv /\ [Next]_vars => IInv'
    BY NextIInv
<1> QED BY <1>1, <1>2, <1>3, PTL DEF Spec, PatientClientsPass
(* No call leaves behind a bucket that eleven minutes of traffic passed by *)
(* (middleware.go:116-123).                                                *)
THEOREM IdleBucketsAreDropped ==
    ASSUME Burst + MaxLag + MaxLag <= Idle
    PROVE  Spec => IdleBucketsGo
<1> USE LimiterAssumption
<1> DEFINE Good == \A q \in Callers :
          calls[q].state = "waiting" /\ calls'[q].state # "waiting" =>
              \A c \in buckets' : calls[q].now - seen'[c] <= Idle + CleanEvery
<1>1. ASSUME IInv, [Next]_vars PROVE [Good]_vars
    <2> SUFFICES ASSUME NEW q \in Callers,
                        calls[q].state = "waiting", calls'[q].state # "waiting",
                        NEW c \in buckets'
                 PROVE  calls[q].now - seen'[c] <= Idle + CleanEvery
        OBVIOUS
    <2>1. allow(q)
        BY <1>1, ServedByAllow
    <2>2. lastCleanup' \in Int /\ seen'[c] \in Int /\ lastCleanup' - seen'[c] <= Idle
        BY <1>1, <2>1, AllowIInv DEF IInv, TypeOK
    <2>3. calls[q].now \in Nat /\ lastCleanup \in Int
        BY <1>1 DEF IInv, TypeOK, Call
    <2>4. calls[q].now - lastCleanup' <= CleanEvery
        BY <2>1, <2>3 DEF allow, Cleanup
    <2> QED BY <2>2, <2>3, <2>4
<1>2. Init => IInv
    BY InitIInv
<1>3. IInv /\ [Next]_vars => IInv'
    BY NextIInv
<1> QED BY <1>1, <1>2, <1>3, PTL DEF Spec, IdleBucketsGo
=============================================================================
