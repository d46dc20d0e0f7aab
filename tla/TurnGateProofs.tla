--------------------------- MODULE TurnGateProofs ---------------------------
(***************************************************************************)
(* For any number of requests, processes, tenants and connections: turns   *)
(* of a conversation exclude each other, nothing leaks, and a process that *)
(* serves one tenant always has a connection left for its turns' work.     *)
(***************************************************************************)
EXTENDS TurnGate, FiniteSetTheorems, TLAPS

Ended == {"done", "failed", "overloaded"}

Typed ==
  /\ pc \in [Requests -> {"arrived", "stamp", "stamping", "connect", "trylock",
                          "working", "querying", "release"} \cup Ended]
  /\ queries \in [Requests -> 0 .. Queries]
  /\ admitted \subseteq Requests /\ session \subseteq Requests
  /\ busy \subseteq Requests /\ lock \subseteq Requests /\ ghost \subseteq Requests

\* What a request holds at each step.
Holds ==
  \A r \in Requests :
    /\ Running(r) <=> r \in lock
    /\ r \in session <=> pc[r] \in {"trylock", "working", "querying", "release"}
    /\ r \in busy => pc[r] \in {"stamping", "querying"}
    /\ r \in admitted <=> pc[r] \notin {"arrived"} \cup Ended
    /\ pc[r] = "querying" => queries[r] < Queries

\* No two sessions, open or closed but not ended, have one conversation's lock.
Exclusive ==
  \A r, o \in lock \cup ghost : Conversation(r) = Conversation(o) => r = o

IInv == Typed /\ Holds /\ Exclusive

USE TurnGateAssumption

LEMMA InitIInv == Init => IInv
BY DEF Init, IInv, Typed, Holds, Exclusive, Running, Ended

LEMMA StepIInv ==
  ASSUME IInv, NEW r \in Requests, Step(r)
  PROVE  IInv'
<1> USE DEF IInv, Goto
<1>a. ASSUME UNCHANGED <<lock, ghost>>
      PROVE  Exclusive'
  BY <1>a DEF Exclusive, Conversation
<1>1. CASE acquireTurnAdmission(r)
  BY <1>1, <1>a DEF acquireTurnAdmission, Typed, Holds, Running, Ended
<1>2. CASE AdmissionTimesOut(r)
  BY <1>2, <1>a DEF AdmissionTimesOut, Typed, Holds, Running, Ended
<1>3. CASE StartStamp(r)
  BY <1>3, <1>a DEF StartStamp, Typed, Holds, Running, Ended
<1>4. CASE EndStamp(r)
  BY <1>4, <1>a DEF EndStamp, Typed, Holds, Running, Ended
<1>5. CASE Connect(r)
  BY <1>5, <1>a DEF Connect, Typed, Holds, Running, Ended
<1>6. CASE TryLock(r)
  <2>1. Typed' /\ Holds'
    BY <1>6 DEF TryLock, Typed, Holds, Running, Ended
  <2>2. Exclusive'
    BY <1>6 DEF TryLock, Exclusive, Contenders, Conversation
  <2> QED  BY <2>1, <2>2
<1>7. CASE QueueTimesOut(r)
  BY <1>7, <1>a DEF QueueTimesOut, Typed, Holds, Running, Ended
<1>8. CASE LockQueryFails(r)
  <2>1. Typed' /\ Holds'
    BY <1>8 DEF LockQueryFails, Typed, Holds, Running, Ended
  <2>2. Exclusive'
    BY <1>8 DEF LockQueryFails, Exclusive, Contenders, Conversation
  <2> QED  BY <2>1, <2>2
<1>9. CASE StartQuery(r)
  BY <1>9, <1>a DEF StartQuery, Typed, Holds, Running, Ended
<1>10. CASE EndQuery(r)
  BY <1>10, <1>a DEF EndQuery, Typed, Holds, Running, Ended
<1>11. CASE EndTurn(r)
  BY <1>11, <1>a DEF EndTurn, Typed, Holds, Running, Ended
<1>12. CASE Release(r)
  <2>1. Typed' /\ Holds'
    BY <1>12 DEF Release, Typed, Holds, Running, Ended
  <2>2. r \in lock
    BY <1>12 DEF Release, Holds, Running
  <2>3. lock' \cup ghost' \subseteq lock \cup ghost
    BY <1>12, <2>2 DEF Release
  <2>4. Exclusive'
    BY <2>3 DEF Exclusive, Conversation
  <2> QED  BY <2>1, <2>4
<1>13. CASE SessionEnds(r)
  BY <1>13 DEF SessionEnds, Typed, Holds, Exclusive, Conversation, Running, Ended
<1> QED
  BY <1>1, <1>2, <1>3, <1>4, <1>5, <1>6, <1>7, <1>8, <1>9, <1>10, <1>11, <1>12, <1>13
  DEF Step

LEMMA Invariance == Spec => []IInv
<1>1. IInv /\ [Next]_vars => IInv'
  <2> SUFFICES ASSUME IInv, [Next]_vars PROVE IInv'
    OBVIOUS
  <2>1. CASE Next
    BY <2>1, StepIInv DEF Next
  <2>2. CASE UNCHANGED vars
    BY <2>2 DEF vars, IInv, Typed, Holds, Exclusive, Conversation, Running
  <2> QED  BY <2>1, <2>2
<1> QED  BY <1>1, InitIInv, PTL DEF Spec

\* pg_try_advisory_lock and the release serialise a conversation's turns
\* across processes, whatever fails on the way.
THEOREM TurnsExclude == Spec => []OneTurnPerConversation
<1>1. IInv => OneTurnPerConversation
  BY DEF IInv, Holds, Exclusive, OneTurnPerConversation
<1> QED  BY <1>1, Invariance, PTL

\* Every way out of acquireConversationTurn and its release gives back the
\* admission, the connection and the lock.
THEOREM GateNeverLeaks == Spec => []NothingLeaks
<1>1. IInv => NothingLeaks
  BY DEF IInv, Typed, Holds, NothingLeaks, Running, Ended
<1> QED  BY <1>1, Invariance, PTL

-----------------------------------------------------------------------------
\* The admission channels.

Bounded == \A r \in Requests : Cardinality(Channel(r)) =< turnCapacity

LEMMA ChannelsAreFinite ==
  ASSUME Typed, NEW r \in Requests
  PROVE  IsFiniteSet(Channel(r)) /\ Cardinality(Channel(r)) \in Nat
<1>1. Channel(r) \subseteq Requests
  BY DEF Channel, Typed
<1> QED  BY <1>1, FS_Subset, FS_CardinalityType

LEMMA StepBounded ==
  ASSUME IInv, Bounded, Typed', [Next]_vars
  PROVE  Bounded'
<1> SUFFICES ASSUME NEW o \in Requests
             PROVE  Cardinality(Channel(o)') =< turnCapacity
  BY DEF Bounded, turnCapacity
<1>0. turnCapacity \in Nat
  BY DEF turnCapacity
<1>1. IsFiniteSet(Channel(o)) /\ Cardinality(Channel(o)) \in Nat
  BY ChannelsAreFinite DEF IInv
<1>2. CASE admitted' \subseteq admitted
  <2>1. Channel(o)' \subseteq Channel(o)
    BY <1>2 DEF Channel
  <2>2. Cardinality(Channel(o)') =< Cardinality(Channel(o)) /\ Cardinality(Channel(o)') \in Nat
    BY <1>1, <2>1, FS_Subset, FS_CardinalityType
  <2> QED  BY <1>0, <1>1, <2>2 DEF Bounded
<1>3. CASE \E r \in Requests : acquireTurnAdmission(r)
  <2>1. PICK r \in Requests : acquireTurnAdmission(r)
    BY <1>3
  <2>2. admitted' = admitted \cup {r} /\ Cardinality(Channel(r)) < turnCapacity
    BY <2>1 DEF acquireTurnAdmission
  <2>3. CASE o.proc = r.proc /\ o.tenant = r.tenant
    <3>1. Channel(o) = Channel(r) /\ Channel(o)' \subseteq Channel(o) \cup {r}
      BY <2>2, <2>3 DEF Channel
    <3>2. IsFiniteSet(Channel(o) \cup {r})
      BY <1>1, FS_AddElement
    <3>3. Cardinality(Channel(o) \cup {r}) =< Cardinality(Channel(o)) + 1
      <4>1. CASE r \in Channel(o)
        <5>1. Channel(o) \cup {r} = Channel(o)
          BY <4>1
        <5>2. Cardinality(Channel(o) \cup {r}) = Cardinality(Channel(o))
          BY <5>1, Zenon
        <5> QED  BY <5>2, <1>1, SMT
      <4>2. CASE r \notin Channel(o)
        <5>1. Cardinality(Channel(o) \cup {r}) = Cardinality(Channel(o)) + 1
          BY <4>2, <1>1, FS_AddElement
        <5> QED  BY <5>1, <1>1
      <4> QED  BY <4>1, <4>2
    <3>4. Cardinality(Channel(o)') =< Cardinality(Channel(o) \cup {r})
      BY <3>1, <3>2, FS_Subset
    <3>5. IsFiniteSet(Channel(o)')
      BY <3>1, <3>2, FS_Subset
    <3>6. Cardinality(Channel(o)') \in Nat /\ Cardinality(Channel(o) \cup {r}) \in Nat
      BY <3>2, <3>5, FS_CardinalityType
    <3> QED  BY <1>0, <1>1, <2>2, <3>1, <3>3, <3>4, <3>6
  <2>4. CASE ~ (o.proc = r.proc /\ o.tenant = r.tenant)
    <3>1. Channel(o)' = Channel(o)
      BY <2>2, <2>4 DEF Channel
    <3> QED  BY <3>1 DEF Bounded
  <2> QED  BY <2>3, <2>4
<1>4. admitted' \subseteq admitted \/ \E r \in Requests : acquireTurnAdmission(r)
  BY DEF Next, Step, vars, AdmissionTimesOut, StartStamp, EndStamp, Connect, TryLock,
         QueueTimesOut, LockQueryFails, StartQuery, EndQuery, EndTurn, Release, SessionEnds
<1> QED  BY <1>2, <1>3, <1>4

LEMMA BoundedInvariance == Spec => []Bounded
<1>1. Init => Bounded
  <2> SUFFICES ASSUME Init, NEW r \in Requests
               PROVE  Cardinality(Channel(r)) =< turnCapacity
    BY DEF Bounded
  <2>1. Channel(r) = {}
    BY DEF Init, Channel
  <2>2. Cardinality({}) = 0
    BY FS_EmptySet
  <2> QED  BY <2>1, <2>2 DEF turnCapacity
<1>2. IInv /\ IInv' /\ Bounded /\ [Next]_vars => Bounded'
  BY StepBounded DEF IInv
<1> QED  BY <1>1, <1>2, Invariance, PTL DEF Spec

\* The service's variables keep their types, and no admission channel holds
\* more turns than turnCapacity allows (acquireTurnAdmission).
THEOREM GateTypes == Spec => []TypeOK
<1>1. IInv /\ Bounded => TypeOK
  BY DEF IInv, Typed, Bounded, TypeOK, Ended, turnCapacity
<1> QED  BY <1>1, Invariance, BoundedInvariance, PTL

\* "Admit at most half the pool so trace/tool/query work always has
\* capacity" is true of a process that serves a single tenant.
THEOREM OneTenantHasCapacity ==
  ASSUME \A r, o \in Requests : r.proc = o.proc => r.tenant = o.tenant
  PROVE  Spec => []WorkHasCapacity
<1>1. IInv /\ Bounded => WorkHasCapacity
  <2> SUFFICES ASSUME IInv, Bounded, NEW r \in Requests
               PROVE  2 * Cardinality(Of(session, r.proc)) =< MaxConns
    BY DEF WorkHasCapacity
  <2>1. session \subseteq admitted
    BY DEF IInv, Typed, Holds, Ended
  <2>2. Of(session, r.proc) \subseteq Channel(r)
    BY <2>1 DEF Of, Channel, IInv, Typed
  <2>3. IsFiniteSet(Channel(r)) /\ Cardinality(Channel(r)) \in Nat
    BY ChannelsAreFinite DEF IInv
  <2>4. /\ Cardinality(Of(session, r.proc)) =< Cardinality(Channel(r))
        /\ Cardinality(Of(session, r.proc)) \in Nat
    BY <2>2, <2>3, FS_Subset, FS_CardinalityType
  <2>5. Cardinality(Channel(r)) =< MaxConns \div 2
    BY DEF Bounded, turnCapacity
  <2> QED  BY <2>3, <2>4, <2>5
<1> QED  BY <1>1, Invariance, BoundedInvariance, PTL

\* In such a process turns never wait for each other's connections in a ring:
\* while a turn is at work, its pool has a free connection, or one that a
\* running statement gives back (StartQuery, EndQuery).
THEOREM TurnsNeverWedge ==
  ASSUME \A r, o \in Requests : r.proc = o.proc => r.tenant = o.tenant
  PROVE  Spec => [](\A r \in Requests : Running(r) => Free(r.proc) \/ Of(busy, r.proc) # {})
<1>1. IInv /\ WorkHasCapacity =>
        \A r \in Requests : Running(r) => Free(r.proc) \/ Of(busy, r.proc) # {}
  <2> SUFFICES ASSUME IInv, WorkHasCapacity, NEW r \in Requests, Running(r),
                      Of(busy, r.proc) = {}
               PROVE  Free(r.proc)
    OBVIOUS
  <2>1. r \in Of(session, r.proc) /\ Of(session, r.proc) \subseteq Requests
    BY DEF IInv, Typed, Holds, Running, Of
  <2>2. IsFiniteSet(Of(session, r.proc))
    BY <2>1, FS_Subset
  <2>3. Cardinality(Of(session, r.proc)) \in Nat
    BY <2>2, FS_CardinalityType
  <2>4. Cardinality(Of(session, r.proc)) # 0
    BY <2>1, <2>2, FS_EmptySet
  <2>5. Cardinality(Of(busy, r.proc)) = 0
    BY FS_EmptySet
  <2> QED  BY <2>3, <2>4, <2>5 DEF WorkHasCapacity, Free
<1> QED  BY <1>1, Invariance, OneTenantHasCapacity, PTL
=============================================================================
