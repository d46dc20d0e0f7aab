-------------------------- MODULE EventStreamProofs --------------------------
(***************************************************************************)
(* For any number of turns, events, batch sizes and dropped connections,   *)
(* the event stream keeps its order and its batch size whatever fails, and *)
(* has no gaps as long as no lock session ends under the turn it           *)
(* serialises.                                                             *)
(***************************************************************************)
EXTENDS EventStream, FiniteSetTheorems, WellFoundedInduction, TLAPS

\* Types, sharper than TypeOK: committed ids and the ids of open inserts were
\* taken from the identity column.
Typed ==
  /\ pc \in [Turns -> {"wait", "working", "inserted", "committed", "done"}]
  /\ id \in [Turns -> 0 .. MaxSeq]
  /\ lock \subseteq Turns /\ seq \in 0 .. MaxSeq /\ log \subseteq 1 .. seq
  /\ \A t \in Turns : pc[t] = "inserted" => id[t] \in 1 .. seq
  /\ got \in Seq(1 .. MaxSeq)
  /\ batch \subseteq log /\ Cardinality(batch) =< Limit
  /\ link \in {"up", "down", "closed"} /\ drops \in 0 .. MaxDrops /\ lost \in BOOLEAN

\* A widget that still reads is where the handler is; one that stopped is
\* where it received its last frame.  What is loaded is ahead of both.
InStep ==
  /\ link = "up" => last = cursor
  /\ cursor \in log \cup {0} /\ last \in log \cup {0}
  /\ \A e \in batch : cursor < e
  /\ \A i \in 1 .. Len(got) : got[i] =< last
  /\ link = "closed" => batch = {}

\* While no lock session ends early, a turn that may write holds the lock, and
\* nobody else does.
Serialised ==
  ~ lost =>
    /\ \A t \in Turns : pc[t] \in {"working", "inserted", "committed"} => t \in lock
    /\ \A t, u \in lock : t = u

\* So the id of an open insert is above every committed id: nothing commits
\* below what a reader has already seen.
Ascending ==
  ~ lost => \A t \in Turns : pc[t] = "inserted" => \A e \in log : e < id[t]

\* The handler's batch has every committed event between its cursor and any
\* event of the batch.
BatchIsPrefix ==
  ~ lost => \A e \in log, f \in batch : (cursor < e /\ e < f) => e \in batch

IInv == /\ Typed /\ InStep /\ ReceivedInOrder
        /\ Serialised /\ Ascending /\ BatchIsPrefix /\ ReplayHasNoGaps

USE EventStreamAssumption

LEMMA InitIInv == Init => IInv
<1> SUFFICES ASSUME Init PROVE IInv
  OBVIOUS
<1>1. Cardinality({}) = 0
  BY FS_EmptySet
<1>2. Typed
  <2>1. /\ pc \in [Turns -> {"wait", "working", "inserted", "committed", "done"}]
        /\ id \in [Turns -> 0 .. MaxSeq] /\ \A t \in Turns : pc[t] # "inserted"
    BY DEF Init
  <2>2. got \in Seq(1 .. MaxSeq) /\ Cardinality(batch) =< Limit
    BY <1>1 DEF Init
  <2>3. /\ lock \subseteq Turns /\ seq \in 0 .. MaxSeq /\ log \subseteq 1 .. seq
        /\ batch \subseteq log /\ link \in {"up", "down", "closed"} /\ drops \in 0 .. MaxDrops
    BY DEF Init
  <2>4. lost \in BOOLEAN
    BY Zenon DEF Init
  <2> QED  BY <2>1, <2>2, <2>3, <2>4 DEF Typed
<1> QED  BY <1>2 DEF Init, IInv, Serialised, Ascending, BatchIsPrefix, InStep,
                     ReplayHasNoGaps, ReceivedInOrder

-----------------------------------------------------------------------------
(* What EventsAfter returns.                                               *)

\* The natural numbers are well-founded.
LEMMA LeastNat ==
  ASSUME NEW T, T \subseteq Nat, T # {}
  PROVE  \E x \in T : \A y \in T : x =< y
<1> DEFINE Less == OpToRel(<, Nat)
<1>1. IsWellFoundedOn(Less, Nat)
  BY NatLessThanWellFounded, Zenon
<1>2. \A x, y \in Nat : x < y => <<x, y>> \in Less
  BY DEF OpToRel
<1> HIDE DEF Less
<1>3. PICK x \in T : \A y \in T : ~ (<<y, x>> \in Less)
  BY <1>1, WFMin
<1>4. ASSUME NEW y \in T
      PROVE  x =< y
  <2>1. x \in Nat /\ y \in Nat
    OBVIOUS
  <2>2. ~ (y < x)
    BY <1>2, <1>3, <2>1
  <2> QED  BY <2>1, <2>2
<1> QED  BY <1>4

\* A bounded set of numbers has a greatest one.
LEMMA Greatest ==
  ASSUME NEW n \in Nat, NEW T, T \subseteq 0 .. n, T # {}
  PROVE  \E x \in T : \A y \in T : y =< x
<1> DEFINE U == {n - x : x \in T}
<1>1. U \subseteq Nat /\ U # {}
  <2>1. \A x \in T : n - x \in Nat
    OBVIOUS
  <2> QED  BY <2>1
<1>2. PICK u \in U : \A v \in U : u =< v
  BY <1>1, LeastNat
<1>3. PICK x \in T : u = n - x
  OBVIOUS
<1>4. ASSUME NEW y \in T
      PROVE  y =< x
  <2>1. n - y \in U /\ n - x =< n - y
    BY <1>2, <1>3
  <2> QED  BY <2>1
<1> QED  BY <1>4

\* Sets of committed events are finite.
LEMMA LogIsFinite ==
  ASSUME Typed, NEW S, S \subseteq log
  PROVE  IsFiniteSet(S) /\ Cardinality(S) \in Nat
<1>1. IsFiniteSet(1 .. seq)
  BY FS_Interval DEF Typed
<1>2. S \subseteq 1 .. seq
  BY DEF Typed
<1> QED  BY <1>1, <1>2, FS_Subset, FS_CardinalityType

\* The events EventsAfter returns are a prefix of those after the cursor.
LEMMA LoadsAPrefix ==
  ASSUME Typed, NEW c \in Nat,
         NEW e \in log, NEW f \in EventsAfter(c), c < e, e < f
  PROVE  e \in EventsAfter(c)
<1> DEFINE below(x) == {g \in log : c < g /\ g < x}
<1>1. f \in log /\ Cardinality(below(f)) < Limit
  BY DEF EventsAfter
<1>2. below(e) \subseteq below(f)
  <2>1. e \in Nat /\ f \in Nat /\ log \subseteq Nat
    BY <1>1 DEF Typed
  <2>2. \A g \in log : g < e => g < f
    BY <2>1
  <2> QED  BY <2>2
<1>3. /\ IsFiniteSet(below(f)) /\ Cardinality(below(e)) \in Nat
      /\ Cardinality(below(f)) \in Nat
  BY LogIsFinite
<1>4. Cardinality(below(e)) =< Cardinality(below(f))
  BY <1>2, <1>3, FS_Subset
<1>5. Cardinality(below(e)) < Limit
  BY <1>1, <1>3, <1>4
<1> QED  BY <1>5 DEF EventsAfter

\* They are at most sseBatchLimit: fewer than Limit are below the last one.
LEMMA LoadsABatch ==
  ASSUME Typed, NEW c \in Nat
  PROVE  Cardinality(EventsAfter(c)) =< Limit
<1> DEFINE E == EventsAfter(c)
           below(x) == {g \in log : c < g /\ g < x}
<1>1. E \subseteq log
  BY DEF EventsAfter
<1>2. CASE E = {}
  BY <1>2, FS_EmptySet
<1>3. CASE E # {}
  <2>1. E \subseteq 0 .. MaxSeq
    <3>1. log \subseteq 0 .. MaxSeq
      BY DEF Typed
    <3> QED  BY <1>1, <3>1
  <2>2. PICK m \in E : \A e \in E : e =< m
    BY <1>3, <2>1, Greatest, Zenon
  <2>3. Cardinality(below(m)) < Limit
    BY <2>2 DEF EventsAfter
  <2>4. E \ {m} \subseteq below(m)
    <3> SUFFICES ASSUME NEW e \in E, e # m PROVE e \in below(m)
      OBVIOUS
    <3>1. e \in log /\ c < e
      BY DEF EventsAfter
    <3>2. e < m
      BY <2>1, <2>2
    <3> QED  BY <3>1, <3>2
  <2>5. IsFiniteSet(E) /\ IsFiniteSet(below(m))
        /\ Cardinality(E) \in Nat /\ Cardinality(below(m)) \in Nat
    BY <1>1, LogIsFinite
  <2>6. Cardinality(E \ {m}) =< Cardinality(below(m))
    BY <2>4, <2>5, FS_Subset
  <2>7. Cardinality(E \ {m}) = Cardinality(E) - 1
    BY <2>2, <2>5, FS_RemoveElement
  <2>8. Cardinality(E) =< Limit
    <3> HIDE DEF E, below
    <3> QED  BY <2>3, <2>5, <2>6, <2>7
  <2> QED  BY <2>8
<1> QED  BY <1>2, <1>3

-----------------------------------------------------------------------------
(* The inductive invariant.                                                *)

\* A step of a turn that commits nothing leaves the reader alone.
LEMMA TurnStepIInv ==
  ASSUME IInv, NEW t \in Turns, TurnStep(t)
  PROVE  IInv'
<1> USE DEF IInv
<1>a. ASSUME UNCHANGED <<log, sseVars>>, lost' = lost \/ lost' = TRUE, Typed',
             Serialised', Ascending'
      PROVE  IInv'
  <2>1. BatchIsPrefix' /\ ReplayHasNoGaps'
    BY <1>a DEF BatchIsPrefix, ReplayHasNoGaps, sseVars
  <2>2. InStep' /\ ReceivedInOrder'
    BY <1>a DEF InStep, ReceivedInOrder, sseVars
  <2> QED  BY <1>a, <2>1, <2>2
<1>1. CASE acquireConversationTurn(t)
  <2> USE <1>1 DEF acquireConversationTurn
  <2>1. Typed'
    BY DEF Typed, sseVars
  <2>2. Serialised'
    BY DEF Typed, Serialised
  <2>3. Ascending'
    BY DEF Typed, Ascending
  <2> QED  BY <1>a, <2>1, <2>2, <2>3
<1>2. CASE insertTurnEvent(t)
  <2> USE <1>2 DEF insertTurnEvent
  <2>1. Typed'
    <3>1. seq' \in 0 .. MaxSeq /\ seq + 1 \in 1 .. seq' /\ seq + 1 \in 0 .. MaxSeq
          /\ 1 .. seq \subseteq 1 .. seq'
      BY DEF Typed
    <3>2. \A u \in Turns : pc'[u] = "inserted" => id'[u] \in 1 .. seq'
      BY <3>1 DEF Typed
    <3> QED  BY <3>1, <3>2 DEF Typed, sseVars
  <2>2. Serialised'
    BY DEF Typed, Serialised
  <2>3. Ascending'
    <3> SUFFICES ASSUME ~ lost, NEW u \in Turns, pc'[u] = "inserted", NEW e \in log
                 PROVE  e < id'[u]
      BY DEF Ascending
    <3>1. CASE u = t
      BY <3>1 DEF Typed
    <3>2. CASE u # t
      BY <3>2 DEF Typed, Ascending
    <3> QED  BY <3>1, <3>2
  <2> QED  BY <1>a, <2>1, <2>2, <2>3
<1>3. CASE CommitTurn(t)
  <2> USE <1>3 DEF CommitTurn
  <2>1. id[t] \in 1 .. seq /\ id[t] \in Nat
    BY DEF Typed
  <2>2. Typed'
    <3>1. log' \subseteq 1 .. seq' /\ batch' \subseteq log'
      BY <2>1 DEF Typed, sseVars
    <3> QED  BY <2>1, <3>1 DEF Typed, sseVars
  <2>3. Serialised'
    BY DEF Typed, Serialised
  <2>4. Ascending'
    <3> SUFFICES ASSUME ~ lost, NEW u \in Turns, pc'[u] = "inserted"
                 PROVE  FALSE
      BY DEF Ascending
    <3>1. u # t /\ pc[u] = "inserted"
      BY DEF Typed
    <3>2. u \in lock /\ t \in lock
      BY <3>1 DEF Serialised
    <3> QED  BY <3>1, <3>2 DEF Serialised
  <2>5. InStep' /\ ReceivedInOrder'
    BY DEF InStep, ReceivedInOrder, sseVars
  \* The new event is above the cursor: the reader has not passed it.
  <2>6. ASSUME ~ lost
        PROVE  cursor < id[t] /\ last < id[t] /\ \A f \in batch : f < id[t]
    <3>1. \A e \in log : e < id[t]
      BY <2>6 DEF Ascending
    <3> QED  BY <2>1, <3>1 DEF InStep, Typed
  <2>7. BatchIsPrefix'
    <3> SUFFICES ASSUME ~ lost, NEW e \in log', NEW f \in batch, cursor < e, e < f
                 PROVE  e \in batch
      BY DEF BatchIsPrefix, sseVars
    <3>1. f \in Nat /\ f < id[t]
      BY <2>6 DEF Typed
    <3>2. e # id[t]
      BY <2>1, <3>1
    <3> QED  BY <3>2 DEF BatchIsPrefix
  <2>8. ReplayHasNoGaps'
    <3> SUFFICES ASSUME ~ lost, NEW e \in log', e =< last
                 PROVE  \E i \in 1 .. Len(got) : got[i] = e
      BY DEF ReplayHasNoGaps, sseVars
    <3>1. last \in Nat
      BY DEF InStep, Typed
    <3>2. e # id[t]
      BY <2>1, <2>6, <3>1
    <3> QED  BY <3>2 DEF ReplayHasNoGaps
  <2> QED  BY <2>2, <2>3, <2>4, <2>5, <2>7, <2>8
<1>4. CASE RollbackTurn(t)
  <2> USE <1>4 DEF RollbackTurn
  <2>1. Typed'
    BY DEF Typed, sseVars
  <2>2. Serialised'
    BY DEF Typed, Serialised
  <2>3. Ascending'
    BY DEF Typed, Ascending
  <2> QED  BY <1>a, <2>1, <2>2, <2>3
<1>5. CASE ReleaseTurn(t)
  <2> USE <1>5 DEF ReleaseTurn
  <2>1. Typed'
    BY DEF Typed, sseVars
  <2>2. Serialised'
    BY DEF Typed, Serialised
  <2>3. Ascending'
    BY DEF Typed, Ascending
  <2> QED  BY <1>a, <2>1, <2>2, <2>3
<1>6. CASE LockSessionEnds(t)
  <2> USE <1>6 DEF LockSessionEnds
  <2>1. Typed'
    BY DEF Typed, sseVars
  <2>2. Serialised' /\ Ascending'
    BY DEF Serialised, Ascending
  <2> QED  BY <1>a, <2>1, <2>2
<1> QED  BY <1>1, <1>2, <1>3, <1>4, <1>5, <1>6 DEF TurnStep

\* A step of the stream leaves the turns and the log alone.
LEMMA StreamStepIInv ==
  ASSUME IInv, Poll \/ WriteFrame \/ LinkFails \/ CloseStream \/ Reconnect \/ Reload
  PROVE  IInv'
<1> USE DEF IInv
<1>a. ASSUME UNCHANGED turnVars, Typed', InStep', ReceivedInOrder', BatchIsPrefix',
             ReplayHasNoGaps'
      PROVE  IInv'
  <2>1. Serialised' /\ Ascending'
    BY <1>a DEF Serialised, Ascending, turnVars
  <2> QED  BY <1>a, <2>1
<1>b. /\ cursor \in Nat /\ last \in Nat /\ log \subseteq Nat \ {0}
      /\ \A e \in log : e \in 1 .. MaxSeq
  BY DEF InStep, Typed
<1>c. Cardinality({}) = 0
  BY FS_EmptySet
<1>1. CASE Poll
  <2> USE <1>1 DEF Poll
  <2>1. EventsAfter(cursor) \subseteq log /\ \A e \in EventsAfter(cursor) : cursor < e
    BY <1>b DEF EventsAfter
  <2>2. Cardinality(EventsAfter(cursor)) =< Limit
    BY <1>b, LoadsABatch
  <2>3. Typed'
    BY <2>1, <2>2 DEF Typed, turnVars
  <2>4. InStep' /\ ReplayHasNoGaps' /\ ReceivedInOrder'
    BY <2>1 DEF InStep, ReplayHasNoGaps, ReceivedInOrder, turnVars
  <2>5. BatchIsPrefix'
    <3>1. \A e \in log, f \in EventsAfter(cursor) :
            (cursor < e /\ e < f) => e \in EventsAfter(cursor)
      BY <1>b, LoadsAPrefix
    <3> QED  BY <3>1 DEF BatchIsPrefix, turnVars
  <2> QED  BY <1>a, <2>3, <2>4, <2>5
<1>2. CASE WriteFrame
  <2>1. PICK e \in batch :
          /\ \A f \in batch : e =< f
          /\ cursor' = e
          /\ batch' = batch \ {e}
          /\ IF link = "up" THEN last' = e /\ got' = Append(got, e)
                            ELSE UNCHANGED <<last, got>>
    BY <1>2 DEF WriteFrame
  <2>2. UNCHANGED <<turnVars, link, drops>> /\ link # "closed"
    BY <1>2 DEF WriteFrame
  <2>3. e \in log /\ e \in Nat /\ e \in 1 .. MaxSeq /\ cursor < e
    BY <1>b DEF Typed, InStep
  <2>4. Typed'
    <3>1. got' \in Seq(1 .. MaxSeq)
      <4>1. CASE link = "up"
        <5>1. got' = Append(got, e) /\ got \in Seq(1 .. MaxSeq)
          BY <4>1, <2>1 DEF Typed
        <5> QED  BY <5>1, <2>3
      <4>2. CASE link # "up"
        <5>1. got' = got
          BY <4>2, <2>1
        <5> QED  BY <5>1 DEF Typed
      <4> QED  BY <4>1, <4>2
    <3>2. batch' \subseteq log /\ batch' \subseteq batch
      BY <2>1, <2>3 DEF Typed
    <3>3. IsFiniteSet(batch) /\ Cardinality(batch) \in Nat /\ Cardinality(batch') \in Nat
      BY <3>2, LogIsFinite DEF Typed
    <3>4. Cardinality(batch') =< Cardinality(batch)
      BY <3>2, <3>3, FS_Subset
    <3>5. Cardinality(batch') =< Limit
      BY <3>3, <3>4 DEF Typed
    <3> QED  BY <2>2, <3>1, <3>2, <3>5 DEF Typed, turnVars
  <2>5. \A f \in batch' : e < f /\ f \in batch /\ f \in Nat
    BY <2>1, <2>3, <1>b DEF Typed
  <2>6. BatchIsPrefix'
    <3> SUFFICES ASSUME ~ lost, NEW x \in log, NEW f \in batch', e < x, x < f
                 PROVE  x \in batch'
      BY <2>1, <2>2 DEF BatchIsPrefix, turnVars
    <3>1. cursor < x /\ x # e /\ f \in batch
      BY <1>b, <2>3, <2>5
    <3> QED  BY <2>1, <3>1 DEF BatchIsPrefix
  <2>7. CASE link = "up"
    <3>1. last' = e /\ got' = Append(got, e) /\ last = cursor
      BY <2>1, <2>7 DEF InStep
    <3>2. /\ Len(got) \in Nat /\ Len(got') = Len(got) + 1 /\ got'[Len(got) + 1] = e
          /\ \A i \in 1 .. Len(got) : got'[i] = got[i] /\ got[i] \in Nat
      BY <2>3, <3>1 DEF Typed
    <3>3. \A i \in 1 .. Len(got) : got[i] < e
      BY <1>b, <2>3, <3>1, <3>2 DEF InStep
    <3>4. InStep'
      BY <2>1, <2>2, <2>3, <2>5, <3>1, <3>2, <3>3 DEF InStep, turnVars
    <3>5. ReplayHasNoGaps'
      <4> SUFFICES ASSUME ~ lost, NEW x \in log, x =< e
                   PROVE  \E i \in 1 .. Len(got') : got'[i] = x
        BY <2>2, <3>1 DEF ReplayHasNoGaps, turnVars
      <4>1. CASE x =< last
        BY <4>1, <3>2 DEF ReplayHasNoGaps
      <4>2. CASE x = e
        BY <4>2, <3>2
      <4>3. CASE cursor < x /\ x < e
        BY <4>3, <1>b, <2>1, <2>3 DEF BatchIsPrefix
      <4> QED  BY <4>1, <4>2, <4>3, <1>b, <2>3, <3>1
    <3>6. ReceivedInOrder'
      <4> SUFFICES ASSUME NEW i \in 1 .. Len(got'), NEW j \in 1 .. Len(got'), i < j
                   PROVE  got'[i] < got'[j]
        BY DEF ReceivedInOrder
      <4>1. CASE j = Len(got) + 1
        BY <4>1, <3>2, <3>3
      <4>2. CASE j \in 1 .. Len(got)
        BY <4>2, <3>2 DEF ReceivedInOrder
      <4> QED  BY <4>1, <4>2, <3>2
    <3> QED  BY <1>a, <2>2, <2>4, <2>6, <3>4, <3>5, <3>6
  <2>8. CASE link # "up"
    <3>1. UNCHANGED <<last, got>>
      BY <2>1, <2>8
    <3>2. InStep' /\ ReplayHasNoGaps' /\ ReceivedInOrder'
      BY <2>1, <2>2, <2>3, <2>5, <2>8, <3>1
         DEF InStep, ReplayHasNoGaps, ReceivedInOrder, turnVars
    <3> QED  BY <1>a, <2>2, <2>4, <2>6, <3>2
  <2> QED  BY <2>7, <2>8
<1>3. CASE LinkFails
  BY <1>3, <1>a DEF LinkFails, Typed, BatchIsPrefix, InStep, ReplayHasNoGaps,
                    ReceivedInOrder, turnVars
<1>4. CASE CloseStream
  <2> USE <1>4 DEF CloseStream
  <2>1. Typed'
    BY <1>c DEF Typed, turnVars
  <2>2. InStep' /\ BatchIsPrefix' /\ ReplayHasNoGaps' /\ ReceivedInOrder'
    BY DEF BatchIsPrefix, InStep, ReplayHasNoGaps, ReceivedInOrder, turnVars
  <2> QED  BY <1>a, <2>1, <2>2
<1>5. CASE Reconnect
  BY <1>5, <1>a DEF Reconnect, Typed, BatchIsPrefix, InStep, ReplayHasNoGaps,
                    ReceivedInOrder, turnVars
<1>6. CASE Reload
  <2>1. got' = <<>> /\ last' = 0 /\ cursor' = 0 /\ batch' = {} /\ link' = "up"
        /\ UNCHANGED <<turnVars, drops>>
    BY <1>6 DEF Reload, InStep
  <2>2. Typed'
    BY <1>c, <2>1 DEF Typed, turnVars
  <2>3. BatchIsPrefix' /\ InStep' /\ ReceivedInOrder'
    BY <2>1 DEF BatchIsPrefix, InStep, ReceivedInOrder, turnVars
  <2>4. ReplayHasNoGaps'
    BY <1>b, <2>1 DEF ReplayHasNoGaps, turnVars
  <2> QED  BY <1>a, <2>1, <2>2, <2>3, <2>4
<1> QED  BY <1>1, <1>2, <1>3, <1>4, <1>5, <1>6

LEMMA NextIInv == IInv /\ [Next]_vars => IInv'
<1> SUFFICES ASSUME IInv, [Next]_vars
             PROVE  IInv'
  OBVIOUS
<1>1. CASE \E t \in Turns : TurnStep(t)
  BY <1>1, TurnStepIInv
<1>2. CASE OtherInsert
  <2>1. Typed'
    <3>1. seq' \in 0 .. MaxSeq /\ 1 .. seq \subseteq 1 .. seq'
      BY <1>2 DEF OtherInsert, IInv, Typed
    <3> QED  BY <1>2, <3>1 DEF OtherInsert, IInv, Typed, sseVars
  <2> QED  BY <1>2, <2>1 DEF OtherInsert, IInv, Serialised, Ascending, BatchIsPrefix, InStep,
                             ReplayHasNoGaps, ReceivedInOrder, sseVars
<1>3. CASE Poll \/ WriteFrame \/ LinkFails \/ CloseStream \/ Reconnect \/ Reload
  BY <1>3, StreamStepIInv
<1>4. CASE UNCHANGED vars
  BY <1>4 DEF vars, IInv, Typed, Serialised, Ascending, BatchIsPrefix, InStep,
              ReplayHasNoGaps, ReceivedInOrder
<1> QED  BY <1>1, <1>2, <1>3, <1>4 DEF Next

LEMMA Invariance == Spec => []IInv
  BY InitIInv, NextIInv, PTL DEF Spec

\* EventsAfter returns at most sseBatchLimit events, and cursors, frames and
\* batches are ids of committed events of the conversation.
THEOREM StreamTypes == Spec => []TypeOK
<1>1. IInv => TypeOK
  BY DEF IInv, Typed, InStep, TypeOK
<1> QED  BY <1>1, Invariance, PTL

\* Frames reach the widget once and in id order, also when a lock session
\* ends under its turn.
THEOREM StreamKeepsOrder == Spec => []ReceivedInOrder
<1>1. IInv => ReceivedInOrder
  BY DEF IInv
<1> QED  BY <1>1, Invariance, PTL

\* EventsAfter's cursor never passes an event that commits later, because
\* the conversation's lock keeps two inserts from being open at once: a
\* widget that resumes with its Last-Event-ID misses nothing below it.
THEOREM StreamHasNoGaps == Spec => []ReplayHasNoGaps
<1>1. IInv => ReplayHasNoGaps
  BY DEF IInv
<1> QED  BY <1>1, Invariance, PTL
=============================================================================
