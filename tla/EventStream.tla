----------------------------- MODULE EventStream -----------------------------
(***************************************************************************)
(* One conversation's durable event stream: turns that write a             *)
(* turn_completed event in the transaction of their reply, under the       *)
(* conversation's advisory lock (internal/app/service.go), and the SSE     *)
(* handler that replays and follows them for a widget that loses its       *)
(* connection and resumes with Last-Event-ID                               *)
(* (internal/channels/demohttp/sse.go, internal/conversations/events.go).  *)
(*                                                                         *)
(* Event ids come from an identity column: an insert takes the next number *)
(* at once, whoever asks, and the row is seen when its transaction commits.*)
(***************************************************************************)
EXTENDS Integers, Sequences, FiniteSets, FiniteSetsExt

CONSTANTS Turns,       \* turns of the conversation
          Limit,       \* sseBatchLimit
          MaxSeq,      \* bound: event ids taken
          MaxDrops     \* bound: connections that end

ASSUME EventStreamAssumption ==
  Limit \in Nat \ {0} /\ MaxSeq \in Nat /\ MaxDrops \in Nat

VARIABLES
  pc, id,   \* each turn's step and the id its open transaction inserted
  lock,     \* the turns whose session holds the conversation's lock
  seq,      \* the identity column's last number
  log,      \* ids of the committed events of the conversation
  cursor,   \* the SSE handler's cursor
  batch,    \* events it loaded and has not written
  link,     \* the connection: up, down (nobody reads it any more), closed
  last, got,    \* what the widget received: the Last-Event-ID, and every id
  drops,    \* connections lost so far
  lost      \* history: a lock's database session ended under its turn

vars == <<pc, id, lock, seq, log, cursor, batch, link, last, got, drops, lost>>
turnVars == <<pc, id, lock, seq, log, lost>>
sseVars == <<cursor, batch, link, last, got, drops>>

Init ==
  /\ pc = [t \in Turns |-> "wait"] /\ id = [t \in Turns |-> 0]
  /\ lock = {} /\ seq = 0 /\ log = {}
  /\ cursor = 0 /\ batch = {} /\ link = "up"
  /\ last = 0 /\ got = <<>> /\ drops = 0 /\ lost = FALSE

-----------------------------------------------------------------------------
(* The turns.                                                              *)

\* A turn that writes without taking the conversation's lock.
acquireConversationTurn_Free(t) ==
  /\ pc[t] = "wait"
  /\ lock' = lock \cup {t}
  /\ pc' = [pc EXCEPT ![t] = "working"]
  /\ UNCHANGED <<id, seq, log, lost, sseVars>>

acquireConversationTurn(t) ==
  /\ pc[t] = "wait" /\ lock = {}
  /\ lock' = {t}
  /\ pc' = [pc EXCEPT ![t] = "working"]
  /\ UNCHANGED <<id, seq, log, lost, sseVars>>

insertTurnEvent(t) ==
  /\ pc[t] = "working" /\ seq < MaxSeq
  /\ seq' = seq + 1
  /\ id' = [id EXCEPT ![t] = seq + 1]
  /\ pc' = [pc EXCEPT ![t] = "inserted"]
  /\ UNCHANGED <<lock, log, lost, sseVars>>

CommitTurn(t) ==
  /\ pc[t] = "inserted"
  /\ log' = log \cup {id[t]}
  /\ pc' = [pc EXCEPT ![t] = "committed"]
  /\ UNCHANGED <<id, lock, seq, lost, sseVars>>

\* The transaction fails; the failure path may write an event of its own.
RollbackTurn(t) ==
  /\ pc[t] = "inserted"
  /\ pc' = [pc EXCEPT ![t] = "working"]
  /\ UNCHANGED <<id, lock, seq, log, lost, sseVars>>

\* The deferred release, and the end of the process (its transaction rolls
\* back, its session and the lock go with it).
ReleaseTurn(t) ==
  /\ pc[t] \in {"working", "inserted", "committed"}
  /\ pc' = [pc EXCEPT ![t] = "done"]
  /\ lock' = lock \ {t}
  /\ UNCHANGED <<id, seq, log, lost, sseVars>>

\* An insert of another conversation takes a number of the same column.
OtherInsert ==
  /\ seq < MaxSeq
  /\ seq' = seq + 1
  /\ UNCHANGED <<pc, id, lock, log, lost, sseVars>>

\* The lock's session ends under a turn that goes on with other connections.
LockSessionEnds(t) ==
  /\ t \in lock /\ pc[t] \in {"working", "inserted"}
  /\ lock' = lock \ {t} /\ lost' = TRUE
  /\ UNCHANGED <<pc, id, seq, log, sseVars>>

-----------------------------------------------------------------------------
(* The stream.                                                             *)

\* Events below the newest id taken.
EventsAfter_BelowNewest(after) ==
  {e \in log : /\ after < e /\ e < seq
              /\ Cardinality({f \in log : after < f /\ f < e}) < Limit}

EventsAfter(after) ==
  {e \in log : e > after /\ Cardinality({f \in log : after < f /\ f < e}) < Limit}

Poll ==
  /\ link # "closed" /\ batch = {}
  /\ batch' = EventsAfter(cursor)
  /\ UNCHANGED <<turnVars, cursor, link, last, got, drops>>

\* One frame, in id order.  While nobody reads, it is written to nobody.
WriteFrame ==
  /\ link # "closed"
  /\ \E e \in batch :
       /\ \A f \in batch : e =< f
       /\ cursor' = e
       /\ batch' = batch \ {e}
       /\ IF link = "up" THEN last' = e /\ got' = Append(got, e)
                         ELSE UNCHANGED <<last, got>>
  /\ UNCHANGED <<turnVars, link, drops>>

\* The network fails; the server has not noticed.
LinkFails ==
  /\ link = "up" /\ drops < MaxDrops
  /\ link' = "down" /\ drops' = drops + 1
  /\ UNCHANGED <<turnVars, cursor, batch, last, got>>

\* The handler returns: a write or load error, the age limit, a restart.
CloseStream ==
  /\ \/ link = "down" /\ drops' = drops
     \/ link = "up" /\ drops < MaxDrops /\ drops' = drops + 1
  /\ link' = "closed" /\ batch' = {}
  /\ UNCHANGED <<turnVars, cursor, last, got>>

CloseDead == link = "down" /\ CloseStream

\* The widget reconnects and names the last id it received.
Reconnect ==
  /\ link = "closed"
  /\ cursor' = last
  /\ link' = "up"
  /\ UNCHANGED <<turnVars, batch, last, got, drops>>

\* A new page has no Last-Event-ID: zero replays the whole stream.
Reload ==
  /\ link = "closed"
  /\ cursor' = 0 /\ last' = 0 /\ got' = <<>>
  /\ link' = "up"
  /\ UNCHANGED <<turnVars, batch, drops>>

TurnStep(t) == \/ acquireConversationTurn(t) \/ insertTurnEvent(t) \/ CommitTurn(t)
               \/ RollbackTurn(t) \/ ReleaseTurn(t) \/ LockSessionEnds(t)

Next == \/ \E t \in Turns : TurnStep(t)
        \/ OtherInsert
        \/ Poll \/ WriteFrame \/ LinkFails \/ CloseStream \/ Reconnect \/ Reload

Spec == Init /\ [][Next]_vars

\* The handler polls and writes as long as it runs, a dead connection is
\* noticed by its write deadline, and the widget reconnects.
FairSpec == /\ Spec
            /\ WF_vars(Poll) /\ WF_vars(WriteFrame)
            /\ WF_vars(CloseDead) /\ WF_vars(Reconnect)

-----------------------------------------------------------------------------
\* Types; the handler never has more than one batch in hand.
TypeOK ==
  /\ pc \in [Turns -> {"wait", "working", "inserted", "committed", "done"}]
  /\ id \in [Turns -> 0 .. MaxSeq]
  /\ lock \subseteq Turns /\ seq \in 0 .. MaxSeq /\ log \subseteq 1 .. MaxSeq
  /\ cursor \in 0 .. MaxSeq /\ last \in 0 .. MaxSeq /\ got \in Seq(1 .. MaxSeq)
  /\ batch \subseteq log /\ Cardinality(batch) =< Limit
  /\ link \in {"up", "down", "closed"} /\ drops \in 0 .. MaxDrops /\ lost \in BOOLEAN

\* Clients "replay from Last-Event-ID without gaps": of the committed events
\* up to the last one the widget received, it received every one, as long as
\* no lock session ended under its turn.  (After that an id may be taken
\* earlier and committed later than another, and is skipped for good.)
ReplayHasNoGaps ==
  ~ lost => \A e \in log : e =< last => \E i \in 1 .. Len(got) : got[i] = e

\* No event is received twice or out of order, over any number of dropped
\* connections.
ReceivedInOrder ==
  \A i, j \in 1 .. Len(got) : i < j => got[i] < got[j]

\* A committed event reaches the widget, over dropped connections and
\* however many frames were written to nobody, as long as no lock session ends.
EventsArrive ==
  \A e \in 1 .. MaxSeq : (e \in log) ~> (lost \/ \E i \in 1 .. Len(got) : got[i] = e)

=============================================================================
