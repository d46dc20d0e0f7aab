------------------------------ MODULE Telegram ------------------------------
(***************************************************************************)
(* The Telegram webhook (internal/channels/telegram webhook.go and         *)
(* multitenant.go ServeHTTP, claimUpdate) with the conversation mapping it *)
(* creates on first contact (internal/conversations/store.go               *)
(* EnsureChannelConversation).  Telegram delivers an update until some     *)
(* delivery is answered 2xx; a delivery may start while an earlier one of  *)
(* the same update is still being handled.                                 *)
(***************************************************************************)
EXTENDS Integers, FiniteSets

CONSTANTS Updates,      \* text messages of private chats
          Chat,         \* the chat of each update
          Workers,      \* deliveries that can be handled at a time
          MaxFailures   \* bound: requests that fail or are cut off

VARIABLES
  worker,     \* what each handles: [step, update, conv]
  rows,       \* the committed conversation rows: [chat, by]
  customers,  \* the committed customer rows, by the worker and update that made them
  claimed,    \* telegram_updates
  handled,    \* how each update's turn ended, if one ran
  turns,      \* how many turns each update started
  acked,      \* updates answered 200
  failures,   \* failures so far
  cut         \* history: updates whose claim was recorded by a worker that died
              \* before the turn, or whose statement reported an error

vars == <<worker, rows, customers, claimed, handled, turns, acked, failures, cut>>

Nobody == [by |-> "nobody"]
Idle == [step |-> "idle", update |-> "none", conv |-> Nobody]

Init ==
  /\ worker = [w \in Workers |-> Idle]
  /\ rows = {} /\ customers = {} /\ claimed = {}
  /\ handled = [u \in Updates |-> "no"]
  /\ turns = [u \in Updates |-> 0]
  /\ acked = {} /\ failures = 0 /\ cut = {}

Handling(w) == worker[w].update
Goto(w, step) == worker' = [worker EXCEPT ![w].step = step]
Row(chat) == {r \in rows : r.chat = chat}

\* A statement that fails: the answer is not 2xx, an open transaction rolls
\* back, and Telegram will deliver the update again.
Refused(w) ==
  /\ failures < MaxFailures
  /\ failures' = failures + 1
  /\ worker' = [worker EXCEPT ![w] = Idle]

Acknowledge(w) ==
  /\ acked' = acked \cup {Handling(w)}
  /\ worker' = [worker EXCEPT ![w] = Idle]

-----------------------------------------------------------------------------
\* The update is claimed as it arrives.
Deliver_Claims(w, u) ==
  /\ worker[w].step = "idle" /\ u \notin acked
  /\ IF u \in claimed
     THEN acked' = acked \cup {u} /\ UNCHANGED worker
     ELSE /\ worker' = [worker EXCEPT ![w] = [Idle EXCEPT !.step = "lookup", !.update = u]]
          /\ UNCHANGED acked
  /\ claimed' = claimed \cup {u}
  /\ UNCHANGED <<rows, customers, handled, turns, failures, cut>>

\* Telegram sends an update it has no 2xx for; the secret and the body are
\* accepted, the tenant and its runtime resolved.
Deliver(w, u) ==
  /\ worker[w].step = "idle" /\ u \notin acked
  /\ worker' = [worker EXCEPT ![w] = [Idle EXCEPT !.step = "lookup", !.update = u]]
  /\ UNCHANGED <<rows, customers, claimed, handled, turns, acked, failures, cut>>

\* channelConversation: the mapping, or the first contact that has to make it.
Lookup(w) ==
  /\ worker[w].step \in {"lookup", "adopt"}
  /\ \E r \in Row(Chat[Handling(w)]) :
       worker' = [worker EXCEPT ![w].step = "claim", ![w].conv = r]
  /\ UNCHANGED <<rows, customers, claimed, handled, turns, acked, failures, cut>>

LookupMisses(w) ==
  /\ worker[w].step = "lookup" /\ Row(Chat[Handling(w)]) = {}
  /\ Goto(w, "insert")
  /\ UNCHANGED <<rows, customers, claimed, handled, turns, acked, failures, cut>>

\* Workers whose open transaction holds the chat's row.
Inserting(chat) ==
  {w \in Workers : worker[w].step = "commit" /\ Chat[Handling(w)] = chat}

\* An insert that does not ask the unique index.
InsertConversation_Blind(w) ==
  /\ worker[w].step = "insert"
  /\ Goto(w, "commit")
  /\ UNCHANGED <<rows, customers, claimed, handled, turns, acked, failures, cut>>

\* The customer and the conversation are inserted in one transaction.  An
\* uncommitted row of the chat makes the insert wait, a committed one makes it
\* do nothing: the transaction is rolled back and the row adopted.
InsertConversation(w) ==
  LET chat == Chat[Handling(w)]
  IN /\ worker[w].step = "insert"
     /\ Inserting(chat) = {}
     /\ Goto(w, IF Row(chat) = {} THEN "commit" ELSE "adopt")
     /\ UNCHANGED <<rows, customers, claimed, handled, turns, acked, failures, cut>>

CommitConversation(w) ==
  LET made == [chat |-> Chat[Handling(w)], by |-> <<w, Handling(w)>>]
  IN /\ worker[w].step = "commit"
     /\ rows' = rows \cup {made}
     /\ customers' = customers \cup {made}
     /\ Goto(w, "adopt")
     /\ UNCHANGED <<claimed, handled, turns, acked, failures, cut>>

\* Anything before the claim that fails: the tenant's runtime, the lookup,
\* either insert, the commit.
MappingFails(w) ==
  /\ worker[w].step \in {"lookup", "insert", "commit", "adopt"}
  /\ Refused(w)
  /\ UNCHANGED <<rows, customers, claimed, handled, turns, acked, cut>>

\* A claim that takes any update not being handled by another worker.
claimUpdate_Memory(w) ==
  /\ worker[w].step = "claim"
  /\ claimed' = claimed \cup {Handling(w)}
  /\ IF \E v \in Workers \ {w} : worker[v].update = Handling(w) /\ worker[v].step = "turn"
     THEN Acknowledge(w) ELSE Goto(w, "turn") /\ UNCHANGED acked
  /\ UNCHANGED <<rows, customers, handled, turns, failures, cut>>

\* A known update is refused instead of acknowledged.
claimUpdate_Conflict(w) ==
  /\ worker[w].step = "claim"
  /\ claimed' = claimed \cup {Handling(w)}
  /\ IF Handling(w) \in claimed
     THEN worker' = [worker EXCEPT ![w] = Idle] ELSE Goto(w, "turn")
  /\ UNCHANGED <<rows, customers, handled, turns, acked, failures, cut>>

\* The first delivery records the update; any other is acknowledged.
claimUpdate(w) ==
  /\ worker[w].step = "claim"
  /\ claimed' = claimed \cup {Handling(w)}
  /\ IF Handling(w) \in claimed
     THEN Acknowledge(w) ELSE Goto(w, "turn") /\ UNCHANGED acked
  /\ UNCHANGED <<rows, customers, handled, turns, failures, cut>>

\* The claim fails.  Its row may have been committed all the same.
ClaimFails(w) ==
  /\ worker[w].step = "claim"
  /\ Refused(w)
  /\ \/ UNCHANGED <<claimed, cut>>
     \/ /\ claimed' = claimed \cup {Handling(w)}
        /\ cut' = IF Handling(w) \in claimed THEN cut ELSE cut \cup {Handling(w)}
  /\ UNCHANGED <<rows, customers, handled, turns, acked>>

\* SendMessage: a reply, the overload error, or another failure.
SendMessage(w) ==
  /\ worker[w].step = "turn"
  /\ turns' = [turns EXCEPT ![Handling(w)] = @ + 1]
  /\ \E outcome \in {"replied", "overloaded", "failed"} :
       handled' = [handled EXCEPT ![Handling(w)] = outcome]
  /\ Goto(w, "reply")
  /\ UNCHANGED <<rows, customers, claimed, acked, failures, cut>>

\* The reply is sent, or is not: the update is acknowledged either way.
SendReply(w) ==
  /\ worker[w].step = "reply"
  /\ Acknowledge(w)
  /\ UNCHANGED <<rows, customers, claimed, handled, turns, failures, cut>>

\* The answer does not reach Telegram, or the process ends.
Crash(w) ==
  /\ worker[w].step # "idle"
  /\ Refused(w)
  /\ cut' = IF worker[w].step = "turn" THEN cut \cup {Handling(w)} ELSE cut
  /\ UNCHANGED <<rows, customers, claimed, handled, turns, acked>>

Step(w) == \/ \E u \in Updates : Deliver(w, u)
           \/ Lookup(w) \/ LookupMisses(w) \/ InsertConversation(w)
           \/ CommitConversation(w) \/ MappingFails(w)
           \/ claimUpdate(w) \/ ClaimFails(w) \/ SendMessage(w) \/ SendReply(w)
           \/ Crash(w)

Next == \E w \in Workers : Step(w)

Spec == Init /\ [][Next]_vars

\* A worker that has a request goes on with it, and Telegram goes on
\* delivering what was not acknowledged.
Handle(w) == \/ Lookup(w) \/ LookupMisses(w) \/ InsertConversation(w)
             \/ CommitConversation(w) \/ claimUpdate(w) \/ SendMessage(w) \/ SendReply(w)

FairSpec ==
  /\ Spec
  /\ \A u \in Updates : SF_vars(\E w \in Workers : Deliver(w, u))
  /\ \A w \in Workers : WF_vars(Handle(w))

-----------------------------------------------------------------------------
\* A redelivered update runs no second turn, however its deliveries overlap
\* and whatever fails between the claim and the answer.
AtMostOneTurn == \A u \in Updates : turns[u] =< 1

\* "Concurrent first messages for the same identity resolve to a single
\* conversation": one row per chat, every delivery of the chat that has a
\* conversation has that row, and no customer row is left without one.
OneConversationPerChat ==
  /\ \A r, s \in rows : r.chat = s.chat => r = s
  /\ \A w \in Workers : worker[w].conv # Nobody =>
       worker[w].conv \in rows /\ worker[w].conv.chat = Chat[Handling(w)]
  /\ customers = rows

\* The mapping is made before the claim so that no error "would claim the
\* update and silently drop the customer's message": an update Telegram will
\* not deliver again had its turn, or is having it, unless its worker died
\* between the two or the claim was recorded and reported as failed.
NoUpdateDropped ==
  \A u \in (acked \cup claimed) \ cut :
    \/ handled[u] # "no"
    \/ \E w \in Workers : Handling(w) = u

\* Every update is acknowledged in the end.
UpdatesAcknowledged == \A u \in Updates : <>(u \in acked)

=============================================================================
