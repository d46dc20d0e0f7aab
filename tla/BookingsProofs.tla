--------------------------- MODULE BookingsProofs ---------------------------
(***************************************************************************)
(* Proofs about Bookings, for any number of calls, bookings, staff members *)
(* and requests.                                                           *)
(***************************************************************************)
EXTENDS Bookings, TLAPS



\* The shape of the state.
Shapes ==
    /\ row \in [Bookings -> RowType]
    /\ req \in [Calls -> Requests \cup {None}]
    /\ pc \in [Calls -> {"idle", "begin", "returned"} \cup Open]
    /\ DOMAIN snap = Calls /\ DOMAIN tx = Calls
    /\ \A c \in Calls : snap[c].row \in RowType
    /\ \A r \in recs : r.booking \in Bookings \cup {None}
    /\ \A c \in Calls : pc[c] # "idle" => req[c] \in Requests
    /\ \A c \in Calls : ~Writing(c) => tx[c] = NoTx
    /\ \A c \in Calls : pc[c] = "load" => req[c].op # "create"

\* A call that locked a booking's row holds it alone, and the row is still what
\* its snapshot shows and its checks approved.
RowLocks ==
    \A c \in Calls : pc[c] \in Working /\ req[c].op # "create" =>
        /\ Active(snap[c].row)
        /\ row[req[c].booking] = snap[c].row
        /\ Expected(c)
        /\ \A d \in Calls \ {c} : ~HoldsRow(d, req[c].booking)

\* A call that reserved a key is the only one, and no record has it.
KeyLocks ==
    \A c \in Calls : Reserved(c) =>
        /\ Recorded(KeyOf(c)) = {}
        /\ \A d \in Calls \ {c} : Reserved(d) => KeyOf(d) # KeyOf(c)

\* What an uncommitted bookings row looks like; two calls write different rows.
Writes ==
    \A c \in Calls : Writing(c) =>
        /\ tx[c].booking \in Bookings
        /\ tx[c].new \in RowType \ {NoRow}
        /\ req[c].op = "create" => row[tx[c].booking] = NoRow
        /\ req[c].op # "create" => tx[c].booking = req[c].booking
        /\ req[c].op = "cancel" <=> ~Active(tx[c].new)
        /\ \A d \in Calls \ {c} : tx[d].booking # tx[c].booking

\* The rows the exclusion constraint has let through do not clash with a
\* committed row or with one another.
Apart ==
    \A c \in Calls : pc[c] = "commit" /\ Active(tx[c].new) =>
        /\ \A b \in Bookings \ {tx[c].booking} :
              Active(row[b]) => ~Clash(row[b].place, tx[c].new.place)
        /\ \A d \in Calls \ {c} :
              pc[d] = "commit" /\ Active(tx[d].new) => ~Clash(tx[d].new.place, tx[c].new.place)

\* An event belongs to a call that returned, and its key is recorded.
History ==
    \A e \in events :
        /\ e.call \in Calls /\ pc[e.call] = "returned"
        /\ KeyOf(e.call) # None => Recorded(KeyOf(e.call)) # {}

IInv ==
    /\ Shapes /\ RowLocks /\ KeyLocks /\ Writes /\ Apart /\ NoDoubleBooking
    /\ History /\ OneEffectPerKey /\ OperatorChangesWhatTheySaw

-----------------------------------------------------------------------------
(* Facts about the operators.                                              *)

\* The exclusion constraint's overlap operator is symmetric.
LEMMA ClashSymmetric == \A p, q : Clash(p, q) <=> Clash(q, p)
  BY Zenon DEF Clash

\* Only confirmed rows are active, and they have a place.
LEMMA ActiveRows == \A r \in RowType : Active(r) => r.place \in Places
  BY ConstantsAssumption DEF RowType, Active, NoRow

\* The rows there are at the start, of Existing.
LEMMA InitialRows ==
  /\ \A b \in Bookings : InitialRow(b) \in RowType
  /\ \A b \in Bookings : Active(InitialRow(b)) <=> Existing[b] # None
  /\ \A b \in Bookings : Existing[b] # None => InitialRow(b).place = Existing[b].place
  BY ConstantsAssumption DEF InitialRow, RowType, Active, NoRow

-----------------------------------------------------------------------------
(* Kinds of steps.                                                         *)

\* The end of an attempt that commits nothing: Refuse, Retry and Replay.
Ended(c) ==
    /\ UNCHANGED <<row, recs, events, req>>
    /\ \E p \in {"begin", "returned"} : pc' = [pc EXCEPT ![c] = p]
    /\ snap' = [snap EXCEPT ![c] = NoSnap]
    /\ tx' = [tx EXCEPT ![c] = NoTx]

\* A statement that leaves every row as it is.
Passed(c, p) ==
    /\ UNCHANGED <<row, recs, events, req, snap, tx>>
    /\ pc' = [pc EXCEPT ![c] = p]

\* The ways an attempt ends without a commit are all of one kind.
LEMMA EndedSteps ==
  /\ \A c, k : Refuse(c, k) => Ended(c)
  /\ \A c : Retry(c) => Ended(c)
  /\ \A c, r : Replay(c, r) => Ended(c)
  <1>1. \A c, k : Refuse(c, k) => Ended(c)
    BY Zenon DEF Refuse, Return, Close, Goto, Ended
  <1>2. \A c : Retry(c) => Ended(c)
    BY <1>1, Zenon DEF Retry, Close, Goto, Ended
  <1>3. \A c, r : Replay(c, r) => Ended(c)
    BY <1>1, Zenon DEF Replay, Return, Close, Goto, Ended
  <1>. QED BY <1>1, <1>2, <1>3, Zenon

\* An attempt that ends without a commit gives up what it held and keeps IInv.
LEMMA EndedKeeps ==
  ASSUME IInv, NEW c \in Calls, Ended(c), pc[c] \in Open \cup {"begin"}
  PROVE  IInv'
  <1>. USE DEF IInv
  <1>0. PICK p \in {"begin", "returned"} : pc' = [pc EXCEPT ![c] = p]
    BY Zenon DEF Ended
  <1>1. /\ pc' \in [Calls -> {"idle", "begin", "returned"} \cup Open]
        /\ pc'[c] \in {"begin", "returned"}
        /\ \A d \in Calls \ {c} : pc'[d] = pc[d] /\ tx'[d] = tx[d] /\ snap'[d] = snap[d]
        /\ tx'[c] = NoTx /\ snap'[c] = NoSnap
        /\ DOMAIN snap' = Calls /\ DOMAIN tx' = Calls
        /\ row' = row /\ recs' = recs /\ events' = events /\ req' = req
    BY <1>0, Zenon DEF Ended, Shapes, Open, Working
  <1>2. Shapes'
    <2>1. NoSnap.row \in RowType
      BY Zenon DEF NoSnap, RowType
    <2>2. \A d \in Calls : snap'[d].row \in RowType
      BY <1>1, <2>1, Zenon DEF Shapes
    <2>3. \A d \in Calls : pc'[d] # "idle" => req'[d] \in Requests
      BY <1>1, Zenon DEF Shapes, Open, Working
    <2>4. \A d \in Calls : ~Writing(d)' => tx'[d] = NoTx
      BY <1>1, Zenon DEF Shapes, Writing
    <2>. QED BY <1>1, <2>2, <2>3, <2>4, Zenon DEF Shapes
  <1>3. \A d \in Calls : /\ pc'[d] \in Working => d # c /\ pc[d] \in Working
                         /\ Reserved(d)' => d # c /\ Reserved(d)
                         /\ Writing(d)' => d # c /\ Writing(d)
                         /\ KeyOf(d)' = KeyOf(d)
    BY <1>1, Zenon DEF Working, Reserved, Writing, KeyOf
  <1>4. RowLocks'
    BY <1>1, <1>3 DEF RowLocks, HoldsRow, Expected
  <1>5. KeyLocks'
    BY <1>1, <1>3 DEF KeyLocks, Recorded
  <1>6. Writes'
    <2>1. \A d \in Calls : tx'[d].booking \in {tx[d].booking, None}
      BY <1>1 DEF NoTx
    <2>. QED BY <1>1, <1>3, <2>1, ConstantsAssumption DEF Writes
  <1>7. Apart'
    BY <1>1, Zenon DEF Apart
  <1>8. NoDoubleBooking' /\ OneEffectPerKey'
    BY <1>1, <1>3, Zenon DEF NoDoubleBooking, OneEffectPerKey, KeyOf
  <1>9. History' /\ OperatorChangesWhatTheySaw'
    BY <1>1 DEF History, OperatorChangesWhatTheySaw, Recorded, KeyOf, Open, Working
  <1>. QED BY <1>2, <1>4, <1>5, <1>6, <1>7, <1>8, <1>9, Zenon

\* Start gives an idle call its request; it holds nothing yet.
LEMMA StartKeeps ==
  ASSUME IInv, NEW c \in Calls, NEW r \in Requests, Start(c, r)
  PROVE  IInv'
  <1>. USE DEF IInv
  <1>1. /\ pc' \in [Calls -> {"idle", "begin", "returned"} \cup Open]
        /\ req' \in [Calls -> Requests \cup {None}]
        /\ pc[c] = "idle" /\ pc'[c] = "begin" /\ req'[c] = r
        /\ \A d \in Calls \ {c} : pc'[d] = pc[d] /\ req'[d] = req[d] /\ KeyOf(d)' = KeyOf(d)
        /\ row' = row /\ recs' = recs /\ events' = events /\ snap' = snap /\ tx' = tx
    BY Zenon DEF Start, Goto, Shapes, KeyOf
  <1>2. \A d \in Calls : /\ pc'[d] \in Working => d # c /\ pc[d] \in Working
                         /\ Reserved(d)' => d # c /\ Reserved(d)
                         /\ Writing(d)' <=> Writing(d)
                         /\ Writing(d) => d # c
    BY <1>1, Zenon DEF Working, Reserved, Writing
  <1>3. Shapes'
    BY <1>1, <1>2, Zenon DEF Shapes
  <1>4. RowLocks'
    BY <1>1, <1>2 DEF RowLocks, HoldsRow, Expected
  <1>5. KeyLocks'
    BY <1>1, <1>2 DEF KeyLocks, Recorded
  <1>6. Writes'
    BY <1>1, <1>2 DEF Writes
  <1>7. Apart'
    BY <1>1, Zenon DEF Apart
  <1>8. \A e \in events : e.call \in Calls \ {c}
    BY <1>1, Zenon DEF History
  <1>9. NoDoubleBooking' /\ OneEffectPerKey'
    BY <1>1, <1>8 DEF NoDoubleBooking, OneEffectPerKey
  <1>10. History' /\ OperatorChangesWhatTheySaw'
    BY <1>1, <1>8 DEF History, OperatorChangesWhatTheySaw, Recorded
  <1>. QED BY <1>3, <1>4, <1>5, <1>6, <1>7, <1>9, <1>10, Zenon

\* Begin takes a snapshot; the call still holds nothing.
LEMMA BeginKeeps ==
  ASSUME IInv, NEW c \in Calls, Begin(c)
  PROVE  IInv'
  <1>. USE DEF IInv
  <1>1. /\ pc' \in [Calls -> {"idle", "begin", "returned"} \cup Open]
        /\ pc[c] = "begin" /\ pc'[c] \in {"reserve", "load"}
        /\ pc'[c] = "load" => req[c].by = "operator" /\ req[c].op = "cancel"
        /\ \A d \in Calls \ {c} : pc'[d] = pc[d] /\ snap'[d] = snap[d]
        /\ row' = row /\ recs' = recs /\ events' = events /\ req' = req /\ tx' = tx
        /\ DOMAIN snap' = Calls
    BY Zenon DEF Begin, Goto, Shapes, Open
  <1>2. snap'[c].row \in RowType
    <2>1. PICK b \in IF Recorded(KeyOf(c)) = {} THEN {req[c].booking}
                      ELSE {r.booking : r \in Recorded(KeyOf(c))} :
             snap'[c].row = IF b = None THEN NoRow ELSE row[b]
      BY DEF Begin, Shapes
    <2>2. req[c] \in Requests
      BY <1>1, Zenon DEF Shapes
    <2>3. b \in Bookings \cup {None}
      BY <2>1, <2>2, ConstantsAssumption DEF Shapes, Recorded
    <2>. QED BY <2>1, <2>3, ZenonT(60) DEF Shapes, RowType
  <1>3. \A d \in Calls : /\ pc'[d] \in Working => d # c /\ pc[d] \in Working
                         /\ Reserved(d)' => d # c /\ Reserved(d)
                         /\ Writing(d)' <=> Writing(d)
                         /\ Writing(d) => d # c
                         /\ KeyOf(d)' = KeyOf(d)
    <2>1. pc'[c] = "load" => KeyOf(c) = None
      BY <1>1, Zenon DEF KeyOf, KeyFor, OperatorKey
    <2>2. \A d \in Calls : KeyOf(d)' = KeyOf(d)
      BY <1>1, Zenon DEF KeyOf
    <2>. QED BY <1>1, <2>1, <2>2, Zenon DEF Working, Reserved, Writing
  <1>4. Shapes'
    BY <1>1, <1>2, <1>3, Zenon DEF Shapes
  <1>5. RowLocks'
    BY <1>1, <1>3 DEF RowLocks, HoldsRow, Expected
  <1>6. KeyLocks'
    BY <1>1, <1>3 DEF KeyLocks, Recorded
  <1>7. Writes'
    BY <1>1, <1>3 DEF Writes
  <1>8. Apart'
    BY <1>1 DEF Apart
  <1>9. NoDoubleBooking' /\ OneEffectPerKey'
    BY <1>1, Zenon DEF NoDoubleBooking, OneEffectPerKey, KeyOf
  <1>10. History' /\ OperatorChangesWhatTheySaw'
    BY <1>1, <1>3 DEF History, OperatorChangesWhatTheySaw, Recorded
  <1>. QED BY <1>4, <1>5, <1>6, <1>7, <1>8, <1>9, <1>10, Zenon

\* A key is reserved when no record has it and no open call holds it.
LEMMA ReserveKeeps ==
  ASSUME IInv, NEW c \in Calls, pc[c] = "reserve", ~Waits(c), Recorded(KeyOf(c)) = {},
         Passed(c, IF req[c].op = "create" THEN "materialize" ELSE "load")
  PROVE  IInv'
  <1>. USE DEF IInv
  <1>1. /\ pc' \in [Calls -> {"idle", "begin", "returned"} \cup Open]
        /\ pc'[c] \in {"materialize", "load"} /\ (pc'[c] = "materialize" <=> req[c].op = "create")
        /\ \A d \in Calls \ {c} : pc'[d] = pc[d]
        /\ row' = row /\ recs' = recs /\ events' = events /\ req' = req
        /\ tx' = tx /\ snap' = snap
    BY Zenon DEF Passed, Shapes, Open, Working
  <1>2. \A d \in Calls : /\ Writing(d)' <=> Writing(d)
                         /\ KeyOf(d)' = KeyOf(d)
                         /\ d # c => (Reserved(d)' <=> Reserved(d))
                         /\ pc'[d] \in Working /\ req'[d].op # "create" =>
                               d # c /\ pc[d] \in Working
    BY <1>1, Zenon DEF Writing, KeyOf, Reserved, Working
  <1>3. \A d \in Calls \ {c} : Reserved(d) => KeyOf(d) # KeyOf(c)
    BY Zenon DEF Waits, WaitsFor
  <1>4. Shapes'
    BY <1>1, <1>2, ConstantsAssumption DEF Shapes, Passed
  <1>5. RowLocks'
    BY <1>1, <1>2, Zenon DEF RowLocks, HoldsRow, Expected
  <1>6. KeyLocks'
    BY <1>1, <1>2, <1>3 DEF KeyLocks, Recorded
  <1>7. Writes'
    BY <1>1, <1>2, Zenon DEF Writes
  <1>8. Apart'
    BY <1>1, Zenon DEF Apart
  <1>9. NoDoubleBooking' /\ OneEffectPerKey'
    BY <1>1, Zenon DEF NoDoubleBooking, OneEffectPerKey, KeyOf
  <1>10. History' /\ OperatorChangesWhatTheySaw'
    BY <1>1, <1>2 DEF History, OperatorChangesWhatTheySaw, Recorded
  <1>. QED BY <1>4, <1>5, <1>6, <1>7, <1>8, <1>9, <1>10, Zenon

\* A booking's row is locked when no open call holds it and it has not changed.
LEMMA LoadKeeps ==
  ASSUME IInv, NEW c \in Calls, pc[c] = "load", req[c].op # "create", Sees(c), ~Waits(c),
         Current(c), Expected(c), Changeable(c),
         Passed(c, IF req[c].op = "cancel" THEN "write" ELSE "materialize")
  PROVE  IInv'
  <1>. USE DEF IInv
  <1>1. /\ pc' \in [Calls -> {"idle", "begin", "returned"} \cup Open]
        /\ pc'[c] \in {"materialize", "write"}
        /\ \A d \in Calls \ {c} : pc'[d] = pc[d]
        /\ row' = row /\ recs' = recs /\ events' = events /\ req' = req
        /\ tx' = tx /\ snap' = snap
    BY Zenon DEF Passed, Shapes, Open, Working
  <1>2. \A d \in Calls : /\ Writing(d)' <=> Writing(d)
                         /\ KeyOf(d)' = KeyOf(d)
                         /\ Reserved(d)' <=> Reserved(d)
                         /\ d # c => (pc'[d] \in Working <=> pc[d] \in Working)
    BY <1>1, Zenon DEF Writing, KeyOf, Reserved, Working
  <1>3. \A d \in Calls \ {c} : ~HoldsRow(d, req[c].booking)
    BY Zenon DEF Waits, WaitsFor
  <1>4. Shapes'
    BY <1>1, <1>2, Zenon DEF Shapes
  <1>5. RowLocks'
    <2>1. \A d \in Calls \ {c} : pc[d] \in Working /\ req[d].op # "create" =>
             req[d].booking # req[c].booking
      BY <1>3, Zenon DEF HoldsRow
    <2>. QED BY <1>1, <1>2, <1>3, <2>1 DEF RowLocks, HoldsRow, Expected, Current, Changeable
  <1>6. KeyLocks'
    BY <1>1, <1>2, Zenon DEF KeyLocks, Recorded
  <1>7. Writes'
    BY <1>1, <1>2, Zenon DEF Writes
  <1>8. Apart'
    BY <1>1, Zenon DEF Apart
  <1>9. NoDoubleBooking' /\ OneEffectPerKey'
    BY <1>1, Zenon DEF NoDoubleBooking, OneEffectPerKey, KeyOf
  <1>10. History' /\ OperatorChangesWhatTheySaw'
    BY <1>1, <1>2 DEF History, OperatorChangesWhatTheySaw, Recorded
  <1>. QED BY <1>4, <1>5, <1>6, <1>7, <1>8, <1>9, <1>10, Zenon

\* The date locks change nothing the invariant speaks of.
LEMMA DatesKeep ==
  ASSUME IInv, NEW c \in Calls, pc[c] \in {"materialize", "lock"},
         NEW p \in {"materialize", "lock", "write"}, Passed(c, p)
  PROVE  IInv'
  <1>. USE DEF IInv
  <1>1. /\ pc' \in [Calls -> {"idle", "begin", "returned"} \cup Open]
        /\ pc'[c] = p
        /\ \A d \in Calls \ {c} : pc'[d] = pc[d]
        /\ row' = row /\ recs' = recs /\ events' = events /\ req' = req
        /\ tx' = tx /\ snap' = snap
    BY Zenon DEF Passed, Shapes, Open, Working
  <1>2. \A d \in Calls : /\ Writing(d)' <=> Writing(d)
                         /\ KeyOf(d)' = KeyOf(d)
                         /\ Reserved(d)' <=> Reserved(d)
                         /\ pc'[d] \in Working <=> pc[d] \in Working
    BY <1>1, Zenon DEF Writing, KeyOf, Reserved, Working
  <1>4. Shapes'
    BY <1>1, <1>2, Zenon DEF Shapes
  <1>5. RowLocks'
    BY <1>1, <1>2, Zenon DEF RowLocks, HoldsRow, Expected
  <1>6. KeyLocks'
    BY <1>1, <1>2, Zenon DEF KeyLocks, Recorded
  <1>7. Writes'
    BY <1>1, <1>2, Zenon DEF Writes
  <1>8. Apart'
    BY <1>1, Zenon DEF Apart
  <1>9. NoDoubleBooking' /\ OneEffectPerKey'
    BY <1>1, Zenon DEF NoDoubleBooking, OneEffectPerKey, KeyOf
  <1>10. History' /\ OperatorChangesWhatTheySaw'
    BY <1>1, <1>2 DEF History, OperatorChangesWhatTheySaw, Recorded
  <1>. QED BY <1>4, <1>5, <1>6, <1>7, <1>8, <1>9, <1>10, Zenon

\* A fresh identifier is in no row; the new row is the call's own.
LEMMA InsertKeeps ==
  ASSUME IInv, NEW c \in Calls, pc[c] = "write", req[c].op = "create", NEW b \in Fresh,
         tx' = [tx EXCEPT ![c] = [booking |-> b, new |->
                  [status |-> "confirmed", owner |-> req[c].owner,
                   place |-> req[c].place, ver |-> 1]]],
         Step(c, "check")
  PROVE  IInv'
  <1>. USE DEF IInv
  <1>1. /\ pc' \in [Calls -> {"idle", "begin", "returned"} \cup Open]
        /\ pc'[c] = "check"
        /\ \A d \in Calls \ {c} : pc'[d] = pc[d] /\ tx'[d] = tx[d]
        /\ row' = row /\ recs' = recs /\ events' = events /\ req' = req /\ snap' = snap
        /\ DOMAIN tx' = Calls
    BY Zenon DEF Step, Goto, Shapes, Open, Working
  <1>2. /\ tx'[c].booking = b
        /\ tx'[c].new \in RowType \ {NoRow}
        /\ Active(tx'[c].new)
    <2>1. tx'[c] = [booking |-> b, new |-> [status |-> "confirmed", owner |-> req[c].owner,
                      place |-> req[c].place, ver |-> 1]]
      BY Zenon DEF Shapes
    <2>2. req[c] \in Requests /\ req[c].place \in Places
      BY ConstantsAssumption, Zenon DEF Shapes
    <2>. QED BY <2>1, <2>2 DEF RowType, NoRow, Active
  <1>3. \A d \in Calls : /\ d # c => (Writing(d)' <=> Writing(d))
                         /\ KeyOf(d)' = KeyOf(d)
                         /\ Reserved(d)' <=> Reserved(d)
                         /\ pc'[d] \in Working <=> pc[d] \in Working
    BY <1>1, Zenon DEF Writing, KeyOf, Reserved, Working
  <1>4. Shapes'
    BY <1>1, <1>2, <1>3 DEF Shapes, Writing
  <1>5. RowLocks'
    BY <1>1, <1>3 DEF RowLocks, HoldsRow, Expected
  <1>6. KeyLocks'
    BY <1>1, <1>3 DEF KeyLocks, Recorded
  <1>7. Writes'
    <2>1. b \in Bookings /\ row[b] = NoRow /\ \A d \in Calls : tx[d].booking # b
      BY Zenon DEF Fresh
    <2>2. \A d \in Calls \ {c} : tx'[d].booking # tx'[c].booking
      BY <1>1, <1>2, <2>1, ZenonT(60)
    <2>3. \A d \in Calls \ {c} : Writing(d)' =>
             /\ tx'[d].booking \in Bookings
             /\ tx'[d].new \in RowType \ {NoRow}
             /\ req'[d].op = "create" => row'[tx'[d].booking] = NoRow
             /\ req'[d].op # "create" => tx'[d].booking = req'[d].booking
             /\ req'[d].op = "cancel" <=> ~Active(tx'[d].new)
             /\ \A a \in Calls \ {d} : tx'[a].booking # tx'[d].booking
      <3>1. SUFFICES ASSUME NEW d \in Calls \ {c}, Writing(d)'
                     PROVE  /\ tx'[d].booking \in Bookings
                            /\ tx'[d].new \in RowType \ {NoRow}
                            /\ req'[d].op = "create" => row'[tx'[d].booking] = NoRow
                            /\ req'[d].op # "create" => tx'[d].booking = req'[d].booking
                            /\ req'[d].op = "cancel" <=> ~Active(tx'[d].new)
                            /\ \A a \in Calls \ {d} : tx'[a].booking # tx'[d].booking
        BY Zenon
      <3>2. d \in Calls /\ Writing(d) /\ tx'[d] = tx[d] /\ req' = req /\ row' = row
        BY <1>1, <1>3, <3>1, Zenon
      <3>3. tx'[c].booking # tx[d].booking
        BY <2>2, <3>2, Zenon
      <3>4. \A a \in Calls \ {d} : tx[a].booking # tx[d].booking
        BY <3>2, Zenon DEF Writes
      <3>5. \A a \in Calls \ {d} : tx'[a].booking # tx[d].booking
        BY <1>1, <3>3, <3>4, Zenon
      <3>. QED BY <3>2, <3>5, Zenon DEF Writes
    <2>. QED BY <1>1, <1>2, <2>1, <2>2, <2>3 DEF Writes
  <1>8. Apart'
    BY <1>1 DEF Apart
  <1>9. NoDoubleBooking' /\ OneEffectPerKey'
    BY <1>1, Zenon DEF NoDoubleBooking, OneEffectPerKey, KeyOf
  <1>10. History' /\ OperatorChangesWhatTheySaw'
    BY <1>1, <1>3 DEF History, OperatorChangesWhatTheySaw, Recorded
  <1>. QED BY <1>4, <1>5, <1>6, <1>7, <1>8, <1>9, <1>10, Zenon

\* The updated row is the locked one, and no other call writes it.
LEMMA UpdateKeeps ==
  ASSUME IInv, NEW c \in Calls, Update(c)
  PROVE  IInv'
  <1>. USE DEF IInv
  <1>1. /\ pc' \in [Calls -> {"idle", "begin", "returned"} \cup Open]
        /\ pc[c] = "write" /\ req[c].op # "create"
        /\ pc'[c] = (IF req[c].op = "cancel" THEN "commit" ELSE "check")
        /\ \A d \in Calls \ {c} : pc'[d] = pc[d] /\ tx'[d] = tx[d]
        /\ row' = row /\ recs' = recs /\ events' = events /\ req' = req /\ snap' = snap
        /\ DOMAIN tx' = Calls
    BY ZenonT(60) DEF Update, Step, Goto, Shapes, Open, Working
  <1>2. /\ tx'[c].booking = req[c].booking
        /\ tx'[c].new \in RowType \ {NoRow}
        /\ Active(tx'[c].new) <=> req[c].op # "cancel"
    <2>1. tx'[c] = [booking |-> req[c].booking, new |->
                      [status |-> IF req[c].op = "cancel" THEN "cancelled" ELSE "confirmed",
                       owner |-> snap[c].row.owner,
                       place |-> IF req[c].op = "cancel" THEN snap[c].row.place ELSE NewPlace(c),
                       ver |-> snap[c].row.ver + 1]]
      BY Zenon DEF Update, Shapes
    <2>2. Active(snap[c].row) /\ snap[c].row \in RowType
      BY <1>1, Zenon DEF RowLocks, Shapes, Working
    <2>3. req[c] \in Requests /\ req[c].op \in {"move", "cancel"}
      BY <1>1, ConstantsAssumption, Zenon DEF Shapes
    <2>4. req[c].op = "move" => NewPlace(c) \in Places
      BY <2>2, <2>3, ActiveRows, ConstantsAssumption, Zenon DEF NewPlace, Places
    <2>5. snap[c].row \in RowType \ {NoRow}
      BY <2>2 DEF Active, NoRow
    <2>. QED BY <2>1, <2>3, <2>4, <2>5 DEF RowType, NoRow, Active
  <1>3. \A d \in Calls : /\ d # c => (Writing(d)' <=> Writing(d))
                         /\ KeyOf(d)' = KeyOf(d)
                         /\ Reserved(d)' <=> Reserved(d)
                         /\ pc'[d] \in Working <=> pc[d] \in Working
    BY <1>1, Zenon DEF Writing, KeyOf, Reserved, Working
  <1>4. Shapes'
    BY <1>1, <1>2, <1>3, ZenonT(60) DEF Shapes, Writing
  <1>5. RowLocks'
    BY <1>1, <1>3 DEF RowLocks, HoldsRow, Expected
  <1>6. KeyLocks'
    BY <1>1, <1>3 DEF KeyLocks, Recorded
  <1>7. Writes'
    <2>1. req[c].booking \in Bookings /\ row[req[c].booking] # NoRow
      BY <1>1, ConstantsAssumption DEF RowLocks, Shapes, Working, Active, NoRow
    <2>2. \A d \in Calls \ {c} : tx[d].booking # req[c].booking
      <3>1. SUFFICES ASSUME NEW d \in Calls \ {c}, Writing(d) PROVE tx[d].booking # req[c].booking
        BY <2>1, ConstantsAssumption DEF Shapes, NoTx
      <3>2. CASE req[d].op = "create"
        BY <2>1, <3>1, <3>2, Zenon DEF Writes
      <3>3. CASE req[d].op # "create"
        <4>1. ~HoldsRow(d, req[c].booking)
          BY <1>1, <3>1, Zenon DEF RowLocks, Working
        <4>. QED BY <3>1, <3>3, <4>1, Zenon DEF HoldsRow, Writes, Writing, Working
      <3>. QED BY <3>2, <3>3, Zenon
    <2>3. \A d \in Calls \ {c} : tx'[d].booking # tx'[c].booking
      BY <1>1, <1>2, <2>2, ZenonT(60)
    <2>4. \A d \in Calls \ {c} : Writing(d)' =>
             /\ tx'[d].booking \in Bookings
             /\ tx'[d].new \in RowType \ {NoRow}
             /\ req'[d].op = "create" => row'[tx'[d].booking] = NoRow
             /\ req'[d].op # "create" => tx'[d].booking = req'[d].booking
             /\ req'[d].op = "cancel" <=> ~Active(tx'[d].new)
             /\ \A a \in Calls \ {d} : tx'[a].booking # tx'[d].booking
      <3>1. SUFFICES ASSUME NEW d \in Calls \ {c}, Writing(d)'
                     PROVE  /\ tx'[d].booking \in Bookings
                            /\ tx'[d].new \in RowType \ {NoRow}
                            /\ req'[d].op = "create" => row'[tx'[d].booking] = NoRow
                            /\ req'[d].op # "create" => tx'[d].booking = req'[d].booking
                            /\ req'[d].op = "cancel" <=> ~Active(tx'[d].new)
                            /\ \A a \in Calls \ {d} : tx'[a].booking # tx'[d].booking
        BY Zenon
      <3>2. d \in Calls /\ Writing(d) /\ tx'[d] = tx[d] /\ req' = req /\ row' = row
        BY <1>1, <1>3, <3>1, Zenon
      <3>3. tx'[c].booking # tx[d].booking
        BY <2>3, <3>2, Zenon
      <3>4. \A a \in Calls \ {d} : tx[a].booking # tx[d].booking
        BY <3>2, Zenon DEF Writes
      <3>5. \A a \in Calls \ {d} : tx'[a].booking # tx[d].booking
        BY <1>1, <3>3, <3>4, Zenon
      <3>. QED BY <3>2, <3>5, Zenon DEF Writes
    <2>. QED BY <1>1, <1>2, <2>1, <2>3, <2>4 DEF Writes
  <1>8. Apart'
    BY <1>1, <1>2 DEF Apart
  <1>9. NoDoubleBooking' /\ OneEffectPerKey'
    BY <1>1, ZenonT(60) DEF NoDoubleBooking, OneEffectPerKey, KeyOf
  <1>10. History' /\ OperatorChangesWhatTheySaw'
    BY <1>1, <1>3 DEF History, OperatorChangesWhatTheySaw, Recorded
  <1>. QED BY <1>4, <1>5, <1>6, <1>7, <1>8, <1>9, <1>10, Zenon

\* The constraint lets a row through when no committed row and no open writer's
\* row is in its way.
LEMMA CheckKeeps ==
  ASSUME IInv, NEW c \in Calls, pc[c] = "check", ~Waits(c), Passed(c, "commit"),
         \A b \in Bookings \ {tx[c].booking} : ~(Active(row[b]) /\ Clash(row[b].place, tx[c].new.place))
  PROVE  IInv'
  <1>. USE DEF IInv
  <1>1. /\ pc' \in [Calls -> {"idle", "begin", "returned"} \cup Open]
        /\ pc'[c] = "commit"
        /\ \A d \in Calls \ {c} : pc'[d] = pc[d]
        /\ row' = row /\ recs' = recs /\ events' = events /\ req' = req
        /\ tx' = tx /\ snap' = snap
    BY Zenon DEF Passed, Shapes, Open, Working
  <1>2. \A d \in Calls : /\ Writing(d)' <=> Writing(d)
                         /\ KeyOf(d)' = KeyOf(d)
                         /\ Reserved(d)' <=> Reserved(d)
                         /\ pc'[d] \in Working <=> pc[d] \in Working
    BY <1>1, Zenon DEF Writing, KeyOf, Reserved, Working
  <1>4. Shapes'
    BY <1>1, <1>2, Zenon DEF Shapes
  <1>5. RowLocks'
    BY <1>1, <1>2, Zenon DEF RowLocks, HoldsRow, Expected
  <1>6. KeyLocks'
    BY <1>1, <1>2, ZenonT(60) DEF KeyLocks, Recorded
  <1>7. Writes'
    BY <1>1, <1>2, Zenon DEF Writes
  <1>8. Apart'
    <2>1. \A d \in Calls \ {c} : pc[d] = "commit" /\ Active(tx[d].new) =>
             ~Clash(tx[d].new.place, tx[c].new.place)
      BY Zenon DEF Waits, WaitsFor, InTheWay, Writing
    <2>2. \A d \in Calls \ {c} : pc[d] = "commit" /\ Active(tx[d].new) =>
             ~Clash(tx[c].new.place, tx[d].new.place)
      BY <2>1, ClashSymmetric, Zenon
    <2>. QED BY <1>1, <2>1, <2>2, Zenon DEF Apart
  <1>9. NoDoubleBooking' /\ OneEffectPerKey'
    BY <1>1, Zenon DEF NoDoubleBooking, OneEffectPerKey, KeyOf
  <1>10. History' /\ OperatorChangesWhatTheySaw'
    BY <1>1, <1>2 DEF History, OperatorChangesWhatTheySaw, Recorded
  <1>. QED BY <1>4, <1>5, <1>6, <1>7, <1>8, <1>9, <1>10, Zenon

\* The record a commit adds has the call's key; a call without one adds none.
LEMMA RecordFacts ==
  \A c, s, b : /\ \A r \in Record(c, s, b) : r.key = KeyOf(c) /\ r.booking = b
               /\ KeyOf(c) = None => Record(c, s, b) = {}
               /\ KeyOf(c) # None => \E r \in Record(c, s, b) : r.key = KeyOf(c)
  <1>. TAKE c, s, b
  <1>. DEFINE r0 == [key |-> KeyOf(c), hash |-> HashOf(req[c]), status |-> s, booking |-> b]
  <1>1. Record(c, s, b) = IF KeyOf(c) = None THEN {} ELSE {r0}
    BY Zenon DEF Record
  <1>2. r0.key = KeyOf(c) /\ r0.booking = b
    BY Zenon
  <1>. HIDE DEF r0
  <1>. QED BY <1>1, <1>2, Zenon

\* It names the booking that was changed.
LEMMA RecordNames == \A c, s, b : \A r \in Record(c, s, b) : r.booking = b
  BY RecordFacts

\* The record of a finished call leaves the keys of the others alone.
LEMMA RecordKeeps ==
  ASSUME IInv, NEW c \in Calls, pc[c] \in Open \ {"reserve"}, NEW s, NEW b,
         recs' = recs \cup Record(c, s, b), req' = req
  PROVE  \A d \in Calls \ {c} : Reserved(d) => Recorded(KeyOf(d))' = {}
  <1>1. SUFFICES ASSUME NEW d \in Calls \ {c}, Reserved(d) PROVE Recorded(KeyOf(d))' = {}
    BY Zenon
  <1>2. Recorded(KeyOf(d)) = {}
    BY <1>1, Zenon DEF IInv, KeyLocks
  <1>3. KeyOf(c) # None => KeyOf(d) # KeyOf(c)
    BY <1>1, Zenon DEF IInv, KeyLocks, Reserved, Open
  <1>4. \A r \in Record(c, s, b) : r.key # KeyOf(d)
    BY <1>3, RecordFacts
  <1>5. KeyOf(d)' = KeyOf(d)
    BY Zenon DEF KeyOf
  <1>. QED BY <1>2, <1>4, <1>5, Zenon DEF Recorded

\* The key of a call that has one stays recorded.
LEMMA RecordedStays ==
  ASSUME NEW S, recs' = recs \cup S, req' = req
  PROVE  \A c : Recorded(KeyOf(c)) # {} => Recorded(KeyOf(c))' # {}
  <1>1. \A c : KeyOf(c)' = KeyOf(c)
    BY Zenon DEF KeyOf
  <1>. QED BY <1>1, Zenon DEF Recorded

\* A cancel that finds its booking cancelled commits only its record.
LEMMA AcknowledgeKeeps ==
  ASSUME IInv, NEW c \in Calls, pc[c] = "load", NEW k, NEW r0, Answer(c, k, r0),
         recs' = recs \cup Record(c, "in_progress", None), UNCHANGED <<row, days, events>>
  PROVE  IInv'
  <1>. USE DEF IInv
  <1>1. /\ pc' \in [Calls -> {"idle", "begin", "returned"} \cup Open]
        /\ pc'[c] = "returned"
        /\ \A d \in Calls \ {c} : pc'[d] = pc[d] /\ tx'[d] = tx[d] /\ snap'[d] = snap[d]
        /\ tx'[c] = NoTx /\ snap'[c] = NoSnap
        /\ DOMAIN snap' = Calls /\ DOMAIN tx' = Calls
        /\ row' = row /\ events' = events /\ req' = req
    BY ZenonT(60) DEF Answer, Return, Goto, Close, Shapes, Open, Working
  <1>2. Shapes'
    <2>1. NoSnap.row \in RowType
      BY Zenon DEF NoSnap, RowType
    <2>2. \A d \in Calls : snap'[d].row \in RowType
      BY <1>1, <2>1, Zenon DEF Shapes
    <2>3. \A d \in Calls : pc'[d] # "idle" => req'[d] \in Requests
      BY <1>1, Zenon DEF Shapes, Open, Working
    <2>4. \A d \in Calls : ~Writing(d)' => tx'[d] = NoTx
      BY <1>1, Zenon DEF Shapes, Writing
    <2>5. \A r \in recs' : r.booking \in Bookings \cup {None}
      BY RecordFacts DEF Shapes
    <2>. QED BY <1>1, <2>2, <2>3, <2>4, <2>5, Zenon DEF Shapes
  <1>3. \A d \in Calls : /\ pc'[d] \in Working => d # c /\ pc[d] \in Working
                         /\ Reserved(d)' => d # c /\ Reserved(d)
                         /\ Writing(d)' => d # c /\ Writing(d)
                         /\ KeyOf(d)' = KeyOf(d)
    BY <1>1, ZenonT(60) DEF Working, Reserved, Writing, KeyOf
  <1>4. RowLocks'
    BY <1>1, <1>3 DEF RowLocks, HoldsRow, Expected
  <1>5. KeyLocks'
    <2>1. \A d \in Calls \ {c} : Reserved(d) => Recorded(KeyOf(d))' = {}
      BY <1>1, RecordKeeps, ZenonT(60) DEF Open
    <2>. QED BY <1>1, <1>3, <2>1 DEF KeyLocks
  <1>6. Writes'
    <2>1. \A d \in Calls : tx'[d].booking \in {tx[d].booking, None}
      BY <1>1 DEF NoTx
    <2>. QED BY <1>1, <1>3, <2>1, ConstantsAssumption DEF Writes
  <1>7. Apart'
    BY <1>1, Zenon DEF Apart
  <1>8. NoDoubleBooking' /\ OneEffectPerKey'
    BY <1>1, <1>3, Zenon DEF NoDoubleBooking, OneEffectPerKey, KeyOf
  <1>9. History'
    <2>1. \A d : Recorded(KeyOf(d)) # {} => Recorded(KeyOf(d))' # {}
      BY <1>1, RecordedStays, Zenon
    <2>. QED BY <1>1, <1>3, <2>1, Zenon DEF History
  <1>10. OperatorChangesWhatTheySaw'
    BY <1>1, Zenon DEF OperatorChangesWhatTheySaw
  <1>. QED BY <1>2, <1>4, <1>5, <1>6, <1>7, <1>8, <1>9, <1>10, Zenon

\* What Commit does, written out.
LEMMA CommitEffect ==
  ASSUME IInv, NEW c \in Calls, Commit(c)
  PROVE  /\ pc' \in [Calls -> {"idle", "begin", "returned"} \cup Open]
         /\ pc[c] = "commit" /\ pc'[c] = "returned"
         /\ \A d \in Calls \ {c} : pc'[d] = pc[d] /\ tx'[d] = tx[d] /\ snap'[d] = snap[d]
         /\ tx'[c] = NoTx /\ snap'[c] = NoSnap
         /\ DOMAIN snap' = Calls /\ DOMAIN tx' = Calls
         /\ req' = req
         /\ tx[c].booking \in Bookings /\ tx[c].new \in RowType \ {NoRow}
         /\ row' \in [Bookings -> RowType]
         /\ row'[tx[c].booking] = tx[c].new
         /\ \A b \in Bookings \ {tx[c].booking} : row'[b] = row[b]
         /\ recs' = recs \cup Record(c, "completed", tx[c].booking)
         /\ events' = events \cup {[call |-> c, booking |-> tx[c].booking,
                                    from |-> row[tx[c].booking], to |-> tx[c].new]}
  <1>1. pc[c] = "commit"
    BY Zenon DEF Commit
  <1>2. tx[c].booking \in Bookings /\ tx[c].new \in RowType \ {NoRow}
    BY <1>1, Zenon DEF IInv, Writes, Writing
  <1>3. /\ row' = [row EXCEPT ![tx[c].booking] = tx[c].new]
        /\ recs' = recs \cup Record(c, "completed", tx[c].booking)
        /\ events' = events \cup {[call |-> c, booking |-> tx[c].booking,
                                   from |-> row[tx[c].booking], to |-> tx[c].new]}
    BY Zenon DEF Commit
  <1>4. \E k, r : Return(c, k, r)
    BY Zenon DEF Commit, Answer
  <1>5. /\ pc' = [pc EXCEPT ![c] = "returned"]
        /\ snap' = [snap EXCEPT ![c] = NoSnap] /\ tx' = [tx EXCEPT ![c] = NoTx]
        /\ req' = req
    BY <1>4, Zenon DEF Return, Goto, Close
  <1>6. row \in [Bookings -> RowType]
    BY Zenon DEF IInv, Shapes
  <1>7. /\ row' \in [Bookings -> RowType]
        /\ row'[tx[c].booking] = tx[c].new
        /\ \A b \in Bookings \ {tx[c].booking} : row'[b] = row[b]
    BY <1>2, <1>3, <1>6, Zenon
  <1>. QED BY <1>1, <1>2, <1>3, <1>5, <1>7, Zenon DEF IInv, Shapes

\* The rows other calls locked or are about to write are not the committed one.
LEMMA CommitSpares ==
  ASSUME IInv, NEW c \in Calls, pc[c] = "commit", NEW d \in Calls \ {c}
  PROVE  /\ pc[d] \in Working /\ req[d].op # "create" => req[d].booking # tx[c].booking
         /\ tx[d].booking # tx[c].booking
  <1>. USE DEF IInv
  <1>1. Writing(c) /\ pc[c] \in Working
    BY Zenon DEF Writing, Working
  <1>2. tx[d].booking # tx[c].booking
    BY <1>1, Zenon DEF Writes
  <1>3. ASSUME pc[d] \in Working, req[d].op # "create" PROVE req[d].booking # tx[c].booking
    <2>1. row[req[d].booking] # NoRow
      BY <1>3 DEF RowLocks, Active, NoRow
    <2>2. CASE req[c].op = "create"
      BY <1>1, <2>1, <2>2, Zenon DEF Writes
    <2>3. CASE req[c].op # "create"
      BY <1>1, <1>3, <2>3 DEF Writes, RowLocks, HoldsRow
    <2>. QED BY <2>2, <2>3, Zenon
  <1>. QED BY <1>2, <1>3, Zenon

\* COMMIT: the row, the event and the record become visible together.
LEMMA CommitKeeps ==
  ASSUME IInv, NEW c \in Calls, Commit(c)
  PROVE  IInv'
  <1>. USE DEF IInv
  <1>. DEFINE b == tx[c].booking
              new == tx[c].new
              e == [call |-> c, booking |-> b, from |-> row[b], to |-> new]
  <1>1. /\ pc' \in [Calls -> {"idle", "begin", "returned"} \cup Open]
        /\ pc[c] = "commit" /\ pc'[c] = "returned"
        /\ \A d \in Calls \ {c} : pc'[d] = pc[d] /\ tx'[d] = tx[d] /\ snap'[d] = snap[d]
        /\ tx'[c] = NoTx /\ snap'[c] = NoSnap
        /\ DOMAIN snap' = Calls /\ DOMAIN tx' = Calls
        /\ req' = req
        /\ b \in Bookings /\ new \in RowType \ {NoRow}
        /\ row' \in [Bookings -> RowType]
        /\ row'[b] = new
        /\ \A a \in Bookings \ {b} : row'[a] = row[a]
        /\ recs' = recs \cup Record(c, "completed", b)
        /\ events' = events \cup {e}
    BY CommitEffect, Zenon
  <1>2. \A d \in Calls \ {c} :
          /\ pc[d] \in Working /\ req[d].op # "create" => req[d].booking # b
          /\ tx[d].booking # b
    BY <1>1, CommitSpares, Zenon
  <1>3. \A d \in Calls : /\ pc'[d] \in Working => d # c /\ pc[d] \in Working
                         /\ Reserved(d)' => d # c /\ Reserved(d)
                         /\ Writing(d)' => d # c /\ Writing(d)
                         /\ KeyOf(d)' = KeyOf(d)
    BY <1>1, Zenon DEF Working, Reserved, Writing, KeyOf
  <1>. HIDE DEF b, new, e
  <1>4. Shapes'
    <2>1. NoSnap.row \in RowType
      BY Zenon DEF NoSnap, RowType
    <2>2. \A d \in Calls : snap'[d].row \in RowType
      BY <1>1, <2>1, Zenon DEF Shapes
    <2>3. \A d \in Calls : pc'[d] # "idle" => req'[d] \in Requests
      BY <1>1, Zenon DEF Shapes, Open, Working
    <2>4. \A d \in Calls : ~Writing(d)' => tx'[d] = NoTx
      BY <1>1, ZenonT(60) DEF Shapes, Writing
    <2>5. \A r \in recs' : r.booking \in Bookings \cup {None}
      <3>1. \A r \in Record(c, "completed", b) : r.booking = b
        BY RecordNames, Zenon
      <3>. QED BY <1>1, <3>1, Zenon DEF Shapes
    <2>. QED BY <1>1, <2>2, <2>3, <2>4, <2>5, Zenon DEF Shapes
  <1>5. RowLocks'
    <2>1. \A d \in Calls : pc[d] \in Working /\ req[d].op # "create" => req[d].booking \in Bookings
      BY ConstantsAssumption, ZenonT(60) DEF Shapes, Working
    <2>. QED BY <1>1, <1>2, <1>3, <2>1 DEF RowLocks, HoldsRow, Expected
  <1>6. KeyLocks'
    <2>1. \A d \in Calls \ {c} : Reserved(d) => Recorded(KeyOf(d))' = {}
      BY <1>1, RecordKeeps, ZenonT(60) DEF Open, Working
    <2>. QED BY <1>1, <1>3, <2>1 DEF KeyLocks
  <1>7. Writes'
    <2>1. tx'[c].booking = None /\ None \notin Bookings
      BY <1>1, ConstantsAssumption DEF NoTx
    <2>2. SUFFICES ASSUME NEW d \in Calls, Writing(d)'
                   PROVE  /\ tx'[d].booking \in Bookings
                          /\ tx'[d].new \in RowType \ {NoRow}
                          /\ req'[d].op = "create" => row'[tx'[d].booking] = NoRow
                          /\ req'[d].op # "create" => tx'[d].booking = req'[d].booking
                          /\ req'[d].op = "cancel" <=> ~Active(tx'[d].new)
                          /\ \A a \in Calls \ {d} : tx'[a].booking # tx'[d].booking
      BY Zenon DEF Writes
    <2>3. d # c /\ Writing(d) /\ tx'[d] = tx[d] /\ req' = req
      BY <1>1, <1>3, <2>2, Zenon
    <2>4. /\ tx[d].booking \in Bookings /\ tx[d].new \in RowType \ {NoRow}
          /\ req[d].op = "create" => row[tx[d].booking] = NoRow
          /\ req[d].op # "create" => tx[d].booking = req[d].booking
          /\ req[d].op = "cancel" <=> ~Active(tx[d].new)
          /\ \A a \in Calls \ {d} : tx[a].booking # tx[d].booking
      BY <2>3, Zenon DEF Writes
    <2>5. row'[tx[d].booking] = row[tx[d].booking]
      BY <1>1, <1>2, <2>3, <2>4, Zenon
    <2>6. \A a \in Calls \ {d} : tx'[a].booking # tx[d].booking
      BY <1>1, <2>1, <2>4, Zenon
    <2>. QED BY <2>3, <2>4, <2>5, <2>6, Zenon
  <1>8. /\ \A a \in Bookings \ {b} : Active(row[a]) /\ Active(new) => ~Clash(row[a].place, new.place)
        /\ \A d \in Calls \ {c} : pc[d] = "commit" /\ Active(tx[d].new) /\ Active(new) =>
              ~Clash(new.place, tx[d].new.place)
    BY <1>1, Zenon DEF Apart, b, new
  <1>9. Apart'
    BY <1>1, <1>2, <1>8, Zenon DEF Apart
  <1>10. NoDoubleBooking'
    <2>1. \A a \in Bookings \ {b} : Active(row[a]) /\ Active(new) =>
             ~Clash(row[a].place, new.place) /\ ~Clash(new.place, row[a].place)
      BY <1>8, ClashSymmetric, Zenon
    <2>. QED BY <1>1, <2>1, ZenonT(60) DEF NoDoubleBooking
  <1>11. e.call = c /\ e.booking = b /\ e.from = row[b] /\ e.to = new
    BY Zenon DEF e
  <1>12. OneEffectPerKey'
    <2>1. ASSUME NEW f \in events, KeyOf(c) # None PROVE KeyOf(f.call) # KeyOf(c)
      <3>1. Recorded(KeyOf(c)) = {}
        BY <1>1, <2>1, Zenon DEF KeyLocks, Reserved, Working
      <3>. QED BY <2>1, <3>1, Zenon DEF History
    <2>2. \A d : KeyOf(d)' = KeyOf(d)
      BY <1>1, ZenonT(60) DEF KeyOf
    <2>. QED BY <1>1, <1>11, <2>1, <2>2, ZenonT(60) DEF OneEffectPerKey
  <1>13. History'
    <2>1. \A d : Recorded(KeyOf(d)) # {} => Recorded(KeyOf(d))' # {}
      BY <1>1, RecordedStays, ZenonT(60)
    <2>2. KeyOf(c) # None => Recorded(KeyOf(c))' # {}
      BY <1>1, <1>3, RecordFacts DEF Recorded
    <2>. QED BY <1>1, <1>3, <1>11, <2>1, <2>2 DEF History
  <1>14. OperatorChangesWhatTheySaw'
    <2>1. req[c].by = "operator" /\ req[c].op # "create" => row[b].ver = req[c].expect
      BY <1>1 DEF RowLocks, Writes, Writing, Working, Expected, b
    <2>. QED BY <1>1, <1>11, <2>1, ZenonT(60) DEF OperatorChangesWhatTheySaw
  <1>. QED BY <1>4, <1>5, <1>6, <1>7, <1>9, <1>10, <1>12, <1>13, <1>14, Zenon

-----------------------------------------------------------------------------
(* The invariant.                                                          *)

\* The initial bookings are apart and no call has started.
LEMMA InitHolds == Init => IInv
  <1>. SUFFICES ASSUME Init PROVE IInv
    BY ZenonT(60)
  <1>1. \A c \in Calls : pc[c] = "idle" /\ snap[c] = NoSnap /\ tx[c] = NoTx
    BY Zenon DEF Init
  <1>2. \A b \in Bookings : row[b] = InitialRow(b)
    BY Zenon DEF Init
  <1>3. Shapes
    <2>1. row \in [Bookings -> RowType]
      BY InitialRows, Zenon DEF Init
    <2>2. req \in [Calls -> Requests \cup {None}] /\ DOMAIN snap = Calls /\ DOMAIN tx = Calls /\ recs = {}
      BY Zenon DEF Init
    <2>3. pc \in [Calls -> {"idle", "begin", "returned"} \cup Open]
      BY Zenon DEF Init
    <2>4. NoSnap.row \in RowType
      BY Zenon DEF NoSnap, RowType
    <2>. QED BY <1>1, <2>1, <2>2, <2>3, <2>4, Zenon DEF Shapes
  <1>4. RowLocks /\ KeyLocks /\ Writes /\ Apart
    BY <1>1, Zenon DEF RowLocks, KeyLocks, Writes, Apart, Working, Reserved, Writing
  <1>5. NoDoubleBooking
    BY <1>2, InitialRows, ConstantsAssumption, Zenon DEF NoDoubleBooking
  <1>6. History /\ OneEffectPerKey /\ OperatorChangesWhatTheySaw
    BY Zenon DEF Init, History, OneEffectPerKey, OperatorChangesWhatTheySaw
  <1>. QED BY <1>3, <1>4, <1>5, <1>6, Zenon DEF IInv

\* Every step of every call keeps the invariant.
LEMMA NextKeeps == IInv /\ [Next]_vars => IInv'
  <1>. SUFFICES ASSUME IInv, [Next]_vars PROVE IInv'
    BY Zenon
  <1>1. CASE UNCHANGED vars
    BY <1>1 DEF vars, IInv, Shapes, RowLocks, KeyLocks, Writes, Apart, NoDoubleBooking, History,
       OneEffectPerKey, OperatorChangesWhatTheySaw, HoldsRow, Reserved, Writing, KeyOf, Recorded, Expected
  <1>2. ASSUME NEW c \in Calls, Ended(c), pc[c] \in Open \cup {"begin"} PROVE IInv'
    BY <1>2, EndedKeeps, Zenon
  <1>3. ASSUME NEW c \in Calls, NEW r \in Requests, Start(c, r) PROVE IInv'
    BY <1>3, StartKeeps, Zenon
  <1>4. ASSUME NEW c \in Calls, Begin(c) PROVE IInv'
    BY <1>4, BeginKeeps, Zenon
  <1>5. ASSUME NEW c \in Calls, Reserve(c) PROVE IInv'
    <2>1. pc[c] \in Open \cup {"begin"}
      BY <1>5, Zenon DEF Reserve, Open
    <2>2. \/ Ended(c)
          \/ /\ pc[c] = "reserve" /\ ~Waits(c) /\ Recorded(KeyOf(c)) = {}
             /\ Passed(c, IF req[c].op = "create" THEN "materialize" ELSE "load")
      BY <1>5, EndedSteps, Zenon DEF Reserve, Step, Goto, Passed
    <2>. QED BY <1>2, <2>1, <2>2, ReserveKeeps, Zenon
  <1>6. ASSUME NEW c \in Calls, Load(c) PROVE IInv'
    <2>1. pc[c] \in Open \cup {"begin"} /\ pc[c] = "load"
      BY <1>6, Zenon DEF Load, Open
    <2>2. \/ Ended(c)
          \/ /\ Answer(c, "already", snap[c].row)
             /\ recs' = recs \cup Record(c, "in_progress", None)
             /\ UNCHANGED <<row, days, events>>
          \/ /\ Sees(c) /\ ~Waits(c) /\ Current(c) /\ Expected(c) /\ Changeable(c)
             /\ Passed(c, IF req[c].op = "cancel" THEN "write" ELSE "materialize")
      BY <1>6, EndedSteps, Zenon DEF Load, Step, Goto, Passed
    <2>3. req[c].op # "create"
      BY <2>1, Zenon DEF IInv, Shapes
    <2>. QED BY <1>2, <2>1, <2>2, <2>3, AcknowledgeKeeps, LoadKeeps, Zenon
  <1>7. ASSUME NEW c \in Calls, Materialize(c) PROVE IInv'
    <2>1. pc[c] \in Open \cup {"begin"} /\ pc[c] = "materialize"
      BY <1>7, Zenon DEF Materialize, Open, Working
    <2>2. Ended(c) \/ \E p \in {"materialize", "lock", "write"} : Passed(c, p)
      BY <1>7, EndedSteps, Zenon DEF Materialize, Step, Goto, Passed
    <2>. QED BY <1>2, <2>1, <2>2, DatesKeep, Zenon
  <1>8. ASSUME NEW c \in Calls, LockDate(c) PROVE IInv'
    <2>1. pc[c] = "lock" /\ \E p \in {"materialize", "lock", "write"} : Passed(c, p)
      BY <1>8, Zenon DEF LockDate, Step, Goto, Passed
    <2>. QED BY <2>1, DatesKeep, Zenon
  <1>9. ASSUME NEW c \in Calls, Insert(c) PROVE IInv'
    <2>1. pc[c] \in Open \cup {"begin"} /\ pc[c] = "write" /\ req[c].op = "create"
      BY <1>9, Zenon DEF Insert, Open, Working
    <2>2. CASE Refuse(c, "unavailable")
      BY <1>2, <2>1, <2>2, EndedSteps, Zenon
    <2>3. CASE ~Refuse(c, "unavailable")
      BY <1>9, <2>1, <2>3, InsertKeeps, Zenon DEF Insert
    <2>. QED BY <2>2, <2>3, Zenon
  <1>10. ASSUME NEW c \in Calls, Update(c) PROVE IInv'
    BY <1>10, UpdateKeeps, Zenon
  <1>11. ASSUME NEW c \in Calls, Check(c) PROVE IInv'
    <2>1. pc[c] \in Open \cup {"begin"} /\ pc[c] = "check" /\ ~Waits(c)
      BY <1>11, Zenon DEF Check, Open, Working
    <2>2. \/ Ended(c)
          \/ /\ Passed(c, "commit")
             /\ \A b \in Bookings \ {tx[c].booking} :
                   ~(Active(row[b]) /\ Clash(row[b].place, tx[c].new.place))
      BY <1>11, EndedSteps, Zenon DEF Check, Step, Goto, Passed
    <2>. QED BY <1>2, <2>1, <2>2, CheckKeeps, Zenon
  <1>12. ASSUME NEW c \in Calls, Commit(c) PROVE IInv'
    BY <1>12, CommitKeeps, Zenon
  <1>13. ASSUME NEW c \in Calls, Abort(c) \/ Fail(c) PROVE IInv'
    BY <1>2, <1>13, EndedSteps, Zenon DEF Abort, Fail
  <1>14. ASSUME NEW c \in Calls, Victim(c) PROVE IInv'
    <2>1. Ended(c) /\ \E d \in Calls : WaitsFor(c, d)
      BY <1>14, EndedSteps, Zenon DEF Victim, Stuck
    <2>2. pc[c] \in Open
      BY <2>1, Zenon DEF WaitsFor, Open, Working
    <2>. QED BY <1>2, <2>1, <2>2, Zenon
  <1>. QED BY <1>1, <1>3, <1>4, <1>5, <1>6, <1>7, <1>8, <1>9, <1>10, <1>11, <1>12, <1>13, <1>14, Zenon
    DEF Next, Act, createBookingOnce, rescheduleBookingOnce, cancelBookingOnce,
       adminCreateBookingOnce, adminRescheduleBookingOnce, adminCancelBookingOnce

-----------------------------------------------------------------------------
(* Results.                                                                *)

\* The inductive invariant holds in every reachable state.
THEOREM Invariant == Spec => []IInv
  BY InitHolds, NextKeeps, PTL DEF Spec

\* No two confirmed bookings of a staff member ever overlap, for any number of
\* concurrent customers and operators: the exclusion constraint lets rows through
\* one at a time, whatever the snapshots showed.
THEOREM NeverDoubleBooked == Spec => []NoDoubleBooking
  <1>1. IInv => NoDoubleBooking
    BY Zenon DEF IInv
  <1>. QED BY <1>1, Invariant, PTL

\* No idempotency key is carried out twice, for any mix of retries and races.
THEOREM EffectsOncePerKey == Spec => []OneEffectPerKey
  <1>1. IInv => OneEffectPerKey
    BY Zenon DEF IInv
  <1>. QED BY <1>1, Invariant, PTL

\* An operator's change always starts from the version they named.
THEOREM OperatorsNeverOverwrite == Spec => []OperatorChangesWhatTheySaw
  <1>1. IInv => OperatorChangesWhatTheySaw
    BY Zenon DEF IInv
  <1>. QED BY <1>1, Invariant, PTL

-----------------------------------------------------------------------------
(* The repository implements Calendar.                                     *)

\* A key that is not None is one of the calendar's keys.
LEMMA KeysOfCalls == \A c \in Calls : req[c] \in Requests /\ KeyOf(c) # None => KeyOf(c) \in Keys
  BY DEF KeyOf, Keys

\* The keys on record after a commit: those before it and the call's.
LEMMA SpentKeys ==
  ASSUME NEW c, NEW s, NEW b, recs' = recs \cup Record(c, s, b)
  PROVE  {r.key : r \in recs}' = {r.key : r \in recs} \cup ({KeyOf(c)} \ {None})
  <1>. DEFINE R == Record(c, s, b)
              k == KeyOf(c)
  <1>1. /\ \A r \in R : r.key = k
        /\ k = None => R = {}
        /\ k # None => \E r \in R : r.key = k
    BY RecordFacts
  <1>2. {r.key : r \in recs}' = {r.key : r \in recs} \cup {r.key : r \in R}
    BY Zenon DEF R
  <1>. HIDE DEF R, k
  <1>3. {r.key : r \in R} = {k} \ {None}
    BY <1>1, Zenon
  <1>. QED BY <1>2, <1>3, Zenon DEF k

\* A call with a reserved key spends it for the first time.
LEMMA SpendsOnce ==
  ASSUME IInv, NEW c \in Calls, pc[c] \in Open \ {"reserve"}, NEW s, NEW b,
         recs' = recs \cup Record(c, s, b)
  PROVE  calendar!Spend(KeyOf(c))
  <1>1. KeyOf(c) # None => KeyOf(c) \notin {r.key : r \in recs}
    BY Zenon DEF IInv, KeyLocks, Reserved, Recorded, Open
  <1>2. {r.key : r \in recs}' = {r.key : r \in recs} \cup ({KeyOf(c)} \ {None})
    BY SpentKeys, Zenon
  <1>. QED BY <1>1, <1>2, Zenon DEF calendar!Spend

\* A step that leaves the bookings and the records alone is a stutter.
LEMMA QuietStutters ==
  ASSUME UNCHANGED <<row, recs>>
  PROVE  UNCHANGED calendar!vars
  BY Zenon DEF calendar!vars, Active

\* The calendar's appointments and cancelled bookings after row b became new.
LEMMA RowToCalendar ==
  ASSUME NEW b \in Bookings, NEW new, row \in [Bookings -> RowType],
         row' = [row EXCEPT ![b] = new]
  PROVE  /\ [a \in Bookings |-> IF Active(row[a]) THEN row[a].place ELSE None]' =
              [[a \in Bookings |-> IF Active(row[a]) THEN row[a].place ELSE None]
                  EXCEPT ![b] = IF Active(new) THEN new.place ELSE None]
         /\ row[b].status # "cancelled" =>
              {a \in Bookings : row[a].status = "cancelled"}' =
              {a \in Bookings : row[a].status = "cancelled"} \cup
                  (IF new.status = "cancelled" THEN {b} ELSE {})
  BY Zenon DEF Active

\* COMMIT is one command of the calendar.
LEMMA CommitRefines ==
  ASSUME IInv, NEW c \in Calls, Commit(c)
  PROVE  calendar!Next
  <1>. DEFINE new == tx[c].new
              ap == [a \in Bookings |-> IF Active(row[a]) THEN row[a].place ELSE None]
              gn == {a \in Bookings : row[a].status = "cancelled"}
  <1>0. PICK b \in Bookings : b = tx[c].booking
    BY Zenon DEF Commit, IInv, Writes, Writing
  <1>1. /\ pc[c] = "commit" /\ Writing(c) /\ pc[c] \in Working
        /\ new \in RowType \ {NoRow}
        /\ row' = [row EXCEPT ![b] = new]
        /\ recs' = recs \cup Record(c, "completed", b)
        /\ row \in [Bookings -> RowType]
    BY <1>0, Zenon DEF Commit, IInv, Writes, Writing, Working, Shapes
  <1>2. req[c] \in Requests
    BY <1>1, Zenon DEF IInv, Shapes
  <1>3. PICK k \in Keys \cup {None} : k = KeyOf(c)
    BY <1>2, KeysOfCalls, Zenon
  <1>4. calendar!Spend(k)
    <2>1. calendar!Spend(KeyOf(c))
      BY <1>1, SpendsOnce, Zenon DEF Open, Working
    <2>. QED BY <1>3, <2>1, Zenon DEF calendar!Spend
  <1>5. /\ req[c].op = "create" => row[b] = NoRow
        /\ req[c].op # "create" => Active(row[b])
        /\ req[c].op = "cancel" <=> ~Active(new)
    BY <1>0, <1>1, Zenon DEF IInv, Writes, RowLocks
  <1>6. Active(new) => \A a \in Bookings \ {b} : ap[a] # None => ~Clash(ap[a], new.place)
    BY <1>0, <1>1, Zenon DEF IInv, Apart
  <1>7. row[b].status # "cancelled"
    BY <1>5 DEF NoRow, Active
  <1>8. ap' = [ap EXCEPT ![b] = IF Active(new) THEN new.place ELSE None]
    BY <1>1, RowToCalendar, Zenon
  <1>9. gn' = gn \cup (IF new.status = "cancelled" THEN {b} ELSE {})
    BY <1>1, <1>7, RowToCalendar, Zenon
  <1>10. Active(new) => new.place \in Places
    BY <1>1, ActiveRows, Zenon
  <1>11. CASE req[c].op = "create"
    <2>1. ap[b] = None /\ b \notin gn
      BY <1>1, <1>5, <1>11 DEF NoRow, Active
    <2>2. Active(new) /\ ap' = [ap EXCEPT ![b] = new.place] /\ gn' = gn
      BY <1>5, <1>8, <1>9, <1>11, Zenon DEF Active
    <2>3. PICK p \in Places : p = new.place
      BY <1>10, <2>2, Zenon
    <2>4. calendar!Book(b, p)
      BY <1>6, <2>1, <2>2, <2>3, Zenon DEF calendar!Book, calendar!Put, calendar!Free
    <2>. QED BY <1>4, <2>4, ZenonT(60) DEF calendar!Next
  <1>12. CASE req[c].op = "cancel"
    <2>1. ap[b] # None
      BY <1>1, <1>5, <1>12, ActiveRows, ConstantsAssumption, ZenonT(60)
    <2>2. new.status = "cancelled"
      BY <1>1, <1>5, <1>12, Zenon DEF RowType, Active
    <2>3. ap' = [ap EXCEPT ![b] = None] /\ gn' = gn \cup {b}
      BY <1>5, <1>8, <1>9, <1>12, <2>2, Zenon
    <2>4. calendar!Cancel(b)
      BY <2>1, <2>3, Zenon DEF calendar!Cancel
    <2>. QED BY <1>4, <2>4, ZenonT(60) DEF calendar!Next
  <1>13. CASE req[c].op \notin {"create", "cancel"}
    <2>1. ap[b] # None
      BY <1>1, <1>5, <1>13, ActiveRows, ConstantsAssumption
    <2>2. Active(new) /\ ap' = [ap EXCEPT ![b] = new.place] /\ gn' = gn
      BY <1>5, <1>8, <1>9, <1>13, Zenon DEF Active
    <2>3. PICK p \in Places : p = new.place
      BY <1>10, <2>2, Zenon
    <2>4. calendar!Move(b, p)
      BY <1>6, <2>1, <2>2, <2>3, Zenon DEF calendar!Move, calendar!Put, calendar!Free
    <2>. QED BY <1>4, <2>4, Zenon DEF calendar!Next
  <1>. QED BY <1>11, <1>12, <1>13, Zenon

\* Recording a cancel that found its work done only spends its key.
LEMMA AcknowledgeRefines ==
  ASSUME IInv, NEW c \in Calls, pc[c] = "load", row' = row,
         recs' = recs \cup Record(c, "in_progress", None)
  PROVE  [calendar!Next]_(calendar!vars)
  <1>1. CASE KeyOf(c) = None
    <2>1. recs' = recs
      BY <1>1, RecordFacts, Zenon
    <2>. QED BY <2>1, QuietStutters, Zenon
  <1>2. CASE KeyOf(c) # None
    <2>1. calendar!Spend(KeyOf(c))
      BY SpendsOnce, Zenon DEF Open
    <2>2. PICK k \in Keys : k = KeyOf(c)
      BY <1>2, KeysOfCalls, Zenon DEF IInv, Shapes
    <2>3. calendar!Spend(k)
      BY <2>1, <2>2, Zenon DEF calendar!Spend
    <2>4. calendar!Acknowledge(k)
      BY <1>2, <2>2, Zenon DEF calendar!Acknowledge, Active
    <2>. QED BY <2>3, <2>4, Zenon DEF calendar!Next
  <1>. QED BY <1>1, <1>2, Zenon

\* Every step of the repository is a step of the calendar or a stutter.
LEMMA StepRefines == IInv /\ [Next]_vars => [calendar!Next]_(calendar!vars)
  <1>. SUFFICES ASSUME IInv, [Next]_vars PROVE [calendar!Next]_(calendar!vars)
    BY Zenon
  <1>1. \/ UNCHANGED <<row, recs>>
        \/ \E c \in Calls : Commit(c)
        \/ \E c \in Calls : /\ pc[c] = "load" /\ row' = row
                            /\ recs' = recs \cup Record(c, "in_progress", None)
    <2>1. \A c : Ended(c) => UNCHANGED <<row, recs>>
      BY Zenon DEF Ended
    <2>2. CASE UNCHANGED vars
      BY <2>2, Zenon DEF vars
    <2>3. ASSUME NEW c \in Calls, Abort(c) \/ Fail(c) \/ Victim(c) PROVE UNCHANGED <<row, recs>>
      BY <2>1, <2>3, EndedSteps, Zenon DEF Abort, Fail, Victim
    <2>4. ASSUME NEW c \in Calls, Reserve(c) PROVE UNCHANGED <<row, recs>>
      BY <2>1, <2>4, EndedSteps, Zenon DEF Reserve, Step
    <2>5. ASSUME NEW c \in Calls, Load(c)
          PROVE  \/ UNCHANGED <<row, recs>>
                 \/ /\ pc[c] = "load" /\ row' = row
                    /\ recs' = recs \cup Record(c, "in_progress", None)
      BY <2>1, <2>5, EndedSteps, Zenon DEF Load, Step
    <2>6. ASSUME NEW c \in Calls, Materialize(c) \/ LockDate(c) PROVE UNCHANGED <<row, recs>>
      BY <2>1, <2>6, EndedSteps, Zenon DEF Materialize, LockDate, Step
    <2>7. ASSUME NEW c \in Calls, Insert(c) \/ Update(c) \/ Check(c) PROVE UNCHANGED <<row, recs>>
      BY <2>1, <2>7, EndedSteps, Zenon DEF Insert, Update, Check, Step
    <2>8. ASSUME NEW c \in Calls, Begin(c) \/ \E r \in Requests : Start(c, r)
          PROVE  UNCHANGED <<row, recs>>
      BY <2>8, Zenon DEF Begin, Start
    <2>. QED BY Zenon, <2>2, <2>3, <2>4, <2>5, <2>6, <2>7, <2>8 DEF Next, Act, createBookingOnce, rescheduleBookingOnce, cancelBookingOnce,
       adminCreateBookingOnce, adminRescheduleBookingOnce, adminCancelBookingOnce
  <1>. QED BY <1>1, QuietStutters, CommitRefines, AcknowledgeRefines, Zenon

\* The repository implements the calendar: seen through its committed rows and
\* records, it is changed one command at a time, no two appointments clash and
\* no command is carried out twice.
THEOREM RefinesCalendar == Spec => ImplementsCalendar
  <1>1. Init => calendar!Init
    BY DEF Init, calendar!Init, InitialRow, NoRow, Active
  <1>. QED BY <1>1, StepRefines, Invariant, PTL DEF Spec, ImplementsCalendar, calendar!Spec

-----------------------------------------------------------------------------
(* The order of the locks.                                                 *)

\* S is what a loop of acquireScheduleLocks has been through, and there is more
\* to come.
Prefix(c, S) ==
    /\ S \subseteq LockDates(c) /\ S # LockDates(c)
    /\ \A x \in S, y \in LockDates(c) \ S : x[2] < y[2]

\* A call in one of the two loops has gone through its dates in order, and holds
\* no date before the second.
DatesOf(c) ==
    /\ pc[c] \notin Working => dates[c] = NoDates
    /\ pc[c] \in {"materialize", "lock"} => req[c].op # "cancel"
    /\ pc[c] = "materialize" => dates[c].held = {} /\ Prefix(c, dates[c].made)
    /\ pc[c] = "lock" => Prefix(c, dates[c].held)

DateType == [made : SUBSET (Staff \X Int), held : SUBSET (Staff \X Int)]

DateLocks == dates \in [Calls -> DateType] /\ \A c \in Calls : DatesOf(c)

\* Division rounds down.
LEMMA DivMonotonic ==
  ASSUME NEW L \in Nat \ {0}, NEW a \in Int, NEW b \in Int, a <= b
  PROVE  a \div L <= b \div L
  <1>1. /\ a \div L \in Int /\ b \div L \in Int
        /\ a % L \in 0 .. (L - 1) /\ b % L \in 0 .. (L - 1)
    OBVIOUS
  <1>2. a = L * (a \div L) + (a % L) /\ b = L * (b \div L) + (b % L)
    OBVIOUS
  <1>3. ASSUME NEW p \in Int, NEW q \in Int, p >= q + 1 PROVE L * p >= L * q + L
    <2>1. L * (p - q - 1) >= 0
      BY <1>3
    <2>2. L * (p - q - 1) = L * p - L * q - L
      OBVIOUS
    <2>3. L * p \in Int /\ L * q \in Int
      OBVIOUS
    <2>. QED BY <2>1, <2>2, <2>3
  <1>4. SUFFICES ASSUME a \div L >= b \div L + 1 PROVE FALSE
    BY <1>1
  <1>5. L * (a \div L) >= L * (b \div L) + L
    BY <1>1, <1>3, <1>4, Zenon
  <1>6. L * (a \div L) \in Int /\ L * (b \div L) \in Int
    BY <1>1
  <1>. QED BY <1>1, <1>2, <1>5, <1>6

INSTANCE WellFoundedInduction

\* The natural numbers are well-founded.
LEMMA LeastNumber ==
  ASSUME NEW T, T \subseteq Nat, T # {}
  PROVE  \E x \in T : \A y \in T : x <= y
  <1>. DEFINE Less == OpToRel(<, Nat)
  <1>1. IsWellFoundedOn(Less, Nat)
    BY NatLessThanWellFounded, Zenon
  <1>2. \A x, y \in Nat : x < y => <<x, y>> \in Less
    BY Zenon DEF OpToRel
  <1>. HIDE DEF Less
  <1>3. PICK x \in T : \A y \in T : ~(<<y, x>> \in Less)
    BY <1>1, WFMin, Zenon
  <1>4. ASSUME NEW y \in T PROVE x <= y
    <2>1. x \in Nat /\ y \in Nat
      BY Zenon
    <2>2. ~(y < x)
      BY <1>2, <1>3, <2>1, Zenon
    <2>. QED BY <2>1, <2>2
  <1>. QED BY <1>4, Zenon

\* The dates a writer locks are one or more days in a row of one staff member.
LEMMA DatesInARow ==
  ASSUME NEW c \in Calls, req[c] \in Requests, req[c].op # "cancel", snap[c].row \in RowType,
         req[c].op # "create" => Active(snap[c].row)
  PROVE  \E s \in Staff, a, b \in Int : a <= b /\ LockDates(c) = {<<s, d>> : d \in a .. b}
  <1>1. req[c].place.staff \in Staff /\ req[c].place.span \in Spans
    BY ConstantsAssumption, Zenon DEF Places
  <1>2. NewPlace(c).staff \in Staff
    <2>1. CASE req[c].op = "create"
      BY <1>1, <2>1, Zenon DEF NewPlace
    <2>2. CASE req[c].op # "create"
      <3>1. snap[c].row.place.staff \in Staff
        BY <2>2, ActiveRows, ZenonT(60) DEF Places
      <3>. QED BY <2>2, <3>1, Zenon DEF NewPlace
    <2>. QED BY <2>1, <2>2, Zenon
  <1>. DEFINE zone == Zone[IF req[c].by = "agent" THEN req[c].place.staff ELSE NewPlace(c).staff]
              from == req[c].place.span.from + zone
              last == req[c].place.span.until - 1 + zone
  <1>3. from \in Int /\ last \in Int /\ from <= last
    <2>1. zone \in Int
      BY <1>1, <1>2, TimesAssumption, ZenonT(60)
    <2>. QED BY <1>1, <2>1, TimesAssumption
  <1>4. from \div DayLength \in Int /\ last \div DayLength \in Int
    BY <1>3, TimesAssumption
  <1>5. from \div DayLength <= last \div DayLength
    BY <1>3, DivMonotonic, TimesAssumption, Zenon
  <1>6. LockDates(c) = {<<NewPlace(c).staff, d>> : d \in (from \div DayLength) .. (last \div DayLength)}
    BY Zenon DEF LockDates, TouchedLocalDates
  <1>. HIDE DEF from, last
  <1>. QED BY <1>2, <1>4, <1>5, <1>6, Zenon

\* First finds the earliest date there is.
LEMMA FirstIsEarliest ==
  ASSUME NEW c, NEW s \in Staff, NEW a \in Int, NEW b \in Int, NEW S,
         S \subseteq {<<s, d>> : d \in a .. b}, S # {}
  PROVE  First(c, S) \in S /\ \A e \in S : First(c, S)[2] <= e[2]
  <1>. DEFINE T == {e[2] - a : e \in S}
  <1>1. \A e \in S : e[2] \in a .. b
    OBVIOUS
  <1>2. T \subseteq Nat /\ T # {}
    BY <1>1
  <1>3. PICK x \in T : \A y \in T : x <= y
    BY <1>2, LeastNumber, Zenon
  <1>4. PICK f \in S : x = f[2] - a
    BY <1>3, Zenon
  <1>5. ASSUME NEW e \in S PROVE f[2] <= e[2]
    <2>1. e[2] - a \in T /\ f[2] - a <= e[2] - a
      BY <1>3, <1>4, Zenon
    <2>. QED BY <1>1, <2>1
  <1>6. \E f1 \in S : \A e \in S : f1[2] <= e[2]
    BY <1>5, Zenon
  <1>. QED BY <1>6, Zenon DEF First

\* The next date of a loop is the first of those that are left, and taking it
\* ends the loop or leaves a longer prefix.
LEMMA LoopGoesOn ==
  ASSUME NEW c \in Calls, req[c] \in Requests, req[c].op # "cancel", snap[c].row \in RowType,
         req[c].op # "create" => Active(snap[c].row),
         NEW S, Prefix(c, S), NEW x, x = First(c, LockDates(c) \ S)
  PROVE  /\ x \in Staff \X Int
         /\ \A y \in S : y[2] < x[2]
         /\ S \cup {x} = LockDates(c) \/ Prefix(c, S \cup {x})
  <1>1. PICK s \in Staff, a \in Int, b \in Int : a <= b /\ LockDates(c) = {<<s, d>> : d \in a .. b}
    BY DatesInARow, Zenon
  <1>2. x \in LockDates(c) \ S /\ \A e \in LockDates(c) \ S : x[2] <= e[2]
    <2>1. LockDates(c) \ S \subseteq {<<s, d>> : d \in a .. b} /\ LockDates(c) \ S # {}
      BY <1>1, Zenon DEF Prefix
    <2>. HIDE DEF Prefix
    <2>. QED BY <2>1, FirstIsEarliest, Zenon
  <1>3. x \in Staff \X Int
    BY <1>1, <1>2
  <1>4. \A y \in S : y[2] < x[2]
    BY <1>2, Zenon DEF Prefix
  <1>5. ASSUME NEW y \in LockDates(c) \ S, y # x PROVE x[2] < y[2]
    <2>1. PICK d \in a .. b, e \in a .. b : x = <<s, d>> /\ y = <<s, e>>
      BY <1>1, <1>2, Zenon
    <2>2. d # e
      BY <1>5, <2>1, Zenon
    <2>3. x[2] = d /\ y[2] = e
      BY <2>1
    <2>4. d <= e
      BY <1>2, <2>3, Zenon
    <2>. QED BY <2>2, <2>3, <2>4
  <1>6. ASSUME S \cup {x} # LockDates(c) PROVE Prefix(c, S \cup {x})
    BY <1>2, <1>4, <1>5, <1>6, Zenon DEF Prefix
  <1>. QED BY <1>3, <1>4, <1>6, Zenon

\* A loop starts with at least one date before it.
LEMMA LoopStarts ==
  ASSUME NEW c \in Calls, req[c] \in Requests, req[c].op # "cancel", snap[c].row \in RowType,
         req[c].op # "create" => Active(snap[c].row)
  PROVE  Prefix(c, {})
  <1>1. PICK s \in Staff, a \in Int, b \in Int : a <= b /\ LockDates(c) = {<<s, d>> : d \in a .. b}
    BY DatesInARow, Zenon
  <1>2. <<s, a>> \in LockDates(c)
    BY <1>1
  <1>. QED BY <1>2, Zenon DEF Prefix

\* A step of c is about c alone, and what it does to its dates is all there is to
\* show.
LEMMA OthersKeepDates ==
  ASSUME IInv, DateLocks, NEW c \in Calls, dates' \in [Calls -> DateType], DatesOf(c)',
         \A d \in Calls \ {c} : /\ pc'[d] = pc[d] /\ req'[d] = req[d]
                                /\ snap'[d] = snap[d] /\ dates'[d] = dates[d]
  PROVE  DateLocks'
  <1>1. ASSUME NEW d \in Calls \ {c} PROVE DatesOf(d)'
    <2>1. LockDates(d)' = LockDates(d)
      BY DEF LockDates, NewPlace
    <2>2. \A S : Prefix(d, S)' <=> Prefix(d, S)
      BY <2>1, Zenon DEF Prefix
    <2>3. /\ pc'[d] = pc[d] /\ req'[d] = req[d] /\ dates'[d] = dates[d]
          /\ Prefix(d, dates[d].made)' <=> Prefix(d, dates[d].made)
          /\ Prefix(d, dates[d].held)' <=> Prefix(d, dates[d].held)
      BY <2>1, Zenon DEF Prefix
    <2>4. DatesOf(d)
      BY Zenon DEF DateLocks
    <2>. QED BY <2>3, <2>4, ZenonT(60) DEF DatesOf
  <1>. QED BY <1>1, Zenon DEF DateLocks

\* Whoever is not at work has no dates.
LEMMA EmptyDates ==
  ASSUME IInv, DateLocks, NEW c \in Calls, NEW p, p \notin Working, Goto(c, p), Close(c),
         req' = req
  PROVE  DateLocks'
  <1>1. dates' \in [Calls -> DateType] /\ dates'[c] = NoDates
    BY Zenon DEF Close, DateLocks, DateType, NoDates
  <1>2. pc'[c] = p
    BY Zenon DEF Goto, IInv, Shapes
  <1>3. DatesOf(c)'
    BY <1>1, <1>2, Zenon DEF DatesOf, Working
  <1>4. \A d \in Calls \ {c} : /\ pc'[d] = pc[d] /\ req'[d] = req[d]
                               /\ snap'[d] = snap[d] /\ dates'[d] = dates[d]
    BY Zenon DEF Goto, Close, IInv, Shapes, DateLocks
  <1>. QED BY <1>1, <1>3, <1>4, OthersKeepDates, Zenon

\* The end of an attempt gives the dates up.
LEMMA EndsGiveDatesUp ==
  ASSUME IInv, DateLocks, NEW c \in Calls
  PROVE  /\ \A k, r : Return(c, k, r) => DateLocks'
         /\ \A k : Refuse(c, k) => DateLocks'
         /\ Retry(c) => DateLocks'
         /\ \A k, r : Answer(c, k, r) => DateLocks'
         /\ \A r : Replay(c, r) => DateLocks'
  <1>1. \A k, r : Return(c, k, r) => DateLocks'
    BY EmptyDates, Zenon DEF Return, Working
  <1>2. \A k : Refuse(c, k) => DateLocks'
    BY <1>1, Zenon DEF Refuse
  <1>3. Retry(c) => DateLocks'
    BY <1>2, EmptyDates, Zenon DEF Retry, Working
  <1>. QED BY <1>1, <1>2, <1>3, Zenon DEF Answer, Replay

\* A statement outside the two loops leaves the dates alone.
LEMMA StepsKeepDates ==
  ASSUME IInv, DateLocks, NEW c \in Calls, NEW p, Step(c, p), dates' = dates,
         p \in {"load", "write", "check", "commit"}, p = "load" => pc[c] \notin Working
  PROVE  DateLocks'
  <1>1. pc'[c] = p
    BY Zenon DEF Step, Goto, IInv, Shapes
  <1>2. p = "load" => dates[c] = NoDates
    BY Zenon DEF DateLocks, DatesOf
  <1>3. DatesOf(c)'
    BY <1>1, <1>2, Zenon DEF DatesOf, Working
  <1>4. \A d \in Calls \ {c} : /\ pc'[d] = pc[d] /\ req'[d] = req[d]
                               /\ snap'[d] = snap[d] /\ dates'[d] = dates[d]
    BY Zenon DEF Step, Goto, IInv, Shapes
  <1>5. dates' \in [Calls -> DateType]
    BY Zenon DEF DateLocks
  <1>. QED BY <1>3, <1>4, <1>5, OthersKeepDates, Zenon

\* The first loop starts.
LEMMA LoopStartKeepsDates ==
  ASSUME IInv, DateLocks, NEW c \in Calls, Step(c, "materialize"), dates' = dates,
         pc[c] \in {"reserve", "load"}, req[c].op # "cancel",
         req[c].op # "create" => Active(snap[c].row)
  PROVE  DateLocks'
  <1>1. pc'[c] = "materialize" /\ req' = req /\ snap' = snap /\ dates' = dates
    BY Zenon DEF Step, Goto, IInv, Shapes
  <1>2. dates[c] = NoDates
    BY Zenon DEF DateLocks, DatesOf, Working
  <1>3. Prefix(c, {})
    BY LoopStarts, Zenon DEF IInv, Shapes
  <1>4. LockDates(c)' = LockDates(c)
    BY <1>1, Zenon DEF LockDates, NewPlace
  <1>5. DatesOf(c)'
    <2>1. dates'[c].held = {} /\ dates'[c].made = {}
      BY <1>1, <1>2 DEF NoDates
    <2>2. Prefix(c, dates[c].made)'
      BY <1>3, <1>4, <2>1, Zenon DEF Prefix
    <2>. QED BY <1>1, <2>1, <2>2, ZenonT(60) DEF DatesOf, Working
  <1>6. \A d \in Calls \ {c} : /\ pc'[d] = pc[d] /\ req'[d] = req[d]
                               /\ snap'[d] = snap[d] /\ dates'[d] = dates[d]
    BY Zenon DEF Step, Goto, IInv, Shapes
  <1>. QED BY <1>1, <1>5, <1>6, OthersKeepDates, ZenonT(60) DEF DateLocks

\* What a call in one of the loops knows of its next date.
LEMMA NextDateFacts ==
  ASSUME IInv, DateLocks, NEW c \in Calls, pc[c] \in {"materialize", "lock"},
         NEW S, S = IF pc[c] = "materialize" THEN dates[c].made ELSE dates[c].held
  PROVE  /\ NextDate(c) \in Staff \X Int
         /\ \A y \in S : y[2] < NextDate(c)[2]
         /\ S \cup {NextDate(c)} = LockDates(c) \/ Prefix(c, S \cup {NextDate(c)})
  <1>1. /\ req[c] \in Requests /\ snap[c].row \in RowType
        /\ req[c].op # "create" => Active(snap[c].row)
    BY Zenon DEF IInv, Shapes, RowLocks, Working
  <1>2. req[c].op # "cancel" /\ Prefix(c, S)
    BY Zenon DEF DateLocks, DatesOf
  <1>3. NextDate(c) = First(c, LockDates(c) \ S)
    BY Zenon DEF NextDate
  <1>. QED BY <1>1, <1>2, <1>3, LoopGoesOn, ZenonT(60)

\* A round of one of the loops.
LEMMA RoundsKeepDates ==
  ASSUME IInv, DateLocks, NEW c \in Calls, Materialize(c) \/ LockDate(c)
  PROVE  DateLocks'
  <1>1. CASE Retry(c)
    BY <1>1, EndsGiveDatesUp, Zenon
  <1>. DEFINE x == NextDate(c)
  <1>2. CASE Materialize(c) /\ ~Retry(c)
    <2>1. PICK made : made = dates[c].made \cup {x}
      BY Zenon
    <2>2. /\ pc[c] = "materialize" /\ dates' = [dates EXCEPT ![c].made = made]
          /\ Step(c, IF made = LockDates(c) THEN "lock" ELSE "materialize")
      BY <1>2, <2>1, Zenon DEF Materialize
    <2>3. /\ x \in Staff \X Int
          /\ made = LockDates(c) \/ Prefix(c, made)
      BY <2>1, <2>2, NextDateFacts, Zenon
    <2>. HIDE DEF x
    <2>4. dates[c] \in DateType /\ dates[c].held = {} /\ req[c].op # "cancel"
      BY <2>2, Zenon DEF DateLocks, DatesOf
    <2>5. made \in SUBSET (Staff \X Int)
      BY <2>1, <2>3, <2>4, Zenon DEF DateType
    <2>6. /\ dates' \in [Calls -> DateType] /\ dates'[c].made = made /\ dates'[c].held = {}
          /\ \A d \in Calls \ {c} : dates'[d] = dates[d]
      BY <2>2, <2>4, <2>5, Zenon DEF DateLocks, DateType
    <2>7. /\ pc'[c] = (IF made = LockDates(c) THEN "lock" ELSE "materialize")
          /\ req' = req /\ snap' = snap /\ \A d \in Calls \ {c} : pc'[d] = pc[d]
      BY <2>2, Zenon DEF Step, Goto, IInv, Shapes
    <2>8. LockDates(c)' = LockDates(c)
      BY <2>7, ZenonT(60) DEF LockDates, NewPlace
    <2>9. Prefix(c, {})
      BY <2>2, <2>4, LoopStarts, Zenon DEF IInv, Shapes, RowLocks, Working
    <2>10. DatesOf(c)'
      <3>1. CASE made = LockDates(c)
        <4>1. pc'[c] = "lock"
          BY <2>7, <3>1, Zenon
        <4>2. Prefix(c, dates[c].held)'
          BY <2>6, <2>8, <2>9, Zenon DEF Prefix
        <4>. QED BY <2>4, <2>7, <4>1, <4>2, ZenonT(60) DEF DatesOf, Working
      <3>2. CASE made # LockDates(c)
        <4>1. pc'[c] = "materialize"
          BY <2>7, <3>2, ZenonT(60)
        <4>2. Prefix(c, made)
          BY <2>3, <3>2, Zenon
        <4>3. Prefix(c, dates[c].made)'
          BY <2>6, <2>8, <4>2, Zenon DEF Prefix
        <4>. QED BY <2>4, <2>6, <2>7, <4>1, <4>3, Zenon DEF DatesOf, Working
      <3>. QED BY <3>1, <3>2, Zenon
    <2>. QED BY <2>6, <2>7, <2>10, OthersKeepDates, ZenonT(60)
  <1>3. CASE LockDate(c)
    <2>1. PICK held : held = dates[c].held \cup {x}
      BY Zenon
    <2>2. /\ pc[c] = "lock" /\ dates' = [dates EXCEPT ![c].held = held]
          /\ Step(c, IF held = LockDates(c) THEN "write" ELSE "lock")
      BY <1>3, <2>1, Zenon DEF LockDate
    <2>3. /\ x \in Staff \X Int
          /\ held = LockDates(c) \/ Prefix(c, held)
      BY <2>1, <2>2, NextDateFacts, Zenon
    <2>. HIDE DEF x
    <2>4. dates[c] \in DateType /\ req[c].op # "cancel"
      BY <2>2, Zenon DEF DateLocks, DatesOf
    <2>5. held \in SUBSET (Staff \X Int)
      BY <2>1, <2>3, <2>4, Zenon DEF DateType
    <2>6. /\ dates' \in [Calls -> DateType] /\ dates'[c].held = held
          /\ \A d \in Calls \ {c} : dates'[d] = dates[d]
      BY <2>2, <2>4, <2>5, Zenon DEF DateLocks, DateType
    <2>7. /\ pc'[c] = (IF held = LockDates(c) THEN "write" ELSE "lock")
          /\ req' = req /\ snap' = snap /\ \A d \in Calls \ {c} : pc'[d] = pc[d]
      BY <2>2, Zenon DEF Step, Goto, IInv, Shapes
    <2>8. LockDates(c)' = LockDates(c)
      BY <2>7, ZenonT(60) DEF LockDates, NewPlace
    <2>9. DatesOf(c)'
      <3>1. CASE held = LockDates(c)
        BY <2>7, <3>1, Zenon DEF DatesOf, Working
      <3>2. CASE held # LockDates(c)
        <4>1. pc'[c] = "lock"
          BY <2>7, <3>2, Zenon
        <4>2. Prefix(c, held)
          BY <2>3, <3>2, Zenon
        <4>3. Prefix(c, dates[c].held)'
          BY <2>6, <2>8, <4>2, Zenon DEF Prefix
        <4>. QED BY <2>4, <2>7, <4>1, <4>3, ZenonT(60) DEF DatesOf, Working
      <3>. QED BY <3>1, <3>2, Zenon
    <2>. QED BY <2>6, <2>7, <2>9, OthersKeepDates, Zenon
  <1>. QED BY <1>1, <1>2, <1>3, Zenon

\* Every step keeps the dates in order.
LEMMA NextKeepsDates == IInv /\ DateLocks /\ [Next]_vars => DateLocks'
  <1>. SUFFICES ASSUME IInv, DateLocks, [Next]_vars PROVE DateLocks'
    BY Zenon
  <1>1. CASE UNCHANGED vars
    <2>1. pc' = pc /\ req' = req /\ snap' = snap /\ dates' = dates
      BY <1>1, Zenon DEF vars
    <2>2. ASSUME NEW c \in Calls PROVE DateLocks'
      <3>1. LockDates(c)' = LockDates(c)
        BY <2>1, Zenon DEF LockDates, NewPlace
      <3>2. DatesOf(c)'
        BY <2>1, <3>1, Zenon DEF DateLocks, DatesOf, Prefix
      <3>. QED BY <2>1, <3>2, OthersKeepDates, Zenon DEF DateLocks
    <2>3. dates' \in [Calls -> DateType]
      BY <2>1, Zenon DEF DateLocks
    <2>. QED BY <2>2, <2>3, Zenon DEF DateLocks
  <1>2. ASSUME NEW c \in Calls, NEW r \in Requests, Start(c, r) PROVE DateLocks'
    <2>1. dates' = dates /\ snap' = snap /\ pc'[c] = "begin" /\ dates[c] = NoDates
      BY <1>2, Zenon DEF Start, Goto, IInv, Shapes, DateLocks, DatesOf, Working
    <2>2. DatesOf(c)'
      BY <2>1, Zenon DEF DatesOf, Working
    <2>3. \A d \in Calls \ {c} : pc'[d] = pc[d] /\ req'[d] = req[d]
      BY <1>2, Zenon DEF Start, Goto, IInv, Shapes
    <2>. QED BY <2>1, <2>2, <2>3, OthersKeepDates, Zenon DEF DateLocks
  <1>3. ASSUME NEW c \in Calls, Begin(c) PROVE DateLocks'
    <2>1. dates' = dates /\ req' = req /\ dates[c] = NoDates
      BY <1>3, Zenon DEF Begin, DateLocks, DatesOf, Working
    <2>2. PICK p \in {"load", "reserve"} : Goto(c, p)
      BY <1>3, Zenon DEF Begin
    <2>3. pc'[c] = p /\ \A d \in Calls \ {c} : pc'[d] = pc[d]
      BY <2>2, Zenon DEF Goto, IInv, Shapes
    <2>4. \A d \in Calls \ {c} : snap'[d] = snap[d]
      BY <1>3, Zenon DEF Begin, IInv, Shapes
    <2>5. DatesOf(c)'
      BY <2>1, <2>3, Zenon DEF DatesOf, Working
    <2>. QED BY <2>1, <2>3, <2>4, <2>5, OthersKeepDates, ZenonT(60) DEF DateLocks
  <1>4. ASSUME NEW c \in Calls, Reserve(c) PROVE DateLocks'
    <2>1. pc[c] = "reserve"
      BY <1>4, Zenon DEF Reserve
    <2>2. ASSUME req[c].op = "create", Step(c, "materialize"), dates' = dates PROVE DateLocks'
      BY <2>1, <2>2, LoopStartKeepsDates, Zenon
    <2>3. ASSUME Step(c, "load"), dates' = dates PROVE DateLocks'
      BY <2>1, <2>3, StepsKeepDates, Zenon DEF Working
    <2>. QED BY <1>4, <2>2, <2>3, EndsGiveDatesUp, Zenon DEF Reserve
  <1>5. ASSUME NEW c \in Calls, Load(c) PROVE DateLocks'
    <2>1. pc[c] = "load"
      BY <1>5, Zenon DEF Load
    <2>2. ASSUME req[c].op # "cancel", Changeable(c), Step(c, "materialize"), dates' = dates
          PROVE  DateLocks'
      BY <2>1, <2>2, LoopStartKeepsDates, Zenon DEF Changeable
    <2>3. ASSUME Step(c, "write"), dates' = dates PROVE DateLocks'
      BY <2>3, StepsKeepDates, Zenon
    <2>. QED BY <1>5, <2>2, <2>3, EndsGiveDatesUp, Zenon DEF Load
  <1>6. ASSUME NEW c \in Calls, Insert(c) \/ Update(c) PROVE DateLocks'
    <2>1. \A p \in {"check", "commit"} : Step(c, p) /\ dates' = dates => DateLocks'
      BY StepsKeepDates, Zenon
    <2>. QED BY <1>6, <2>1, EndsGiveDatesUp, Zenon DEF Insert, Update
  <1>7. ASSUME NEW c \in Calls, Check(c) PROVE DateLocks'
    <2>1. Step(c, "commit") /\ dates' = dates => DateLocks'
      BY StepsKeepDates, Zenon
    <2>. QED BY <1>7, <2>1, EndsGiveDatesUp, Zenon DEF Check
  <1>8. ASSUME NEW c \in Calls, Commit(c) \/ Abort(c) \/ Fail(c) \/ Victim(c) PROVE DateLocks'
    BY <1>8, EndsGiveDatesUp, Zenon DEF Commit, Abort, Fail, Victim
  <1>. QED BY <1>1, <1>2, <1>3, <1>4, <1>5, <1>6, <1>7, <1>8, RoundsKeepDates, ZenonT(60)
    DEF Next, Act, createBookingOnce, rescheduleBookingOnce, cancelBookingOnce,
       adminCreateBookingOnce, adminRescheduleBookingOnce, adminCancelBookingOnce

\* The order of the locks: the key, the row, the dates' rows made sure of, the
\* dates locked, and in each of the two loops the days.
Phase(c) ==
    CASE pc[c] = "reserve" -> 0
      [] pc[c] = "load" -> 1
      [] pc[c] = "materialize" -> 2
      [] OTHER -> 3

Ahead(c, d) ==
    \/ Phase(c) < Phase(d)
    \/ Phase(c) = Phase(d) /\ Phase(c) \in {2, 3} /\ NextDate(c)[2] < NextDate(d)[2]

\* A call waits only for one that is further on in that order.
LEMMA WaitsForOneAhead ==
  ASSUME IInv, DateLocks, NEW c \in Calls, NEW d \in Calls, WaitsFor(c, d),
         pc[c] # "check", pc[d] \in {"reserve", "load", "materialize", "lock"}
  PROVE  Ahead(c, d)
  <1>1. CASE pc[c] = "reserve"
    BY <1>1 DEF WaitsFor, Reserved, Working, Ahead, Phase
  <1>2. CASE pc[c] = "load"
    BY <1>2 DEF WaitsFor, HoldsRow, Working, Ahead, Phase
  <1>3. CASE pc[c] = "materialize"
    <2>1. NextDate(c) \in dates[d].made
      BY <1>3, ZenonT(60) DEF WaitsFor
    <2>2. pc[d] \in {"materialize", "lock"}
      BY <2>1 DEF DateLocks, DatesOf, NoDates, Working
    <2>3. pc[d] = "materialize" => NextDate(c)[2] < NextDate(d)[2]
      BY <2>1, NextDateFacts, Zenon
    <2>. QED BY <1>3, <2>2, <2>3 DEF Ahead, Phase
  <1>4. CASE pc[c] = "lock"
    <2>1. NextDate(c) \in dates[d].held
      BY <1>4, ZenonT(60) DEF WaitsFor
    <2>2. pc[d] = "lock"
      BY <2>1 DEF DateLocks, DatesOf, NoDates, Working
    <2>3. NextDate(c)[2] < NextDate(d)[2]
      BY <2>1, <2>2, NextDateFacts, Zenon
    <2>. QED BY <1>4, <2>2, <2>3, Zenon DEF Ahead, Phase
  <1>. QED BY <1>1, <1>2, <1>3, <1>4, Zenon DEF WaitsFor

\* It is an order.
LEMMA AheadIsAnOrder ==
  ASSUME IInv, DateLocks,
         NEW S, S \subseteq {c \in Calls : pc[c] \in {"reserve", "load", "materialize", "lock"}}
  PROVE  /\ \A c \in S : ~Ahead(c, c)
         /\ \A c, d, e \in S : Ahead(c, d) /\ Ahead(d, e) => Ahead(c, e)
  <1>1. \A c \in S : Phase(c) \in 0 .. 3
    BY DEF Phase
  <1>2. ASSUME NEW c \in S, Phase(c) \in {2, 3} PROVE NextDate(c)[2] \in Int
    <2>1. pc[c] \in {"materialize", "lock"}
      BY <1>2 DEF Phase
    <2>2. NextDate(c) \in Staff \X Int
      BY <2>1, NextDateFacts, Zenon
    <2>. QED BY <2>2, Zenon
  <1>. DEFINE N(c) == NextDate(c)[2]
  <1>3. \A c \in S : Phase(c) \in {2, 3} => N(c) \in Int
    BY <1>2, Zenon
  <1>4. \A c, d : Ahead(c, d) <=> \/ Phase(c) < Phase(d)
                                  \/ Phase(c) = Phase(d) /\ Phase(c) \in {2, 3} /\ N(c) < N(d)
    BY Zenon DEF Ahead
  <1>. HIDE DEF N
  <1>5. \A c \in S : ~Ahead(c, c)
    BY <1>1, <1>3, <1>4
  <1>6. ASSUME NEW c \in S, NEW d \in S, NEW e \in S, Ahead(c, d), Ahead(d, e) PROVE Ahead(c, e)
    BY <1>1, <1>3, <1>4, <1>6
  <1>. QED BY <1>5, <1>6, Zenon

INSTANCE FiniteSetTheorems

\* A finite set that an order has no last element in is empty.
LEMMA NoCircle ==
  ASSUME IsFiniteSet(Calls), IInv, DateLocks PROVE LocksNeverDeadlock
  <1>. SUFFICES ASSUME NEW S, S \subseteq {c \in Calls : pc[c] # "check"}, Stuck(S), S # {}
                PROVE  FALSE
    BY Zenon DEF LocksNeverDeadlock
  <1>1. ASSUME NEW c \in S PROVE \E d \in S : WaitsFor(c, d)
    BY Zenon DEF Stuck
  <1>2. ASSUME NEW c \in S PROVE c \in Calls /\ pc[c] \in {"reserve", "load", "materialize", "lock"}
    BY <1>1, ZenonT(60) DEF WaitsFor
  <1>3. S \subseteq {c \in Calls : pc[c] \in {"reserve", "load", "materialize", "lock"}}
    BY <1>2, Zenon
  <1>4. ASSUME NEW c \in S PROVE \E d \in S : Ahead(c, d)
    BY <1>1, <1>2, WaitsForOneAhead, ZenonT(60)
  <1>5. /\ \A c \in S : ~Ahead(c, c)
        /\ \A c, d, e \in S : Ahead(c, d) /\ Ahead(d, e) => Ahead(c, e)
    BY <1>3, AheadIsAnOrder, ZenonT(60)
  <1>. DEFINE U(c) == {d \in S : Ahead(c, d)}
              T == {Cardinality(U(c)) : c \in S}
  <1>6. IsFiniteSet(S)
    BY <1>2, FS_Subset, ZenonT(60)
  <1>7. ASSUME NEW c \in S PROVE IsFiniteSet(U(c)) /\ Cardinality(U(c)) \in Nat
    BY <1>6, FS_Subset, FS_CardinalityType, ZenonT(60)
  <1>8. PICK n \in T : \A m \in T : n <= m
    <2>1. T \subseteq Nat /\ T # {}
      BY <1>7, Zenon
    <2>. QED BY <2>1, LeastNumber, ZenonT(60)
  <1>9. PICK c \in S : n = Cardinality(U(c))
    BY <1>8, ZenonT(60)
  <1>10. PICK d \in S : Ahead(c, d)
    BY <1>4, ZenonT(60)
  <1>11. U(d) \subseteq U(c) /\ d \in U(c) /\ d \notin U(d)
    BY <1>5, <1>10, ZenonT(60)
  <1>12. Cardinality(U(d)) < Cardinality(U(c))
    <2>1. U(d) # U(c)
      BY <1>11, ZenonT(60)
    <2>2. U(d) \subseteq U(c)
      BY <1>11, ZenonT(60)
    <2>. HIDE DEF U
    <2>. QED BY <1>7, <2>1, <2>2, FS_Subset
  <1>13. n <= Cardinality(U(d))
    BY <1>8, ZenonT(60)
  <1>. QED BY <1>7, <1>9, <1>12, <1>13

\* At the start nobody has a date.
LEMMA InitDates == Init => DateLocks
  BY DEF Init, DateLocks, DateType, DatesOf, NoDates, Working

\* The dates are taken in order in every reachable state.
THEOREM DatesInOrder == Spec => []DateLocks
  BY InitDates, NextKeepsDates, Invariant, PTL DEF Spec

\* Keys, rows and date locks never make writers wait for one another in a
\* circle, however many there are, whatever dates and time zones they count in.
THEOREM NoLockDeadlock ==
  ASSUME IsFiniteSet(Calls) PROVE Spec => []LocksNeverDeadlock
  <1>1. IInv /\ DateLocks => LocksNeverDeadlock
    BY NoCircle, ZenonT(60)
  <1>. QED BY <1>1, Invariant, DatesInOrder, PTL

-----------------------------------------------------------------------------
(* What callers are told, and the audit trail.                             *)

EventsOf(b) == {e \in events : e.booking = b}

\* An uncommitted row is the next version of the row it replaces.
Versions == \A c \in Calls : Writing(c) => tx[c].new.ver = row[tx[c].booking].ver + 1

\* No event is ahead of the row it is about.
Behind ==
    /\ \A e \in events : /\ e.booking \in Bookings /\ e.from \in RowType /\ e.to \in RowType
                         /\ e.to.ver <= row[e.booking].ver
    /\ \A b \in Bookings : IsFiniteSet(EventsOf(b))

TrailInv ==
    /\ DOMAIN out = Calls
    /\ Versions /\ Behind /\ AuditTrail /\ AnswerMatchesEffect

\* A step of c that commits no change to a booking.
Quiet(c) ==
    /\ pc[c] # "returned" /\ row' = row /\ events' = events /\ DOMAIN out' = Calls
    /\ \A d \in Calls \ {c} : pc'[d] = pc[d] /\ out'[d] = out[d] /\ tx'[d] = tx[d]
    /\ pc'[c] = "returned" => out'[c].kind # "ok"
    /\ Writing(c)' => \/ Writing(c) /\ tx'[c] = tx[c]
                      \/ tx'[c].new.ver = row[tx'[c].booking].ver + 1

\* Versions are natural numbers, and a missing row has version 0.
LEMMA RowVersions == \A r \in RowType : r.ver \in Nat
  BY DEF RowType, NoRow

\* A step that commits no change keeps the trail and answers nobody wrongly.
LEMMA QuietKeeps ==
  ASSUME IInv, TrailInv, NEW c \in Calls, Quiet(c)
  PROVE  TrailInv'
  <1>1. Versions'
    <2>1. \A d \in Calls \ {c} : (Writing(d)' <=> Writing(d)) /\ tx'[d] = tx[d]
      BY Zenon DEF Quiet, Writing
    <2>. QED BY <2>1 DEF TrailInv, Versions, Quiet
  <1>2. \A b : EventsOf(b)' = EventsOf(b)
    BY Zenon DEF Quiet, EventsOf
  <1>3. Behind'
    BY <1>2, ZenonT(60) DEF TrailInv, Behind, Quiet
  <1>4. AuditTrail'
    BY Zenon DEF TrailInv, AuditTrail, Quiet
  <1>5. AnswerMatchesEffect'
    <2>1. ASSUME NEW d \in Calls, pc'[d] = "returned"
          PROVE  Matches(out'[d], {e \in events' : e.call = d})
      <3>0. events' = events
        BY Zenon DEF Quiet
      <3>1. CASE d = c
        <4>1. {e \in events' : e.call = d} = {}
          BY <3>0, <3>1, ZenonT(60) DEF Quiet, IInv, History
        <4>2. Cardinality({}) <= 1 /\ out'[d].kind # "ok"
          BY <2>1, <3>1, FS_EmptySet DEF Quiet
        <4>3. Matches(out'[d], {})
          BY <4>2, Zenon DEF Matches
        <4>. QED BY <4>1, <4>3, ZenonT(60)
      <3>2. CASE d # c
        <4>1. pc[d] = "returned" /\ out'[d] = out[d]
          BY <2>1, <3>2, ZenonT(60) DEF Quiet
        <4>. QED BY <3>0, <4>1, ZenonT(60) DEF TrailInv, AnswerMatchesEffect
      <3>. QED BY <3>1, <3>2, ZenonT(60)
    <2>. QED BY <2>1, ZenonT(60) DEF AnswerMatchesEffect
  <1>. QED BY <1>1, <1>3, <1>4, <1>5, ZenonT(60) DEF TrailInv, Quiet

\* The first event of a call is its only one.
LEMMA CommitAnswers ==
  ASSUME IInv, TrailInv, NEW c \in Calls, Commit(c)
  PROVE  AnswerMatchesEffect' /\ DOMAIN out' = Calls
  <1>. DEFINE e == [call |-> c, booking |-> tx[c].booking, from |-> row[tx[c].booking],
                    to |-> tx[c].new]
  <1>1. pc[c] = "commit" /\ pc'[c] = "returned" /\ events' = events \cup {e}
        /\ \A d \in Calls \ {c} : pc'[d] = pc[d]
    BY CommitEffect, ZenonT(60)
  <1>2. e.call = c /\ e.to = tx[c].new
    BY ZenonT(60)
  <1>. HIDE DEF e
  <1>3. /\ DOMAIN out' = Calls
        /\ \A d \in Calls \ {c} : out'[d] = out[d]
        /\ \/ out'[c].kind = "ok" /\ out'[c].row = tx[c].new
           \/ out'[c].kind = "lost"
    BY DEF Commit, Answer, Return, TrailInv
  <1>4. {x \in events' : x.call = c} = {e}
    BY <1>1, <1>2, ZenonT(60) DEF IInv, History
  <1>5. \A d \in Calls \ {c} : {x \in events' : x.call = d} = {x \in events : x.call = d}
    BY <1>1, <1>2, ZenonT(60)
  <1>6. Cardinality({e}) = 1
    BY FS_Singleton, ZenonT(60)
  <1>7. ASSUME NEW d \in Calls, pc'[d] = "returned"
        PROVE  Matches(out'[d], {x \in events' : x.call = d})
    <2>1. CASE d = c
      <3>1. Matches(out'[c], {e})
        BY <1>2, <1>3, <1>6 DEF Matches
      <3>. QED BY <1>4, <2>1, <3>1, ZenonT(60)
    <2>2. CASE d # c
      <3>1. pc[d] = "returned" /\ out'[d] = out[d]
            /\ {x \in events' : x.call = d} = {x \in events : x.call = d}
        BY <1>1, <1>3, <1>5, <1>7, <2>2, ZenonT(60)
      <3>. QED BY <3>1, ZenonT(60) DEF TrailInv, AnswerMatchesEffect
    <2>. QED BY <2>1, <2>2, ZenonT(60)
  <1>. QED BY <1>3, <1>7, ZenonT(60) DEF AnswerMatchesEffect

\* A commit adds the next event of its booking's trail.
LEMMA CommitTrails ==
  ASSUME IInv, TrailInv, NEW c \in Calls, Commit(c)
  PROVE  Versions' /\ Behind' /\ AuditTrail'
  <1>. DEFINE e == [call |-> c, booking |-> tx[c].booking, from |-> row[tx[c].booking],
                    to |-> tx[c].new]
  <1>0. PICK b \in Bookings : b = tx[c].booking
    BY CommitEffect, ZenonT(60)
  <1>1. /\ pc[c] = "commit" /\ pc'[c] = "returned" /\ events' = events \cup {e}
        /\ \A d \in Calls \ {c} : pc'[d] = pc[d] /\ tx'[d] = tx[d]
        /\ row' \in [Bookings -> RowType] /\ row'[b] = tx[c].new
        /\ \A a \in Bookings \ {b} : row'[a] = row[a]
        /\ tx[c].new \in RowType /\ row[b] \in RowType
    BY <1>0, CommitEffect, ZenonT(60) DEF IInv, Shapes
  <1>2. e.booking = b /\ e.from = row[b] /\ e.to = row'[b]
    BY <1>0, <1>1, ZenonT(60)
  <1>. HIDE DEF e
  <1>3. row'[b].ver = row[b].ver + 1 /\ row[b].ver \in Nat /\ InitialRow(b).ver \in Nat
    BY <1>0, <1>1, RowVersions, InitialRows, ZenonT(60) DEF TrailInv, Versions, Writing
  <1>4. Versions'
    <2>1. \A d \in Calls \ {c} : Writing(d)' =>
             Writing(d) /\ tx[d].booking \in Bookings \ {b}
      BY <1>0, <1>1, CommitSpares, ZenonT(60) DEF Writing, IInv, Writes
    <2>2. ~Writing(c)'
      BY <1>1, ZenonT(60) DEF Writing
    <2>3. /\ \A d \in Calls \ {c} : tx'[d] = tx[d]
          /\ \A a \in Bookings \ {b} : row'[a] = row[a]
      BY <1>1, Zenon
    <2>. QED BY <2>1, <2>2, <2>3 DEF TrailInv, Versions
  <1>5. \A f \in events : /\ f.booking \in Bookings /\ f.from \in RowType /\ f.to \in RowType
                          /\ f.to.ver <= row[f.booking].ver
                          /\ f.from.ver \in Nat /\ f.to.ver \in Nat
    BY RowVersions, ZenonT(60) DEF TrailInv, Behind
  <1>6. /\ EventsOf(b)' = EventsOf(b) \cup {e} /\ e \notin EventsOf(b)
        /\ \A a \in Bookings \ {b} : EventsOf(a)' = EventsOf(a)
    <2>1. e \notin events
      BY <1>2, <1>3, <1>5
    <2>. QED BY <1>1, <1>2, <2>1, Zenon DEF EventsOf
  <1>7. Behind'
    <2>1. \A f \in events' : /\ f.booking \in Bookings /\ f.from \in RowType /\ f.to \in RowType
                             /\ f.to.ver <= row'[f.booking].ver
      <3>1. \A f \in events : f.to.ver <= row'[b].ver \/ f.booking # b
        BY <1>3, <1>5
      <3>2. \A f \in events : f.to.ver <= row'[f.booking].ver
        BY <1>1, <1>5, <3>1, Zenon
      <3>3. row'[b].ver <= row'[b].ver
        BY <1>3
      <3>. QED BY <1>1, <1>2, <1>5, <3>2, <3>3, Zenon
    <2>2. \A a \in Bookings : IsFiniteSet(EventsOf(a)')
      BY <1>6, FS_AddElement, ZenonT(60) DEF TrailInv, Behind
    <2>. QED BY <2>1, <2>2, ZenonT(60) DEF Behind
  <1>8. ASSUME NEW a \in Bookings PROVE Gapless(InitialRow(a), row'[a], EventsOf(a)')
    <2>1. Gapless(InitialRow(a), row[a], EventsOf(a))
      BY Zenon DEF TrailInv, AuditTrail, EventsOf
    <2>2. CASE a # b
      BY <1>1, <1>6, <2>1, <2>2, ZenonT(60)
    <2>3. CASE a = b
      <3>1. \A f \in EventsOf(b) : f.from # row[b] /\ f.to.ver <= row[b].ver
        <4>1. \A f \in EventsOf(b) : /\ f \in events /\ f.booking = b
                                     /\ f.to.ver = f.from.ver + 1
          BY <2>1, <2>3, Zenon DEF EventsOf, Gapless
        <4>. QED BY <1>3, <1>5, <4>1
      <3>2. IsFiniteSet(EventsOf(b))
        BY Zenon DEF TrailInv, Behind
      <3>3. Cardinality(EventsOf(b) \cup {e}) = Cardinality(EventsOf(b)) + 1
        BY <1>6, <3>2, FS_AddElement, ZenonT(60)
      <3>4. Cardinality(EventsOf(b)') = row'[b].ver - InitialRow(b).ver
        <4>1. Cardinality(EventsOf(b)) = row[b].ver - InitialRow(b).ver
          BY <2>1, <2>3, Zenon DEF Gapless
        <4>2. Cardinality(EventsOf(b)') = Cardinality(EventsOf(b)) + 1
          BY <1>6, <3>3, Zenon
        <4>. QED BY <1>3, <4>1, <4>2
      <3>5. \A f \in EventsOf(b)' : /\ f.from = InitialRow(b) \/ \E g \in EventsOf(b)' : g.to = f.from
                                    /\ f.to.ver = f.from.ver + 1
                                    /\ \A g \in EventsOf(b)' : g.from = f.from => g = f
        <4>1. /\ \A f \in EventsOf(b) :
                    /\ f.from = InitialRow(b) \/ \E g \in EventsOf(b) : g.to = f.from
                    /\ f.to.ver = f.from.ver + 1
                    /\ \A g \in EventsOf(b) : g.from = f.from => g = f
              /\ row[b] = InitialRow(b) \/ \E g \in EventsOf(b) : g.to = row[b]
          BY <2>1, <2>3, Zenon DEF Gapless
        <4>2. e.from = row[b] /\ e.to.ver = e.from.ver + 1
          BY <1>2, <1>3, Zenon
        <4>. QED BY <1>6, <3>1, <4>1, <4>2, Zenon
      <3>6. e \in EventsOf(b)' /\ e.to = row'[b]
        BY <1>2, <1>6, ZenonT(60)
      <3>7. Gapless(InitialRow(b), row'[b], EventsOf(b)')
        BY <3>4, <3>5, <3>6, ZenonT(60) DEF Gapless
      <3>. QED BY <2>3, <3>7, ZenonT(60)
    <2>. QED BY <2>2, <2>3, ZenonT(60)
  <1>9. AuditTrail'
    BY <1>8, ZenonT(60) DEF AuditTrail, EventsOf
  <1>. QED BY <1>4, <1>7, <1>9, ZenonT(60)

\* An attempt that ends without a commit commits no change.
LEMMA EndsQuietly ==
  ASSUME IInv, TrailInv, NEW c \in Calls, pc[c] # "returned"
  PROVE  /\ \A k : k # "ok" /\ Refuse(c, k) => Quiet(c)
         /\ Retry(c) => Quiet(c)
         /\ \A r : Replay(c, r) => Quiet(c)
  <1>1. \A k, r : k # "ok" /\ Return(c, k, r) /\ row' = row /\ events' = events => Quiet(c)
    BY DEF IInv, Shapes, TrailInv, Return, Goto, Close, Quiet, Writing
  <1>2. \A k : k # "ok" /\ Refuse(c, k) => Quiet(c)
    BY <1>1, ZenonT(60) DEF Refuse
  <1>3. Retry(c) => Quiet(c)
    <2>1. ASSUME Goto(c, "begin"), Close(c), UNCHANGED <<row, recs, days, events, req, out>>
          PROVE  Quiet(c)
      BY <2>1, ZenonT(60) DEF IInv, Shapes, TrailInv, Goto, Close, Quiet, Writing
    <2>. QED BY <1>2, <2>1, ZenonT(60) DEF Retry
  <1>4. \A r : Replay(c, r) => Quiet(c)
    BY <1>1, <1>2, ZenonT(60) DEF Replay
  <1>. QED BY <1>2, <1>3, <1>4, ZenonT(60)

\* A statement that writes no bookings row commits no change.
LEMMA StepsQuietly ==
  ASSUME IInv, TrailInv, NEW c \in Calls, pc[c] # "returned", NEW p \in Open, Step(c, p),
         tx' = tx, Writing(c)' => Writing(c)
  PROVE  Quiet(c)
  BY ZenonT(60) DEF IInv, Shapes, TrailInv, Step, Goto, Quiet, Open, Working

\* Insert writes the first version and Update the next one.
LEMMA WritesQuietly ==
  ASSUME IInv, TrailInv, NEW c \in Calls, Insert(c) \/ Update(c)
  PROVE  Quiet(c)
  <1>1. pc[c] = "write"
    BY Zenon DEF Insert, Update
  <1>2. CASE Refuse(c, "unavailable")
    BY <1>1, <1>2, EndsQuietly, ZenonT(60)
  <1>3. ASSUME NEW b \in Fresh, Step(c, "check"),
               tx' = [tx EXCEPT ![c] = [booking |-> b, new |->
                        [status |-> "confirmed", owner |-> req[c].owner,
                         place |-> req[c].place, ver |-> 1]]]
        PROVE  Quiet(c)
    <2>1. tx'[c].booking = b /\ tx'[c].new.ver = 1 /\ row[b].ver = 0
      BY <1>3 DEF IInv, Shapes, Fresh, NoRow
    <2>2. \A d \in Calls \ {c} : tx'[d] = tx[d]
      BY <1>3, ZenonT(60) DEF IInv, Shapes
    <2>3. tx'[c].new.ver = row[tx'[c].booking].ver + 1
      BY <2>1
    <2>. QED BY <1>1, <1>3, <2>2, <2>3, ZenonT(60) DEF IInv, Shapes, TrailInv, Step, Goto, Quiet
  <1>4. CASE Update(c)
    <2>1. /\ req[c].op # "create" /\ pc[c] \in Working /\ DOMAIN tx = Calls
      BY <1>1, <1>4, ZenonT(60) DEF Update, Working, IInv, Shapes
    <2>2. row[req[c].booking] = snap[c].row
      BY <2>1, ZenonT(60) DEF IInv, RowLocks
    <2>3. tx'[c].booking = req[c].booking /\ tx'[c].new.ver = snap[c].row.ver + 1
          /\ \A d \in Calls \ {c} : tx'[d] = tx[d]
      BY <1>4, <2>1, ZenonT(60) DEF Update
    <2>4. tx'[c].new.ver = row[tx'[c].booking].ver + 1
      BY <2>2, <2>3, ZenonT(60)
    <2>5. Step(c, "commit") \/ Step(c, "check")
      BY <1>4, ZenonT(60) DEF Update
    <2>. QED BY <1>1, <2>3, <2>4, <2>5, ZenonT(60) DEF IInv, Shapes, TrailInv, Step, Goto, Quiet
  <1>. QED BY <1>2, <1>3, <1>4, ZenonT(60) DEF Insert

\* A cancel that found its work done commits no change.
LEMMA AnswersQuietly ==
  ASSUME IInv, TrailInv, NEW c \in Calls, pc[c] # "returned", NEW r,
         Answer(c, "already", r), row' = row, events' = events
  PROVE  Quiet(c)
  BY DEF IInv, Shapes, TrailInv, Answer, Return, Goto, Close, Quiet, Writing

\* Every step but COMMIT is quiet.
LEMMA NextTrails == IInv /\ TrailInv /\ [Next]_vars => TrailInv'
  <1>. SUFFICES ASSUME IInv, TrailInv, [Next]_vars PROVE TrailInv'
    BY Zenon
  <1>1. CASE UNCHANGED vars
    BY <1>1, ZenonT(60) DEF vars, TrailInv, Versions, Behind, EventsOf, AuditTrail, AnswerMatchesEffect, Writing
  <1>2. ASSUME NEW c \in Calls, NEW r \in Requests, Start(c, r) PROVE Quiet(c)
    BY <1>2, ZenonT(60) DEF Start, IInv, Shapes, TrailInv, Goto, Quiet, Writing
  <1>3. ASSUME NEW c \in Calls, Begin(c) PROVE Quiet(c)
    <2>1. PICK p \in {"load", "reserve"} : Goto(c, p)
      BY <1>3, Zenon DEF Begin
    <2>. QED BY <1>3, <2>1, ZenonT(60) DEF Begin, IInv, Shapes, TrailInv, Goto, Quiet, Writing
  <1>4. ASSUME NEW c \in Calls, Reserve(c) PROVE Quiet(c)
    <2>1. pc[c] # "returned"
      BY <1>4, ZenonT(60) DEF Reserve
    <2>2. ASSUME NEW p \in {"materialize", "load"}, Step(c, p), tx' = tx PROVE Quiet(c)
      <3>1. ~Writing(c)'
        BY <2>2, ZenonT(60) DEF Writing, IInv, Shapes, Step, Goto
      <3>2. p \in Open
        BY Zenon DEF Open, Working
      <3>. QED BY <2>1, <2>2, <3>1, <3>2, StepsQuietly, ZenonT(60)
    <2>. QED BY <1>4, <2>1, <2>2, EndsQuietly, ZenonT(60) DEF Reserve
  <1>5. ASSUME NEW c \in Calls, Load(c) PROVE Quiet(c)
    <2>1. pc[c] # "returned"
      BY <1>5, ZenonT(60) DEF Load
    <2>2. ASSUME NEW p \in {"materialize", "write"}, Step(c, p), tx' = tx PROVE Quiet(c)
      <3>1. ~Writing(c)'
        BY <2>2, ZenonT(60) DEF Writing, IInv, Shapes, Step, Goto
      <3>2. p \in Open
        BY Zenon DEF Open, Working
      <3>. QED BY <2>1, <2>2, <3>1, <3>2, StepsQuietly, ZenonT(60)
    <2>. QED BY <1>5, <2>1, <2>2, EndsQuietly, AnswersQuietly, ZenonT(60) DEF Load
  <1>6. ASSUME NEW c \in Calls, Materialize(c) \/ LockDate(c) PROVE Quiet(c)
    <2>1. pc[c] # "returned"
      BY <1>6, ZenonT(60) DEF Materialize, LockDate
    <2>2. ASSUME NEW p \in {"materialize", "lock", "write"}, Step(c, p), tx' = tx PROVE Quiet(c)
      <3>1. ~Writing(c)'
        BY <2>2, ZenonT(60) DEF Writing, IInv, Shapes, Step, Goto
      <3>2. p \in Open
        BY Zenon DEF Open, Working
      <3>. QED BY <2>1, <2>2, <3>1, <3>2, StepsQuietly, ZenonT(60)
    <2>. QED BY <1>6, <2>1, <2>2, EndsQuietly, ZenonT(60) DEF Materialize, LockDate
  <1>7. ASSUME NEW c \in Calls, Check(c) PROVE Quiet(c)
    <2>1. pc[c] = "check"
      BY <1>7, ZenonT(60) DEF Check
    <2>2. ASSUME Step(c, "commit"), tx' = tx PROVE Quiet(c)
      BY <2>1, <2>2, StepsQuietly, ZenonT(60) DEF Open, Working, Writing
    <2>. QED BY <1>7, <2>1, <2>2, EndsQuietly, ZenonT(60) DEF Check
  <1>8. ASSUME NEW c \in Calls, Abort(c) \/ Fail(c) \/ Victim(c) PROVE Quiet(c)
    <2>1. pc[c] # "returned"
      BY <1>8, ZenonT(60) DEF Abort, Fail, Victim, Stuck, WaitsFor, Open, Working
    <2>. QED BY <1>8, <2>1, EndsQuietly, ZenonT(60) DEF Abort, Fail, Victim
  <1>9. ASSUME NEW c \in Calls, Commit(c) PROVE TrailInv'
    BY <1>9, CommitAnswers, CommitTrails, ZenonT(60) DEF TrailInv
  <1>. QED BY <1>1, <1>2, <1>3, <1>4, <1>5, <1>6, <1>7, <1>8, <1>9, WritesQuietly, QuietKeeps, ZenonT(60)
    DEF Next, Act, createBookingOnce, rescheduleBookingOnce, cancelBookingOnce,
       adminCreateBookingOnce, adminRescheduleBookingOnce, adminCancelBookingOnce

\* At the start there are no events and no answers.
LEMMA InitTrails == Init => TrailInv
  <1>. SUFFICES ASSUME Init PROVE TrailInv
    BY Zenon
  <1>1. events = {} /\ \A b \in Bookings : row[b] = InitialRow(b) /\ EventsOf(b) = {}
    BY Zenon DEF Init, EventsOf
  <1>2. Behind /\ Versions /\ AnswerMatchesEffect
    BY <1>1, FS_EmptySet, ZenonT(60) DEF Init, Behind, Versions, Writing, AnswerMatchesEffect
  <1>3. \A b \in Bookings : InitialRow(b).ver \in Nat
    BY InitialRows, RowVersions, ZenonT(60)
  <1>4. ASSUME NEW b \in Bookings PROVE Gapless(InitialRow(b), row[b], {})
    BY <1>1, <1>3, FS_EmptySet DEF Gapless
  <1>5. AuditTrail
    BY <1>1, <1>4, ZenonT(60) DEF AuditTrail, EventsOf
  <1>. QED BY <1>2, <1>5, ZenonT(60) DEF Init, TrailInv

\* The trail and the answers are right in every reachable state.
THEOREM TrailHolds == Spec => []TrailInv
  BY InitTrails, NextTrails, Invariant, PTL DEF Spec

\* What a caller is told matches what was done, for any number of calls,
\* retries and lost answers.
THEOREM AnswersAreTrue == Spec => []AnswerMatchesEffect
  <1>1. TrailInv => AnswerMatchesEffect
    BY ZenonT(60) DEF TrailInv
  <1>. QED BY <1>1, TrailHolds, PTL

\* booking_events is a gapless history of every booking.
THEOREM TrailIsGapless == Spec => []AuditTrail
  <1>1. TrailInv => AuditTrail
    BY Zenon DEF TrailInv
  <1>. QED BY <1>1, TrailHolds, PTL

=============================================================================
