-------------------------- MODULE AssetCustodyProofs --------------------------
(***************************************************************************)
(* Proofs about AssetCustody, for every set of equipment, users, requests  *)
(* and concurrent handlers: types, no silent takeover of an assignment, no *)
(* closed request with an item left to decide, and one transaction at a    *)
(* time that writes a piece of equipment's assignment.                     *)
(***************************************************************************)
EXTENDS AssetCustody, TLAPS

-----------------------------------------------------------------------------
(* The inductive invariant.                                                *)

\* What a transaction knows: it is idle in both its fields or in none, a
\* reassignment names the holder it takes from, an unassignment gives to
\* nobody, and a decision concerns a request that has been made.
Knows(t) ==
  /\ t.at = "idle" <=> t.op = "idle"
  /\ t.op = "reassign" => t.from # None
  /\ t.op = "unassign" => t.to = None
  /\ t.at \in {"next", "save", "request", "items"} => t.request \in Request
  /\ t.at = "save" => t.verdict # "none"

\* The request a decision concerns has been made.
Made(t) == t.at \in {"next", "save", "request", "items"} => request[t.request] # "none"

\* A computed verdict stays true: when it closes the request, no item but the
\* one being saved is pending, whatever others have saved since.
VerdictStands(t) ==
  t.at = "save" /\ t.verdict \in {"approved", "denied"} => Pending(t.request) \subseteq t.cur

\* A transaction about to write assignments has locked their equipment.
WriteLocked(h) ==
  tx[h].at = "write" /\ tx[h].op \in {"assign", "unassign", "reassign"} =>
    \A e \in tx[h].es : owner[<<"equipment", e>>] = h

TxInv == \A h \in Handler : Knows(tx[h]) /\ Made(tx[h]) /\ VerdictStands(tx[h])

\* A request row that has not been made has no items.
ItemsOfMade == \A r \in Request : request[r] = "none" => \A e \in Equipment : item[r][e] = "none"

CustodyInv ==
  /\ TypeOK /\ TxInv /\ ItemsOfMade /\ ClosedHasNoPending
  /\ \A h \in Handler : WriteLocked(h)

\* The rows taken from Lockable that the invariant speaks of.
LEMMA EquipmentLockable ==
  ASSUME NEW e \in Equipment
  PROVE  <<"equipment", e>> \in Lockable
BY DEF Lockable

LEMMA CustodyInit == Init => CustodyInv
<1> SUFFICES ASSUME Init PROVE CustodyInv
  OBVIOUS
<1>1. Idle \in Transaction
  BY DEF Idle, Transaction, RequestStatus, Decision
<1>2. TypeOK
  BY <1>1 DEF Init, TypeOK, Status, RequestStatus, Decision
<1>3. TxInv
  BY DEF Init, TxInv, Knows, Made, VerdictStands, Idle
<1>4. ItemsOfMade /\ ClosedHasNoPending /\ \A h \in Handler : WriteLocked(h)
  BY DEF Init, ItemsOfMade, ClosedHasNoPending, WriteLocked, Idle
<1> QED BY <1>2, <1>3, <1>4 DEF CustodyInv
-----------------------------------------------------------------------------
(* The steps, by what they write.                                          *)

\* How a transaction starts.
Startable(t) ==
  /\ t \in Transaction /\ Knows(t) /\ Made(t)
  /\ t.op # "idle" /\ t.at \in {"lock", "write", "next", "request"}
  /\ t.at = "write" => t.op \in {"condemn", "ask"}

LEMMA StepKinds ==
  ASSUME TypeOK, ItemsOfMade, [Next]_vars
  PROVE  \/ UNCHANGED vars
         \/ \E h \in Handler, t \in Transaction : Startable(t) /\ Begin(h, t)
         \/ \E h \in Handler : Rollback(h)
         \/ \E h \in Handler : \/ LockEquipment(h) \/ WriteCustody(h) \/ WriteCondemned(h)
                               \/ InsertRequest(h) \/ LockRequest(h)
         \/ \E h \in Handler, e \in Equipment : LockItem(h, e) \/ LockNextItem(h, e)
         \/ \E h \in Handler : SaveItem(h) \/ SaveRequest(h)
         \/ \E es \in SUBSET Equipment, s \in Status : SetStatus(es, s)
<1> USE CustodyAssumption
<1>1. ASSUME NEW h \in Handler, Proceed(h)
      PROVE  \/ Rollback(h) \/ LockEquipment(h) \/ WriteCustody(h) \/ WriteCondemned(h)
             \/ InsertRequest(h) \/ LockRequest(h) \/ SaveItem(h) \/ SaveRequest(h)
             \/ \E e \in Equipment : LockItem(h, e) \/ LockNextItem(h, e)
  BY <1>1 DEF Proceed, RequestRefused, DeadlockAbort
<1>0. Idle \in Transaction
  BY DEF Idle, Transaction, RequestStatus, Decision
<1>2. ASSUME NEW op \in {"assign", "unassign", "reassign"}, NEW es \in SUBSET Equipment,
             NEW u \in User \cup {None}, NEW v \in User \cup {None},
             op = "reassign" => u # None, op = "unassign" => v = None
      PROVE  Custody(op, es, u, v) \in Transaction /\ Startable(Custody(op, es, u, v))
  <2> DEFINE t == Custody(op, es, u, v)
  <2>1. t.op = op /\ t.at = "lock" /\ t.from = u /\ t.to = v
    BY DEF Custody, Idle
  <2>2. t \in Transaction
    BY <1>0 DEF Custody, Transaction, AllEndpoints
  <2> QED BY <1>2, <2>1, <2>2 DEF Startable, Knows, Made
<1>3. ASSUME NEW op \in {"condemn", "ask"}, NEW es \in SUBSET Equipment
      PROVE  LET t == [Idle EXCEPT !.op = op, !.at = "write", !.es = es]
             IN t \in Transaction /\ Startable(t)
  <2> DEFINE t == [Idle EXCEPT !.op = op, !.at = "write", !.es = es]
  <2>1. t.op = op /\ t.at = "write"
    BY DEF Idle
  <2>2. t \in Transaction
    BY <1>0 DEF Transaction, AllEndpoints
  <2> QED BY <2>1, <2>2 DEF Startable, Knows, Made
<1>4. ASSUME NEW op \in {"decide", "process"}, NEW r \in Request, NEW es \in SUBSET Equipment,
             NEW yes \in SUBSET Equipment, request[r] # "none"
      PROVE  LET t == [Idle EXCEPT !.op = op, !.at = "next", !.request = r, !.es = es, !.yes = yes]
             IN t \in Transaction /\ Startable(t)
  <2> DEFINE t == [Idle EXCEPT !.op = op, !.at = "next", !.request = r, !.es = es, !.yes = yes]
  <2>1. t.op = op /\ t.at = "next" /\ t.request = r
    BY DEF Idle
  <2>2. t \in Transaction
    BY <1>0 DEF Transaction, AllEndpoints
  <2> QED BY <1>4, <2>1, <2>2 DEF Startable, Knows, Made
<1>5. ASSUME NEW h \in Handler, Serve(h)
      PROVE  \E t \in Transaction : Startable(t) /\ Begin(h, t)
  <2>1. CASE \E e \in Equipment, u \in User : Assign(h, e, u) \/ Unassign(h, e, u)
    BY <2>1, <1>2 DEF Assign, Unassign
  <2>2. CASE \E e \in Equipment, u, v \in User : Reassign(h, e, u, v)
    BY <2>2, <1>2 DEF Reassign
  <2>3. CASE \E es \in SUBSET Equipment, u \in User : BatchAssign(h, es, u)
    BY <2>3, <1>2 DEF BatchAssign
  <2>4. CASE \E es \in SUBSET Equipment, u \in User : Ask(h, u, es)
    BY <2>4, <1>3 DEF Ask
  <2>5. CASE \E es \in SUBSET Equipment : BatchUnassign(h, es)
    BY <2>5, <1>2 DEF BatchUnassign
  <2>6. CASE \E e \in Equipment : Condemn(h, e)
    BY <2>6, <1>3 DEF Condemn
  <2>7. CASE \E r \in Request, e \in Equipment : ApproveItem(h, r, e) \/ DenyItem(h, r, e)
    <3> PICK r \in Request, e \in Equipment : ApproveItem(h, r, e) \/ DenyItem(h, r, e)
      BY <2>7
    <3>1. request[r] # "none"
      BY DEF ApproveItem, DenyItem, DecideItem, Pending, ItemsOfMade
    <3> QED BY <3>1, <1>4 DEF ApproveItem, DenyItem, DecideItem
  <2>8. CASE \E r \in Request : ApproveRequest(h, r) \/ DenyRequest(h, r)
    <3> PICK r \in Request, yes \in SUBSET Equipment : DecideRequest(h, r, yes)
      BY <2>8 DEF ApproveRequest, DenyRequest
    <3> DEFINE t == [Idle EXCEPT !.op = "whole", !.at = "request", !.request = r, !.yes = yes]
    <3>1. t.op = "whole" /\ t.at = "request" /\ t.request = r
      BY DEF Idle
    <3>2. t \in Transaction
      BY <1>0 DEF Transaction
    <3>3. Startable(t)
      BY <3>1, <3>2 DEF Startable, Knows, Made, DecideRequest
    <3> QED BY <3>2, <3>3 DEF DecideRequest
  <2>9. CASE \E r \in Request, es \in SUBSET Equipment :
               \E yes \in SUBSET es : Process(h, r, es, yes)
    <3> PICK r \in Request, es \in SUBSET Equipment, yes \in SUBSET Equipment :
           yes \subseteq es /\ Process(h, r, es, yes)
      BY <2>9
    <3>1. yes \in SUBSET Equipment /\ request[r] # "none"
      BY DEF Process
    <3> QED BY <3>1, <1>4 DEF Process
  <2> QED BY <1>5, <2>1, <2>2, <2>3, <2>4, <2>5, <2>6, <2>7, <2>8, <2>9 DEF Serve
<1>6. ASSUME NEW es \in SUBSET Changeable, NEW s \in Status,
             BatchChangeStatus(es, s) \/ BatchCondemn(es)
      PROVE  \E ds \in SUBSET Equipment, z \in Status : SetStatus(ds, z)
  BY <1>6 DEF BatchChangeStatus, BatchCondemn, Status
<1>7. ASSUME NEW e \in Changeable, NEW s \in Status, ChangeStatus(e, s)
      PROVE  \E ds \in SUBSET Equipment, z \in Status : SetStatus(ds, z)
  BY <1>7 DEF ChangeStatus
<1> QED
  BY <1>1, <1>5, <1>6, <1>7 DEF Next, Status
-----------------------------------------------------------------------------
(* Types.                                                                  *)

\* A lock that is taken belongs to an open transaction.
OwnersWork == \A x \in Lockable : owner[x] # None => tx[owner[x]].op # "idle"

\* Releasing the locks of one transaction, or taking some for one at work,
\* leaves every lock with an open transaction.
LEMMA OwnersStep ==
  ASSUME owner \in [Lockable -> Handler \cup {None}], tx \in [Handler -> Transaction], OwnersWork,
         NEW h \in Handler, NEW t \in Transaction, tx' = [tx EXCEPT ![h] = t]
  PROVE  /\ Release(h) => owner' \in [Lockable -> Handler \cup {None}] /\ OwnersWork'
         /\ \A xs : t.op # "idle" /\ Take(xs, h) =>
              owner' \in [Lockable -> Handler \cup {None}] /\ OwnersWork'
         /\ t.op # "idle" /\ owner' = owner => OwnersWork'
<1> USE CustodyAssumption
<1>1. ASSUME Release(h) PROVE owner' \in [Lockable -> Handler \cup {None}] /\ OwnersWork'
  BY <1>1 DEF Release, OwnersWork
<1>2. ASSUME NEW xs, t.op # "idle", Take(xs, h)
      PROVE  owner' \in [Lockable -> Handler \cup {None}] /\ OwnersWork'
  BY <1>2 DEF Take, OwnersWork
<1>3. ASSUME t.op # "idle", owner' = owner PROVE OwnersWork'
  BY <1>3 DEF OwnersWork
<1> QED BY <1>1, <1>2, <1>3

\* Deciding items yields decisions, and a status that is not "none".
LEMMA Decisions ==
  ASSUME TypeOK, NEW r \in Request, NEW es, NEW yes
  PROVE  /\ Decided(r, es, yes) \in [Equipment -> Decision]
         /\ Verdict(Decided(r, es, yes)) \in RequestStatus \ {"none"}
BY DEF TypeOK, Decided, Verdict, Decision, RequestStatus

\* A status that closes the request is computed only when nothing else in it
\* is pending.
LEMMA ClosingVerdict ==
  ASSUME NEW r \in Request, NEW es, NEW yes, Verdict(Decided(r, es, yes)) \in {"approved", "denied"}
  PROVE  Pending(r) \subseteq es
<1> SUFFICES ASSUME NEW e \in Equipment, item[r][e] = "pending", e \notin es PROVE FALSE
  BY DEF Pending
<1> DEFINE its == Decided(r, es, yes)
           seen == {its[f] : f \in Equipment} \ {"none"}
<1>1. "pending" \in seen
  BY DEF Decided
<1>2. seen # {"approved"} /\ seen # {"denied"}
  BY <1>1
<1> HIDE DEF its, seen
<1> QED BY <1>2 DEF Verdict, its, seen

LEMMA TypeStep ==
  ASSUME CustodyInv, [Next]_vars
  PROVE  TypeOK'
<1> USE CustodyAssumption
<1>0. /\ TypeOK /\ OwnersWork /\ ItemsOfMade
      /\ owner \in [Lockable -> Handler \cup {None}] /\ tx \in [Handler -> Transaction]
  BY DEF CustodyInv, TypeOK, OwnersWork
<1>1. CASE UNCHANGED vars
  BY <1>0, <1>1 DEF vars, TypeOK
<1>2. ASSUME NEW h \in Handler, NEW t \in Transaction, Startable(t), Begin(h, t) PROVE TypeOK'
  <2>1. tx' \in [Handler -> Transaction] /\ OwnersWork'
    BY <1>0, <1>2, OwnersStep DEF Begin, Startable
  <2> QED BY <1>0, <1>2, <2>1 DEF Begin, TypeOK, OwnersWork
<1>3. Idle \in Transaction
  BY DEF Idle, Transaction, RequestStatus, Decision
<1>4. ASSUME NEW h \in Handler, End(h)
      PROVE  tx' \in [Handler -> Transaction] /\ owner' \in [Lockable -> Handler \cup {None}] /\ OwnersWork'
  BY <1>0, <1>3, <1>4, OwnersStep DEF End
<1>5. ASSUME NEW h \in Handler, Rollback(h) PROVE TypeOK'
  BY <1>0, <1>4, <1>5 DEF Rollback, TypeOK, OwnersWork
<1>6. ASSUME NEW h \in Handler, LockEquipment(h) PROVE TypeOK'
  <2>1. Knows(tx[h]) /\ tx[h].at = "lock" /\ tx[h].op # "idle"
    BY <1>6 DEF CustodyInv, TxInv, Knows, LockEquipment
  <2>2. CASE tx' = [tx EXCEPT ![h].at = "write"] /\ UNCHANGED owner
    <3>1. [tx[h] EXCEPT !.at = "write"] \in Transaction /\ [tx[h] EXCEPT !.at = "write"].op # "idle"
      BY <1>0, <2>1 DEF Transaction
    <3>2. tx' = [tx EXCEPT ![h] = [tx[h] EXCEPT !.at = "write"]]
      BY <2>2
    <3>3. tx' \in [Handler -> Transaction] /\ OwnersWork'
      BY <1>0, <2>2, <3>1, <3>2, OwnersStep
    <3> QED BY <1>0, <1>6, <2>2, <3>3 DEF LockEquipment, TypeOK, OwnersWork
  <2>3. CASE \E e \in Equipment : Take(Equip({e}), h) /\ UNCHANGED tx
    <3>1. tx' = [tx EXCEPT ![h] = tx[h]]
      BY <1>0, <2>3
    <3>2. owner' \in [Lockable -> Handler \cup {None}] /\ OwnersWork'
      BY <1>0, <2>1, <2>3, <3>1, OwnersStep
    <3> QED BY <1>0, <1>6, <2>3, <3>2 DEF LockEquipment, TypeOK, OwnersWork
  <2> QED BY <1>0, <1>6, <2>2, <2>3 DEF LockEquipment, Transaction
<1>7. ASSUME NEW h \in Handler, WriteCustody(h) PROVE TypeOK'
  <2>1. tx[h].to \in User \cup {None}
    BY <1>0 DEF Transaction
  <2>2. holder' \in [Equipment -> User \cup {None}]
    BY <1>0, <1>7, <2>1 DEF WriteCustody, TypeOK
  <2>3. End(h)
    BY <1>7 DEF WriteCustody
  <2> QED BY <1>0, <1>4, <1>7, <2>2, <2>3 DEF WriteCustody, TypeOK, OwnersWork
<1>8. ASSUME NEW h \in Handler, WriteCondemned(h) PROVE TypeOK'
  <2>1. status' \in [Equipment -> Status]
    BY <1>0, <1>8 DEF WriteCondemned, TypeOK, Status
  <2> QED BY <1>0, <1>4, <1>8, <2>1 DEF WriteCondemned, TypeOK, OwnersWork
<1>9. ASSUME NEW h \in Handler, InsertRequest(h) PROVE TypeOK'
  <2>1. request' \in [Request -> RequestStatus] /\ item' \in [Request -> [Equipment -> Decision]]
    BY <1>0, <1>9 DEF InsertRequest, TypeOK, RequestStatus, Decision
  <2> QED BY <1>0, <1>4, <1>9, <2>1 DEF InsertRequest, TypeOK, OwnersWork
<1>10. ASSUME NEW h \in Handler, LockRequest(h) PROVE TypeOK'
  <2> DEFINE t == [tx[h] EXCEPT !.at = "items", !.es = Pending(tx[h].request)]
  <2>1. tx[h].op # "idle"
    BY <1>10 DEF CustodyInv, TxInv, Knows, LockRequest
  <2>2. t \in Transaction /\ t.op # "idle"
    BY <1>0, <2>1 DEF Transaction, Pending
  <2>3. tx' = [tx EXCEPT ![h] = t]
    BY <1>10 DEF LockRequest
  <2> HIDE DEF t
  <2>4. tx' \in [Handler -> Transaction] /\ owner' \in [Lockable -> Handler \cup {None}] /\ OwnersWork'
    BY <1>0, <1>10, <2>2, <2>3, OwnersStep DEF LockRequest
  <2> QED BY <1>0, <1>10, <2>4 DEF LockRequest, TypeOK, OwnersWork
<1>11. ASSUME NEW h \in Handler, NEW e \in Equipment, LockItem(h, e) PROVE TypeOK'
  <2> DEFINE v == Verdict(Decided(tx[h].request, {e}, tx[h].yes))
             t == [tx[h] EXCEPT !.at = "save", !.cur = {e}, !.verdict = v]
  <2>1. tx[h].op # "idle" /\ tx[h].request \in Request
    BY <1>11 DEF CustodyInv, TxInv, Knows, LockItem
  <2>2. v \in RequestStatus
    BY <1>0, <2>1, Decisions
  <2>3. tx' = [tx EXCEPT ![h] = t]
    BY <1>11 DEF LockItem
  <2> HIDE DEF v
  <2>4. t \in Transaction /\ t.op # "idle"
    BY <1>0, <2>1, <2>2 DEF Transaction
  <2> HIDE DEF t
  <2>5. tx' \in [Handler -> Transaction] /\ owner' \in [Lockable -> Handler \cup {None}] /\ OwnersWork'
    BY <1>0, <1>11, <2>3, <2>4, OwnersStep DEF LockItem
  <2> QED BY <1>0, <1>11, <2>5 DEF LockItem, TypeOK, OwnersWork
<1>12. ASSUME NEW h \in Handler, NEW e \in Equipment, LockNextItem(h, e) PROVE TypeOK'
  <2> DEFINE t == [tx[h] EXCEPT !.cur = @ \cup {e}]
  <2>1. tx[h].op # "idle"
    BY <1>12 DEF CustodyInv, TxInv, Knows, LockNextItem
  <2>2. t \in Transaction /\ t.op # "idle"
    BY <1>0, <2>1 DEF Transaction
  <2>3. tx' = [tx EXCEPT ![h] = t]
    BY <1>12 DEF LockNextItem
  <2> HIDE DEF t
  <2>4. tx' \in [Handler -> Transaction] /\ owner' \in [Lockable -> Handler \cup {None}] /\ OwnersWork'
    BY <1>0, <1>12, <2>2, <2>3, OwnersStep DEF LockNextItem
  <2> QED BY <1>0, <1>12, <2>4 DEF LockNextItem, TypeOK, OwnersWork
<1>13. ASSUME NEW h \in Handler, SaveItem(h) PROVE TypeOK'
  <2> DEFINE t == IF tx[h].es \ tx[h].cur = {} THEN Idle
                  ELSE [tx[h] EXCEPT !.at = "next", !.es = tx[h].es \ tx[h].cur, !.cur = {}]
  <2>1. tx[h].op # "idle" /\ tx[h].request \in Request /\ tx[h].verdict \in RequestStatus
    BY <1>0, <1>13 DEF CustodyInv, TxInv, Knows, SaveItem, Transaction
  <2>2. t \in Transaction
    BY <1>0, <1>3 DEF Transaction
  <2>3. tx' = [tx EXCEPT ![h] = t]
    BY <1>13 DEF SaveItem
  <2> HIDE DEF t
  <2>4. tx' \in [Handler -> Transaction] /\ owner' \in [Lockable -> Handler \cup {None}] /\ OwnersWork'
    BY <1>0, <1>13, <2>2, <2>3, OwnersStep DEF SaveItem
  <2>5. /\ item' \in [Request -> [Equipment -> Decision]]
        /\ request' \in [Request -> RequestStatus]
        /\ holder' \in [Equipment -> User \cup {None}]
    BY <1>0, <1>13, <2>1, Decisions DEF SaveItem, TypeOK, Closed
  <2> QED BY <1>0, <1>13, <2>4, <2>5 DEF SaveItem, TypeOK, OwnersWork
<1>14. ASSUME NEW h \in Handler, SaveRequest(h) PROVE TypeOK'
  <2>1. tx[h].request \in Request
    BY <1>14 DEF CustodyInv, TxInv, Knows, SaveRequest
  <2>2. /\ item' \in [Request -> [Equipment -> Decision]]
        /\ request' \in [Request -> RequestStatus]
        /\ holder' \in [Equipment -> User \cup {None}]
    BY <1>0, <1>14, <2>1, Decisions DEF SaveRequest, TypeOK, Closed
  <2> QED BY <1>0, <1>4, <1>14, <2>2 DEF SaveRequest, TypeOK, OwnersWork
<1>15. ASSUME NEW es \in SUBSET Equipment, NEW s \in Status, SetStatus(es, s) PROVE TypeOK'
  BY <1>0, <1>15 DEF SetStatus, TypeOK
<1> QED
  BY <1>0, <1>1, <1>2, <1>5, <1>6, <1>7, <1>8, <1>9, <1>10, <1>11, <1>12, <1>13, <1>14, <1>15, StepKinds
-----------------------------------------------------------------------------
(* What transactions know.                                                 *)

\* Items that are not pending stay so while their request has been made.
LEMMA TxStep ==
  ASSUME CustodyInv, [Next]_vars
  PROVE  TxInv' /\ ItemsOfMade' /\ ClosedHasNoPending'
<1> USE CustodyAssumption DEF Pending
<1>0. /\ TypeOK /\ TxInv /\ ItemsOfMade /\ ClosedHasNoPending
      /\ tx \in [Handler -> Transaction]
  BY DEF CustodyInv, TypeOK
\* Steps that leave requests and items alone.
<1>2. ASSUME UNCHANGED <<request, item>>,
             \A h \in Handler : \/ tx'[h] = tx[h]
                                \/ Knows(tx'[h]) /\ Made(tx'[h]) /\ VerdictStands(tx'[h])
      PROVE  TxInv' /\ ItemsOfMade' /\ ClosedHasNoPending'
  <2>1. TxInv'
    BY <1>0, <1>2 DEF TxInv, Made, VerdictStands, Knows
  <2> QED BY <1>0, <1>2, <2>1 DEF ItemsOfMade, ClosedHasNoPending
<1>3. Knows(Idle) /\ Made(Idle) /\ VerdictStands(Idle)
  BY DEF Idle, Knows, Made, VerdictStands
<1>4. CASE UNCHANGED vars
  BY <1>2, <1>4 DEF vars
<1>5. ASSUME NEW h \in Handler, NEW t \in Transaction, Startable(t), Begin(h, t)
      PROVE  TxInv' /\ ItemsOfMade' /\ ClosedHasNoPending'
  <2>1. Knows(t) /\ Made(t) /\ VerdictStands(t)
    BY <1>5 DEF Startable, VerdictStands
  <2>2. \A g \in Handler : tx'[g] = tx[g] \/ tx'[g] = t
    BY <1>0, <1>5 DEF Begin
  <2> QED BY <1>2, <1>5, <2>1, <2>2 DEF Begin
<1>6. ASSUME NEW h \in Handler, End(h) PROVE \A g \in Handler : tx'[g] = tx[g] \/ tx'[g] = Idle
  BY <1>0, <1>6 DEF End
<1>7. ASSUME NEW h \in Handler, Rollback(h) \/ WriteCustody(h) \/ WriteCondemned(h)
      PROVE  TxInv' /\ ItemsOfMade' /\ ClosedHasNoPending'
  BY <1>2, <1>3, <1>6, <1>7 DEF Rollback, WriteCustody, WriteCondemned
<1>8. ASSUME NEW h \in Handler, LockEquipment(h) PROVE TxInv' /\ ItemsOfMade' /\ ClosedHasNoPending'
  <2> DEFINE t == [tx[h] EXCEPT !.at = "write"]
  <2>1. Knows(t) /\ Made(t) /\ VerdictStands(t)
    BY <1>0, <1>8 DEF LockEquipment, TxInv, Knows, Made, VerdictStands, Transaction
  <2>2. \A g \in Handler : tx'[g] = tx[g] \/ tx'[g] = t
    BY <1>0, <1>8 DEF LockEquipment
  <2> QED BY <1>2, <1>8, <2>1, <2>2 DEF LockEquipment
<1>9. ASSUME NEW h \in Handler, LockRequest(h) PROVE TxInv' /\ ItemsOfMade' /\ ClosedHasNoPending'
  <2> DEFINE t == [tx[h] EXCEPT !.at = "items", !.es = Pending(tx[h].request)]
  <2>1. Knows(t) /\ Made(t) /\ VerdictStands(t)
    BY <1>0, <1>9 DEF LockRequest, TxInv, Knows, Made, VerdictStands, Transaction
  <2>2. \A g \in Handler : tx'[g] = tx[g] \/ tx'[g] = t
    BY <1>0, <1>9 DEF LockRequest
  <2> QED BY <1>2, <1>9, <2>1, <2>2 DEF LockRequest
<1>10. ASSUME NEW h \in Handler, NEW e \in Equipment, LockNextItem(h, e)
       PROVE  TxInv' /\ ItemsOfMade' /\ ClosedHasNoPending'
  <2> DEFINE t == [tx[h] EXCEPT !.cur = @ \cup {e}]
  <2>1. Knows(t) /\ Made(t) /\ VerdictStands(t)
    BY <1>0, <1>10 DEF LockNextItem, TxInv, Knows, Made, VerdictStands, Transaction
  <2>2. \A g \in Handler : tx'[g] = tx[g] \/ tx'[g] = t
    BY <1>0, <1>10 DEF LockNextItem
  <2> QED BY <1>2, <1>10, <2>1, <2>2 DEF LockNextItem
<1>11. ASSUME NEW h \in Handler, NEW e \in Equipment, LockItem(h, e)
       PROVE  TxInv' /\ ItemsOfMade' /\ ClosedHasNoPending'
  <2> DEFINE r == tx[h].request
             v == Verdict(Decided(r, {e}, tx[h].yes))
             t == [tx[h] EXCEPT !.at = "save", !.cur = {e}, !.verdict = v]
  <2>1. r \in Request /\ request[r] # "none" /\ tx[h].op # "idle"
    BY <1>0, <1>11 DEF LockItem, TxInv, Knows, Made
  <2>2. v # "none"
    BY <1>0, <2>1, Decisions
  <2>3. v \in {"approved", "denied"} => Pending(r) \subseteq {e}
    BY <1>0, <2>1, ClosingVerdict
  <2> HIDE DEF v
  <2>4. t.at = "save" /\ t.cur = {e} /\ t.verdict = v /\ t.request = r /\ t.op = tx[h].op
        /\ t.from = tx[h].from /\ t.to = tx[h].to
    BY <1>0 DEF Transaction
  <2>5. Knows(t) /\ Made(t) /\ VerdictStands(t)
    BY <1>0, <2>1, <2>2, <2>3, <2>4 DEF TxInv, Knows, Made, VerdictStands
  <2>6. tx' = [tx EXCEPT ![h] = t]
    BY <1>11 DEF LockItem, v
  <2>7. \A g \in Handler : tx'[g] = tx[g] \/ tx'[g] = t
    BY <1>0, <2>6
  <2> QED BY <1>2, <1>11, <2>5, <2>7 DEF LockItem
<1>12. ASSUME NEW h \in Handler, InsertRequest(h) PROVE TxInv' /\ ItemsOfMade' /\ ClosedHasNoPending'
  <2> PICK r \in Request :
        /\ request[r] = "none"
        /\ request' = [request EXCEPT ![r] = "pending"]
        /\ item' = [item EXCEPT ![r] = [e \in Equipment |->
                                          IF e \in tx[h].es THEN "pending" ELSE "none"]]
    BY <1>12 DEF InsertRequest
  <2>1. \A s \in Request : s # r => request'[s] = request[s] /\ item'[s] = item[s]
    BY <1>0 DEF TypeOK
  <2>2. request'[r] = "pending"
    BY <1>0 DEF TypeOK
  <2>3. ASSUME NEW g \in Handler PROVE (Knows(tx[g]) /\ Made(tx[g]) /\ VerdictStands(tx[g]))'
    <3>1. CASE tx'[g] = Idle
      BY <3>1 DEF Idle, Knows, Made, VerdictStands
    <3>2. CASE tx'[g] = tx[g]
      BY <1>0, <2>1, <2>2, <3>2 DEF TxInv, Knows, Made, VerdictStands
    <3> QED BY <1>6, <1>12, <3>1, <3>2 DEF InsertRequest
  <2> QED BY <1>0, <2>1, <2>2, <2>3 DEF TxInv, ItemsOfMade, ClosedHasNoPending
\* Steps that save decisions about request r.
<1>13. ASSUME NEW h \in Handler, NEW r \in Request, request[r] # "none",
              NEW es, NEW yes, NEW v \in RequestStatus \ {"none"},
              item' = [item EXCEPT ![r] = Decided(r, es, yes)],
              request' = [request EXCEPT ![r] = v],
              v \in {"approved", "denied"} => Pending(r) \subseteq es,
              \A g \in Handler : \/ tx'[g] = tx[g]
                                 \/ tx'[g] = Idle
                                 \/ Knows(tx'[g]) /\ tx'[g].at = "next" /\ tx'[g].request = r
       PROVE  TxInv' /\ ItemsOfMade' /\ ClosedHasNoPending'
  <2>1. /\ \A s \in Request : s # r => request'[s] = request[s] /\ item'[s] = item[s]
        /\ request'[r] = v /\ item'[r] = Decided(r, es, yes)
    BY <1>0, <1>13 DEF TypeOK
  <2>2. Pending(r)' = Pending(r) \ es
    BY <2>1 DEF Decided
  <2>3. \A s \in Request : Pending(s)' \subseteq Pending(s)
    BY <2>1, <2>2
  <2>4. ASSUME NEW g \in Handler PROVE (Knows(tx[g]) /\ Made(tx[g]) /\ VerdictStands(tx[g]))'
    <3>1. CASE tx'[g] = Idle
      BY <3>1 DEF Idle, Knows, Made, VerdictStands
    <3>2. CASE tx'[g] = tx[g]
      BY <1>0, <1>13, <2>1, <2>3, <3>2 DEF TxInv, Knows, Made, VerdictStands
    <3>3. CASE Knows(tx'[g]) /\ tx'[g].at = "next" /\ tx'[g].request = r
      BY <2>1, <3>3 DEF Knows, Made, VerdictStands
    <3> QED BY <1>13, <3>1, <3>2, <3>3
  <2>5. ClosedHasNoPending'
    BY <1>0, <1>13, <2>1, <2>2 DEF ClosedHasNoPending
  <2>6. ItemsOfMade'
    BY <1>0, <2>1 DEF ItemsOfMade
  <2> QED BY <2>4, <2>5, <2>6 DEF TxInv
<1>14. ASSUME NEW h \in Handler, SaveItem(h) PROVE TxInv' /\ ItemsOfMade' /\ ClosedHasNoPending'
  <2> DEFINE r == tx[h].request
             t == [tx[h] EXCEPT !.at = "next", !.es = tx[h].es \ tx[h].cur, !.cur = {}]
  <2>1. /\ r \in Request /\ request[r] # "none" /\ tx[h].verdict \in RequestStatus \ {"none"}
        /\ tx[h].verdict \in {"approved", "denied"} => Pending(r) \subseteq tx[h].cur
    BY <1>0, <1>14 DEF SaveItem, TxInv, Knows, Made, VerdictStands, Transaction
  <2>2. Knows(t) /\ t.at = "next" /\ t.request = r
    BY <1>0, <1>14 DEF SaveItem, TxInv, Knows, Transaction
  <2>3. \A g \in Handler : tx'[g] = tx[g] \/ tx'[g] = Idle \/ tx'[g] = t
    BY <1>0, <1>14 DEF SaveItem
  <2>4. /\ item' = [item EXCEPT ![r] = Decided(r, tx[h].cur, tx[h].yes)]
        /\ request' = [request EXCEPT ![r] = tx[h].verdict]
    BY <1>14 DEF SaveItem
  <2>5. \A g \in Handler : \/ tx'[g] = tx[g]
                           \/ tx'[g] = Idle
                           \/ Knows(tx'[g]) /\ tx'[g].at = "next" /\ tx'[g].request = r
    BY <2>2, <2>3
  <2> HIDE DEF r, t
  <2> QED BY <1>13, <2>1, <2>4, <2>5
<1>15. ASSUME NEW h \in Handler, SaveRequest(h) PROVE TxInv' /\ ItemsOfMade' /\ ClosedHasNoPending'
  <2> DEFINE r == tx[h].request
             v == Verdict(Decided(r, tx[h].es, tx[h].yes))
  <2>1. r \in Request /\ request[r] # "none"
    BY <1>0, <1>15 DEF SaveRequest, TxInv, Knows, Made
  <2>2. v \in RequestStatus \ {"none"}
    BY <1>0, <2>1, Decisions
  <2>3. v \in {"approved", "denied"} => Pending(r) \subseteq tx[h].es
    BY <1>0, <2>1, ClosingVerdict
  <2>4. \A g \in Handler : tx'[g] = tx[g] \/ tx'[g] = Idle
    BY <1>6, <1>15 DEF SaveRequest
  <2>5. item' = [item EXCEPT ![r] = Decided(r, tx[h].es, tx[h].yes)] /\ request' = [request EXCEPT ![r] = v]
    BY <1>15 DEF SaveRequest
  <2> HIDE DEF r, v
  <2> QED BY <1>13, <2>1, <2>2, <2>3, <2>4, <2>5
<1>16. ASSUME NEW es \in SUBSET Equipment, NEW s \in Status, SetStatus(es, s)
       PROVE  TxInv' /\ ItemsOfMade' /\ ClosedHasNoPending'
  BY <1>2, <1>16 DEF SetStatus
<1> QED
  BY <1>0, <1>4, <1>5, <1>7, <1>8, <1>9, <1>10, <1>11, <1>12, <1>14, <1>15, <1>16, StepKinds
-----------------------------------------------------------------------------
(* Locks.                                                                  *)

\* Every other transaction keeps its locks while one takes or releases some.
LEMMA OthersKeepLocks ==
  ASSUME NEW h \in Handler, NEW g \in Handler, g # h, NEW x \in Lockable, owner[x] = g,
         owner \in [Lockable -> Handler \cup {None}]
  PROVE  /\ Release(h) => owner'[x] = g
         /\ \A xs : Free(xs, h) /\ Take(xs, h) => owner'[x] = g
BY CustodyAssumption DEF Release, Take, Free

LEMMA LockStep ==
  ASSUME CustodyInv, [Next]_vars
  PROVE  \A h \in Handler : WriteLocked(h)'
<1> USE CustodyAssumption
<1>0. /\ TypeOK /\ TxInv /\ ItemsOfMade /\ tx \in [Handler -> Transaction]
      /\ owner \in [Lockable -> Handler \cup {None}]
      /\ \A h \in Handler : WriteLocked(h)
      /\ \A h \in Handler : tx[h].es \subseteq Equipment
  BY DEF CustodyInv, TypeOK, Transaction
\* What a step of h must do: leave the locks of the others alone, and not
\* bring h to where it writes without them.
<1>1. ASSUME NEW h \in Handler,
             \A g \in Handler : g # h => tx'[g] = tx[g],
             \A g \in Handler, x \in Lockable : g # h /\ owner[x] = g => owner'[x] = g,
             WriteLocked(h)'
      PROVE  \A g \in Handler : WriteLocked(g)'
  <2> SUFFICES ASSUME NEW g \in Handler, g # h PROVE WriteLocked(g)'
    BY <1>1
  <2> QED BY <1>0, <1>1, EquipmentLockable DEF WriteLocked
<1>2. CASE UNCHANGED vars
  BY <1>0, <1>2 DEF vars, WriteLocked
<1>3. ASSUME NEW h \in Handler, NEW t \in Transaction, Startable(t), Begin(h, t)
      PROVE  \A g \in Handler : WriteLocked(g)'
  <2>1. WriteLocked(h)'
    BY <1>0, <1>3 DEF Begin, Startable, WriteLocked
  <2> QED BY <1>0, <1>1, <1>3, <2>1 DEF Begin
<1>4. ASSUME NEW h \in Handler, End(h) PROVE \A g \in Handler : WriteLocked(g)'
  <2>1. tx'[h] = Idle
    BY <1>0, <1>4 DEF End
  <2>2. WriteLocked(h)'
    BY <2>1 DEF WriteLocked, Idle
  <2> QED BY <1>0, <1>1, <1>4, <2>2, OthersKeepLocks DEF End
<1>5. ASSUME NEW h \in Handler, LockEquipment(h) PROVE \A g \in Handler : WriteLocked(g)'
  <2>1. WriteLocked(h)'
    <3>1. CASE tx' = [tx EXCEPT ![h].at = "write"] /\ UNCHANGED owner
               /\ {e \in tx[h].es : owner[<<"equipment", e>>] # h} = {}
      <4>1. tx'[h].es = tx[h].es
        BY <1>0, <3>1 DEF Transaction
      <4>2. \A e \in tx[h].es : owner'[<<"equipment", e>>] = h
        BY <3>1
      <4> QED BY <4>1, <4>2 DEF WriteLocked
    <3>2. CASE UNCHANGED tx
      BY <1>0, <1>5, <3>2 DEF WriteLocked, LockEquipment
    <3> QED BY <1>5, <3>1, <3>2 DEF LockEquipment
  <2>2. \A g \in Handler : g # h => tx'[g] = tx[g]
    BY <1>0, <1>5 DEF LockEquipment
  <2>3. UNCHANGED owner \/ \E e \in Equipment : Free(Equip({e}), h) /\ Take(Equip({e}), h)
    BY <1>0, <1>5 DEF LockEquipment
  <2> QED BY <1>0, <1>1, <2>1, <2>2, <2>3, OthersKeepLocks
<1>6. ASSUME NEW h \in Handler, LockRequest(h) PROVE \A g \in Handler : WriteLocked(g)'
  <2>1. tx'[h].at = "items" /\ \A g \in Handler : g # h => tx'[g] = tx[g]
    BY <1>0, <1>6 DEF LockRequest, Transaction
  <2>2. WriteLocked(h)'
    BY <2>1 DEF WriteLocked
  <2> QED BY <1>0, <1>1, <1>6, <2>1, <2>2, OthersKeepLocks DEF LockRequest
<1>7. ASSUME NEW h \in Handler, NEW e \in Equipment, LockItem(h, e) \/ LockNextItem(h, e)
      PROVE  \A g \in Handler : WriteLocked(g)'
  <2>1. tx'[h].at # "write" /\ \A g \in Handler : g # h => tx'[g] = tx[g]
    BY <1>0, <1>7 DEF LockItem, LockNextItem, Transaction
  <2>2. WriteLocked(h)'
    BY <2>1 DEF WriteLocked
  <2> QED BY <1>0, <1>1, <1>7, <2>1, <2>2, OthersKeepLocks DEF LockItem, LockNextItem
<1>8. ASSUME NEW h \in Handler, SaveItem(h) PROVE \A g \in Handler : WriteLocked(g)'
  <2>1. tx'[h].at # "write" /\ \A g \in Handler : g # h => tx'[g] = tx[g]
    BY <1>0, <1>8 DEF SaveItem, Transaction, Idle
  <2>2. WriteLocked(h)'
    BY <2>1 DEF WriteLocked
  <2> QED BY <1>0, <1>1, <1>8, <2>1, <2>2, OthersKeepLocks DEF SaveItem
<1>9. ASSUME NEW es \in SUBSET Equipment, NEW s \in Status, SetStatus(es, s)
      PROVE  \A g \in Handler : WriteLocked(g)'
  BY <1>0, <1>9 DEF SetStatus, WriteLocked
<1> QED
  BY <1>0, <1>2, <1>3, <1>4, <1>5, <1>6, <1>7, <1>8, <1>9, StepKinds
     DEF Rollback, WriteCustody, WriteCondemned, InsertRequest, SaveRequest
-----------------------------------------------------------------------------
(* The theorems.                                                           *)

LEMMA CustodyInvariant == Spec => []CustodyInv
<1>1. CustodyInv /\ [Next]_vars => CustodyInv'
  BY TypeStep, TxStep, LockStep DEF CustodyInv
<1> QED BY CustodyInit, <1>1, PTL DEF Spec

\* Type correctness of AssetCustody; a lock belongs to an open transaction.
THEOREM CustodyTypes == Spec => []TypeOK
BY CustodyInvariant, PTL DEF CustodyInv

\* update_return_request_status runs in every transaction that decides an item,
\* on what that transaction sees: still, a request it approved or denied has no
\* item left to decide.
THEOREM ClosedRequestsAreDecided == Spec => []ClosedHasNoPending
BY CustodyInvariant, PTL DEF CustodyInv

\* Two assignment transactions that have taken their locks (select_for_update
\* by id) have no piece of equipment in common.
OneWriterEach ==
  \A g, h \in Handler :
    /\ g # h /\ tx[g].at = "write" /\ tx[h].at = "write"
    /\ {tx[g].op, tx[h].op} \subseteq {"assign", "unassign", "reassign"}
    => tx[g].es \cap tx[h].es = {}

\* Of two concurrent assignment, unassignment or reassignment requests about
\* one piece of equipment, one at a time is past its locks.
THEOREM AssignmentsExclude == Spec => []OneWriterEach
<1>1. CustodyInv => OneWriterEach
  BY DEF CustodyInv, WriteLocked, OneWriterEach
<1> QED BY CustodyInvariant, <1>1, PTL

\* The assignment row is overwritten in place; only a reassignment that names
\* the holder takes the equipment from it for somebody else.
THEOREM NobodyIsRobbed == Spec => NoSilentTakeover
<1> DEFINE Allowed(e) == holder[e] # None /\ holder[e]' \notin {None, holder[e]} =>
             \E h \in Handler : tx[h].op = "reassign" /\ e \in tx[h].es /\ tx[h].from = holder[e]
           Fair == \A e \in Equipment : Allowed(e)
<1>1. ASSUME CustodyInv, [Next]_vars PROVE Fair
  <2> SUFFICES ASSUME NEW e \in Equipment, holder[e] # None, holder[e]' \notin {None, holder[e]}
               PROVE  \E h \in Handler : /\ tx[h].op = "reassign" /\ e \in tx[h].es
                                         /\ tx[h].from = holder[e]
    OBVIOUS
  <2>1. TypeOK /\ TxInv /\ ItemsOfMade
    BY <1>1 DEF CustodyInv
  <2>2. PICK h \in Handler : WriteCustody(h) \/ SaveItem(h) \/ SaveRequest(h)
    BY <1>1, <2>1, StepKinds DEF vars, Begin, Rollback, LockEquipment, WriteCondemned, InsertRequest,
         LockRequest, LockItem, LockNextItem, SetStatus
  <2>3. CASE WriteCustody(h)
    <3>1. e \in Applies(tx[h]) /\ tx[h].to # None
      BY <2>1, <2>3 DEF WriteCustody, TypeOK
    <3>2. tx[h].op # "assign"
      BY <3>1 DEF Applies, Assignable, IsAssigned
    <3>3. tx[h].op = "reassign"
      BY <2>1, <2>3, <3>1, <3>2 DEF TxInv, Knows, WriteCustody
    <3>4. e \in tx[h].es /\ tx[h].from \in {None, holder[e]} /\ tx[h].from # None
      BY <2>1, <3>1, <3>3 DEF Applies, Unassignable, TxInv, Knows
    <3> QED BY <3>3, <3>4
  <2>4. CASE SaveItem(h) \/ SaveRequest(h)
    <3>1. holder'[e] \in {None, holder[e]}
      BY <2>4 DEF SaveItem, SaveRequest, Closed
    <3> QED BY <3>1
  <2> QED BY <2>2, <2>3, <2>4
<1>2. CustodyInv /\ [Next]_vars => [Fair]_vars
  BY <1>1
<1> QED BY CustodyInvariant, <1>2, PTL DEF Spec, NoSilentTakeover
=============================================================================
