----------------------------- MODULE AssetCustody -----------------------------
(***************************************************************************)
(* Equipment, the one assignment row each piece has (who holds it, or held *)
(* it last), and the return requests that close such rows.  Endpoints run  *)
(* in PostgreSQL transactions (READ COMMITTED).  The assignment endpoints   *)
(* lock the equipment and trust what they read under that lock; the return *)
(* endpoints lock the assignment row, the item and the request instead, and *)
(* decide on what they loaded before.  They meet when a return commits: its *)
(* new EquipmentEvent refers to the equipment, so the deferred foreign key  *)
(* check waits for whoever has it locked.  A write is seen when its         *)
(* transaction commits, so it belongs to the last step.                     *)
(***************************************************************************)
EXTENDS Integers, FiniteSets

CONSTANTS
  Equipment,   \* numbers: batches lock in the order of the primary key
  User, Request,
  Handler,     \* HTTP requests served at the same time
  None,
  Endpoints,   \* the endpoints in use
  Changeable   \* bound: the equipment whose status changes

AllEndpoints == {"assign", "unassign", "reassign", "status", "condemn", "ask", "decide", "process"}

ASSUME CustodyAssumption ==
  /\ Equipment \subseteq Nat /\ IsFiniteSet(Equipment)
  /\ None \notin User \cup Request \cup Handler
  /\ Endpoints \subseteq AllEndpoints /\ Changeable \subseteq Equipment

VARIABLES
  status,   \* Equipment.status
  holder,   \* the user of the EquipmentAssignment row while it is open (its
            \* returned_at is null), else None
  request,  \* ReturnRequest.status
  item,     \* ReturnRequestItem.status, by request and equipment
  owner,    \* the handler that has locked each database row
  tx        \* what each handler is doing

vars == <<status, holder, request, item, owner, tx>>

\* "ok" stands for the statuses of usable equipment (ok, damaged, under_repair),
\* "lost" for those that refuse an assignment (lost, retired).
Status == {"ok", "lost", "condemned"}
Decision == {"none", "pending", "approved", "denied"}
RequestStatus == Decision \cup {"partial"}

\* Database rows that get locked: equipment, assignments, requests, items.
Lockable == ({"equipment", "assignment"} \X Equipment)
              \cup ({"request"} \X Request) \cup ({"item"} \X Request \X Equipment)

Transaction ==
  [op: AllEndpoints \cup {"idle", "whole"},
   at: {"idle", "lock", "write", "next", "request", "items", "save"},
   es: SUBSET Equipment,         \* the equipment concerned
   yes: SUBSET Equipment,        \* of a decision: the items to approve
   from: User \cup {None}, to: User \cup {None},
   request: Request \cup {None},
   cur: SUBSET Equipment,        \* the items decided in this transaction
   verdict: RequestStatus]       \* the request status that was computed

Idle == [op |-> "idle", at |-> "idle", es |-> {}, yes |-> {}, from |-> None,
         to |-> None, request |-> None, cur |-> {}, verdict |-> "none"]

Init ==
  /\ status = [e \in Equipment |-> "ok"]
  /\ holder = [e \in Equipment |-> None]
  /\ request = [r \in Request |-> "none"]
  /\ item = [r \in Request |-> [e \in Equipment |-> "none"]]
  /\ owner = [x \in Lockable |-> None]
  /\ tx = [h \in Handler |-> Idle]
-----------------------------------------------------------------------------
Equip(es) == {"equipment"} \X es
Rows(es) == {"assignment"} \X es
Items(r, es) == {"item"} \X {r} \X es

Free(xs, h) == \A x \in xs : owner[x] \in {None, h}

Take(xs, h) == owner' = [x \in Lockable |-> IF x \in xs THEN h ELSE owner[x]]

Begin(h, t) ==
  /\ tx[h].op = "idle"
  /\ tx' = [tx EXCEPT ![h] = t]
  /\ UNCHANGED <<status, holder, request, item, owner>>

\* Commit or rollback: the locks are released.
Release(h) == owner' = [x \in Lockable |-> IF owner[x] = h THEN None ELSE owner[x]]

End(h) == Release(h) /\ tx' = [tx EXCEPT ![h] = Idle]

Rollback(h) == End(h) /\ UNCHANGED <<status, holder, request, item>>
-----------------------------------------------------------------------------
(* Assigning, unassigning and reassigning.  A single endpoint validates its *)
(* equipment before the transaction and refuses where a batch, which does   *)
(* not validate, skips: neither changes anything.                           *)
Custody(op, es, u, v) ==
  [Idle EXCEPT !.op = op, !.at = "lock", !.es = es, !.from = u, !.to = v]

IsAssigned(e) == holder[e] # None

CanAssign(e) == ~IsAssigned(e) /\ status[e] # "lost"

Assign(h, e, v) ==
  "assign" \in Endpoints /\ CanAssign(e) /\ Begin(h, Custody("assign", {e}, None, v))

BatchAssign(h, es, v) ==
  "assign" \in Endpoints /\ es # {} /\ Begin(h, Custody("assign", es, None, v))

CanUnassign(e) == IsAssigned(e)

Unassign(h, e, u) ==
  "unassign" \in Endpoints /\ CanUnassign(e) /\ Begin(h, Custody("unassign", {e}, u, None))

BatchUnassign(h, es) ==
  "unassign" \in Endpoints /\ es # {} /\ Begin(h, Custody("unassign", es, None, None))

CanReassign(e, u, v) == u # v /\ IsAssigned(e)

Reassign(h, e, u, v) ==
  "reassign" \in Endpoints /\ CanReassign(e, u, v) /\ Begin(h, Custody("reassign", {e}, u, v))

\* select_for_update().order_by("id"): the locks are taken in one order.
LockEquipment(h) ==
  LET t == tx[h]
      left == {e \in t.es : owner[<<"equipment", e>>] # h}
  IN /\ t.at = "lock"
     /\ \/ left = {} /\ tx' = [tx EXCEPT ![h].at = "write"] /\ UNCHANGED owner
        \/ \E e \in left : /\ \A f \in left : e <= f
                           /\ Free(Equip({e}), h)
                           /\ Take(Equip({e}), h)
                           /\ UNCHANGED tx
     /\ UNCHANGED <<status, holder, request, item>>

\* Mutant: is_assigned is not read again under the lock.
BugAssignableUnchecked(es) == es

\* What the operation applies to, as read under the locks.
Assignable(es) == {e \in es : ~IsAssigned(e)}

Unassignable(es, u) == {e \in es : IsAssigned(e) /\ u \in {None, holder[e]}}

Applies(t) == IF t.op = "assign" THEN Assignable(t.es) ELSE Unassignable(t.es, t.from)

\* The row is reused: get_or_create finds the returned assignment.
WriteCustody(h) ==
  LET t == tx[h] IN
  /\ t.at = "write" /\ t.op \in {"assign", "unassign", "reassign"}
  /\ Free(Rows(Applies(t)), h)
  /\ holder' = [e \in Equipment |-> IF e \in Applies(t) THEN t.to ELSE holder[e]]
  /\ End(h) /\ UNCHANGED <<status, request, item>>
-----------------------------------------------------------------------------
(* Status changes, which any status may follow: validate_status stands      *)
(* outside its serializer class and is never called.  Batches change the    *)
(* status under the lock; the views of one piece of equipment do not lock.  *)
SetStatus(es, s) ==
  /\ \A e \in es : owner[<<"equipment", e>>] = None
  /\ status' = [e \in Equipment |-> IF e \in es THEN s ELSE status[e]]
  /\ UNCHANGED <<holder, request, item, owner, tx>>

ChangeStatus(e, s) == "status" \in Endpoints /\ status[e] # s /\ SetStatus({e}, s)

BatchChangeStatus(es, s) == "status" \in Endpoints /\ es # {} /\ SetStatus(es, s)

\* EquipmentCondemnView refuses what is assigned, then saves.  The batch does
\* not ask who holds the equipment.
BatchCondemn(es) == "condemn" \in Endpoints /\ es # {} /\ SetStatus(es, "condemned")

Condemn(h, e) ==
  /\ "condemn" \in Endpoints /\ e \in Changeable
  /\ status[e] # "condemned" /\ ~IsAssigned(e)
  /\ Begin(h, [Idle EXCEPT !.op = "condemn", !.at = "write", !.es = {e}])

WriteCondemned(h) ==
  LET t == tx[h] IN
  /\ t.at = "write" /\ t.op = "condemn" /\ Free(Equip(t.es), h)
  /\ status' = [e \in Equipment |-> IF e \in t.es THEN "condemned" ELSE status[e]]
  /\ End(h) /\ UNCHANGED <<holder, request, item>>
-----------------------------------------------------------------------------
(* A user asks to return equipment it holds: create_mixed_return_request.   *)
\* Bound: a request row is left for every user that asks.
Spare == Cardinality({r \in Request : request[r] = "none"})
           > Cardinality({h \in Handler : tx[h].op = "ask"})

HasPendingRequest(e) == \E r \in Request : item[r][e] # "none" /\ request[r] = "pending"

Ask(h, u, es) ==
  /\ "ask" \in Endpoints /\ es # {} /\ Spare
  /\ \A e \in es : holder[e] = u /\ ~HasPendingRequest(e)
  /\ Begin(h, [Idle EXCEPT !.op = "ask", !.at = "write", !.es = es])

InsertRequest(h) ==
  LET t == tx[h] IN
  /\ t.at = "write" /\ t.op = "ask" /\ Free(Equip(t.es), h)
  /\ \E r \in Request :
       /\ request[r] = "none"
       /\ request' = [request EXCEPT ![r] = "pending"]
       /\ item' = [item EXCEPT ![r] = [e \in Equipment |->
                                         IF e \in t.es THEN "pending" ELSE "none"]]
  /\ End(h) /\ UNCHANGED <<status, holder>>
-----------------------------------------------------------------------------
(* Deciding.                                                                *)
\* Mutant: one approved item is enough.
BugVerdictAny(its) ==
  LET seen == {its[e] : e \in Equipment} \ {"none"}
  IN IF "approved" \in seen THEN "approved" ELSE IF "denied" \in seen THEN "denied" ELSE "pending"

\* update_return_request_status, from the statuses of the items.
Verdict(its) ==
  LET seen == {its[e] : e \in Equipment} \ {"none"}
  IN IF seen = {"approved"} THEN "approved"
     ELSE IF seen = {"denied"} THEN "denied"
     ELSE IF {"approved", "denied"} \subseteq seen THEN "partial"
     ELSE "pending"

Decided(r, es, yes) ==
  [e \in Equipment |-> IF e \notin es THEN item[r][e]
                       ELSE IF e \in yes THEN "approved" ELSE "denied"]

Pending(r) == {e \in Equipment : item[r][e] = "pending"}

\* approve and deny of one item; process, which takes the items of a list one
\* transaction after the other, on what it loaded first.
DecideItem(h, r, e, yes) ==
  /\ "decide" \in Endpoints /\ e \in Pending(r)
  /\ Begin(h, [Idle EXCEPT !.op = "decide", !.at = "next", !.request = r,
                           !.es = {e}, !.yes = yes])

ApproveItem(h, r, e) == DecideItem(h, r, e, {e})
DenyItem(h, r, e) == DecideItem(h, r, e, {})

Process(h, r, es, yes) ==
  /\ "process" \in Endpoints /\ request[r] = "pending" /\ es # {} /\ es \subseteq Pending(r)
  /\ Begin(h, [Idle EXCEPT !.op = "process", !.at = "next", !.request = r,
                           !.es = es, !.yes = yes])

\* approve_return_item, deny_return_item: an approved item's assignment is
\* closed, whoever holds it now, the item saved, the statuses read.
LockItem(h, e) ==
  LET t == tx[h]
      locks == Items(t.request, {e}) \cup Rows({e} \cap t.yes)
  IN /\ t.at = "next" /\ e \in t.es /\ Free(locks, h)
     /\ Take(locks, h)
     /\ tx' = [tx EXCEPT ![h] = [t EXCEPT !.at = "save", !.cur = {e},
                                   !.verdict = Verdict(Decided(t.request, {e}, t.yes))]]
     /\ UNCHANGED <<status, holder, request, item>>

Closed(es) == [e \in Equipment |-> IF e \in es THEN None ELSE holder[e]]

SaveItem(h) ==
  LET t == tx[h]
      left == t.es \ t.cur
  IN /\ t.at = "save" /\ t.op # "whole"
     /\ Free({<<"request", t.request>>} \cup Equip(t.cur \cap t.yes), h)
     /\ item' = [item EXCEPT ![t.request] = Decided(t.request, t.cur, t.yes)]
     /\ request' = [request EXCEPT ![t.request] = t.verdict]
     /\ holder' = Closed(t.cur \cap t.yes)
     /\ Release(h)
     /\ tx' = [tx EXCEPT ![h] = IF left = {} THEN Idle
                                ELSE [t EXCEPT !.at = "next", !.es = left, !.cur = {}]]
     /\ UNCHANGED status
-----------------------------------------------------------------------------
(* approve_return_request, deny_return_request: all that is pending, in one *)
(* transaction, under a lock on the request.                                *)
DecideRequest(h, r, yes) ==
  /\ "decide" \in Endpoints /\ request[r] = "pending"
  /\ Begin(h, [Idle EXCEPT !.op = "whole", !.at = "request", !.request = r, !.yes = yes])

ApproveRequest(h, r) == DecideRequest(h, r, Equipment)
DenyRequest(h, r) == DecideRequest(h, r, {})

LockRequest(h) ==
  LET t == tx[h] IN
  /\ t.at = "request" /\ Free({<<"request", t.request>>}, h)
  /\ request[t.request] = "pending"
  /\ Take({<<"request", t.request>>}, h)
  /\ tx' = [tx EXCEPT ![h].at = "items", ![h].es = Pending(t.request)]
  /\ UNCHANGED <<status, holder, request, item>>

\* "Request already processed"
RequestRefused(h) ==
  /\ tx[h].at = "request" /\ Free({<<"request", tx[h].request>>}, h)
  /\ request[tx[h].request] # "pending"
  /\ Rollback(h)

LockNextItem(h, e) ==
  LET t == tx[h]
      locks == Items(t.request, {e}) \cup Rows({e} \cap t.yes)
  IN /\ t.at = "items" /\ e \in t.es \ t.cur /\ Free(locks, h)
     /\ Take(locks, h)
     /\ tx' = [tx EXCEPT ![h].cur = @ \cup {e}]
     /\ UNCHANGED <<status, holder, request, item>>

SaveRequest(h) ==
  LET t == tx[h] IN
  /\ t.at = "items" /\ t.cur = t.es /\ Free(Equip(t.es \cap t.yes), h)
  /\ item' = [item EXCEPT ![t.request] = Decided(t.request, t.es, t.yes)]
  /\ request' = [request EXCEPT ![t.request] = Verdict(Decided(t.request, t.es, t.yes))]
  /\ holder' = Closed(t.es \cap t.yes)
  /\ End(h) /\ UNCHANGED status
-----------------------------------------------------------------------------
\* What the next statement or the commit of a transaction needs.
Needs(h) ==
  LET t == tx[h] IN
  CASE t.at = "lock" -> Equip({e \in t.es : \A f \in t.es :
                                 f < e => owner[<<"equipment", f>>] = h})
    [] t.at = "write" /\ t.op \in {"condemn", "ask"} -> Equip(t.es)
    [] t.at = "write" -> Rows(Applies(t))
    [] t.at = "next" -> Items(t.request, t.es) \cup Rows(t.es \cap t.yes)
    [] t.at = "request" -> {<<"request", t.request>>}
    [] t.at = "items" /\ t.cur # t.es ->
         Items(t.request, t.es \ t.cur) \cup Rows((t.es \ t.cur) \cap t.yes)
    [] t.at = "items" -> Equip(t.es \cap t.yes)
    [] t.at = "save" -> {<<"request", t.request>>} \cup Equip(t.cur \cap t.yes)
    [] OTHER -> {}

WaitsFor(h, g) == g # h /\ \E x \in Needs(h) : owner[x] = g

\* PostgreSQL aborts one transaction of a circle.
DeadlockAbort(h) ==
  /\ \E g \in Handler : WaitsFor(h, g) /\ WaitsFor(g, h)
  /\ Rollback(h)

Proceed(h) ==
  \/ LockEquipment(h) \/ WriteCustody(h) \/ WriteCondemned(h) \/ InsertRequest(h)
  \/ \E e \in Equipment : LockItem(h, e) \/ LockNextItem(h, e)
  \/ SaveItem(h) \/ LockRequest(h) \/ RequestRefused(h) \/ SaveRequest(h)
  \/ DeadlockAbort(h)

Serve(h) ==
  \/ \E e \in Equipment, u \in User : Assign(h, e, u) \/ Unassign(h, e, u)
  \/ \E e \in Equipment, u, v \in User : Reassign(h, e, u, v)
  \/ \E es \in SUBSET Equipment, u \in User : BatchAssign(h, es, u) \/ Ask(h, u, es)
  \/ \E es \in SUBSET Equipment : BatchUnassign(h, es)
  \/ \E e \in Equipment : Condemn(h, e)
  \/ \E r \in Request, e \in Equipment : ApproveItem(h, r, e) \/ DenyItem(h, r, e)
  \/ \E r \in Request : ApproveRequest(h, r) \/ DenyRequest(h, r)
  \/ \E r \in Request : \E es \in SUBSET Equipment : \E yes \in SUBSET es : Process(h, r, es, yes)

Next ==
  \/ \E h \in Handler : Serve(h) \/ Proceed(h)
  \/ \E es \in SUBSET Changeable, s \in Status : BatchChangeStatus(es, s)
  \/ \E e \in Changeable, s \in Status : ChangeStatus(e, s)
  \/ \E es \in SUBSET Changeable : BatchCondemn(es)

Spec == Init /\ [][Next]_vars
-----------------------------------------------------------------------------
\* Type correctness; a lock belongs to a transaction that is still open.
TypeOK ==
  /\ status \in [Equipment -> Status]
  /\ holder \in [Equipment -> User \cup {None}]
  /\ request \in [Request -> RequestStatus]
  /\ item \in [Request -> [Equipment -> Decision]]
  /\ owner \in [Lockable -> Handler \cup {None}]
  /\ tx \in [Handler -> Transaction]
  /\ \A x \in Lockable : owner[x] # None => tx[owner[x]].op # "idle"

\* "prevents double assignment": the row is overwritten in place, so nothing in
\* the database keeps a second assignment from taking equipment away from its
\* holder.  Only a reassignment that names the holder does.
NoSilentTakeover ==
  [][\A e \in Equipment :
       holder[e] # None /\ holder[e]' \notin {None, holder[e]} =>
         \E h \in Handler : tx[h].op = "reassign" /\ e \in tx[h].es /\ tx[h].from = holder[e]]_vars

\* A request that was approved or denied has no item left to decide, though
\* concurrent decisions compute its status each from what they see.
ClosedHasNoPending ==
  \A r \in Request : request[r] \in {"approved", "denied"} => Pending(r) = {}

=============================================================================
