-------------------------- MODULE ConsumableStock --------------------------
(***************************************************************************)
(* Consumables: the units left in stock of each, and the issue rows that   *)
(* say how many of them a user holds.  As in AccessoryStock the endpoints  *)
(* are PostgreSQL transactions of several steps, a write belongs to the    *)
(* step that commits it, and a commit with a new ConsumableEvent locks the *)
(* consumable it refers to.  Issuing takes units out of stock, returning   *)
(* brings them back, a loss and a use take them out of the user's hands.   *)
(* A return request brings them back too, once it is approved; approving   *)
(* locks nothing before it writes.                                         *)
(***************************************************************************)
EXTENDS Integers, FiniteSets

CONSTANTS
  Consumable, User,
  Issue,       \* ConsumableIssue rows
  Item,        \* ReturnRequestItem rows, each the only one of its request
  Handler,     \* requests that may be served at the same time
  None,
  Spenders,    \* the users who call UseConsumableView
  MaxStock,    \* bound on the units a consumable is restocked to
  MaxAsk       \* bound on the quantity of a request

ASSUME ConsumableAssumption ==
  /\ IsFiniteSet(Issue) /\ Consumable \cap Issue = {}
  /\ None \notin Issue \cup Handler
  /\ Spenders \subseteq User
  /\ MaxStock \in Nat /\ MaxAsk \in Nat

VARIABLES
  quantity,  \* Consumable.quantity: units in stock
  issue,     \* issue rows; open is "returned_at is null"
  owner,     \* the handler that has locked each consumable and issue row
  tx,        \* the request each handler serves
  held,      \* what a user has in hand: units issued to it less those that
             \* answered requests returned, lost or used
  supply,    \* per consumable, the units there are: stocked less lost
  item,      \* items of return requests
  overtaken  \* consumables with an approval that wrote what it computed from
             \* values that had changed since (history)

returnVars == <<item, overtaken>>
vars == <<quantity, issue, owner, tx, held, supply, returnVars>>

Ask == 1 .. MaxAsk
IssueRow == [consumable: Consumable, user: User, quantity: Nat, open: BOOLEAN]
ItemRow == [issue: Issue \cup {None}, qty: Ask \cup {0},
            status: {"none", "pending", "approved", "denied"}]
Op == {"idle", "issue", "use", "return", "loss", "ask", "approve", "deny"}
Request == [op: Op, at: {"start", "get", "write"},
            consumable: Consumable \cup {None}, user: User \cup {None},
            issue: Issue \cup {None}, qty: Ask \cup {0}, seen: Nat,
            item: Item \cup {None}, stock: Nat]
Idle == [op |-> "idle", at |-> "start", consumable |-> None, user |-> None,
         issue |-> None, qty |-> 0, seen |-> 0, item |-> None, stock |-> 0]

Init ==
  /\ quantity \in [Consumable -> 0 .. MaxStock]
  /\ issue \in [Issue -> [consumable: Consumable, user: User, quantity: {0}, open: {FALSE}]]
  /\ owner = [x \in Consumable \cup Issue |-> None]
  /\ tx = [h \in Handler |-> Idle]
  /\ held = [c \in Consumable |-> [u \in User |-> 0]]
  /\ supply = quantity
  /\ item = [k \in Item |-> [issue |-> None, qty |-> 0, status |-> "none"]]
  /\ overtaken = {}
-----------------------------------------------------------------------------
OpenIssues(c, u) == {i \in Issue : issue[i].open /\ issue[i].consumable = c /\ issue[i].user = u}

\* One pair for each unit that an issue of the consumable says is held.
Units(c) == UNION {{i} \X (1 .. issue[i].quantity) :
                     i \in {k \in Issue : issue[k].consumable = c}}

Free(x, h) == owner[x] \in {None, h}

At(h, op, at) == tx[h].op = op /\ tx[h].at = at

\* A row to insert: one no request, no pending item and no open issue uses.
HasPending(i) == \E k \in Item : item[k].issue = i /\ item[k].status = "pending"
IsSpare(i) == ~issue[i].open /\ ~HasPending(i) /\ \A h \in Handler : tx[h].issue # i

\* Bound: a consumable is not followed once its numbers are wrong.
Followed(c) == c \notin overtaken

Begin(h, op, c, u, i, q) ==
  /\ tx[h].op = "idle" /\ Followed(c)
  /\ tx' = [tx EXCEPT ![h] = [Idle EXCEPT !.op = op, !.consumable = c, !.user = u,
                                         !.issue = i, !.qty = q]]
  /\ UNCHANGED <<quantity, issue, owner, held, supply, returnVars>>

\* Commit, rollback, or the answer of a request that holds no lock.
End(h) ==
  /\ owner' = [x \in Consumable \cup Issue |-> IF owner[x] = h THEN None ELSE owner[x]]
  /\ tx' = [tx EXCEPT ![h] = Idle]

Rollback(h) == End(h) /\ UNCHANGED <<quantity, issue, held, supply, returnVars>>

\* A spender may have fewer units than are recorded; returning or losing more
\* than it has leaves it with none.
Hand(c, u, n) ==
  LET left == held[c][u] + n IN
  held' = [held EXCEPT ![c][u] = IF u \in Spenders /\ left < 0 THEN 0 ELSE left]
-----------------------------------------------------------------------------
(* IssueConsumableView: the consumable is locked, the issue is not.        *)
IssueUnits(h, c, u, q) == Begin(h, "issue", c, u, None, q)

InStock(h) == tx[h].qty <= quantity[tx[h].consumable]

IssueLock(h) ==
  LET c == tx[h].consumable IN
  /\ At(h, "issue", "start") /\ Free(c, h) /\ InStock(h)
  /\ owner' = [owner EXCEPT ![c] = h]
  /\ tx' = [tx EXCEPT ![h].at = "get"]
  /\ UNCHANGED <<quantity, issue, held, supply, returnVars>>

IssueRefused(h) ==
  /\ At(h, "issue", "start") /\ Free(tx[h].consumable, h) /\ ~InStock(h)
  /\ Rollback(h)

\* get_or_create finds the user's open issue, or none.
IssueGet(h) ==
  LET open == OpenIssues(tx[h].consumable, tx[h].user) IN
  /\ At(h, "issue", "get")
  /\ \/ \E i \in open :
          tx' = [tx EXCEPT ![h].at = "write", ![h].issue = i, ![h].seen = issue[i].quantity]
     \/ open = {} /\ tx' = [tx EXCEPT ![h].at = "write"]
  /\ UNCHANGED <<quantity, issue, owner, held, supply, returnVars>>

TakeFromStock(h) ==
  LET t == tx[h] IN
  /\ quantity' = [quantity EXCEPT ![t.consumable] = @ - t.qty]
  /\ Hand(t.consumable, t.user, t.qty)
  /\ End(h) /\ UNCHANGED <<supply, returnVars>>

\* consumable_issue_closed_has_zero_quantity
ClosedIsEmpty(h) == issue[tx[h].issue].open

\* What was read is increased and saved; returned_at is not written.
IssueMore(h) ==
  LET t == tx[h] IN
  /\ At(h, "issue", "write") /\ t.issue # None /\ Free(t.issue, h)
  /\ ClosedIsEmpty(h)
  /\ issue' = [issue EXCEPT ![t.issue].quantity = t.seen + t.qty]
  /\ TakeFromStock(h)

\* The issue was closed since it was read: the save violates the constraint.
IssueViolates(h) ==
  /\ At(h, "issue", "write") /\ tx[h].issue # None /\ Free(tx[h].issue, h)
  /\ ~ClosedIsEmpty(h)
  /\ Rollback(h)

IssueNew(h) ==
  LET t == tx[h] IN
  /\ At(h, "issue", "write") /\ t.issue = None
  /\ \E i \in Issue :
       /\ IsSpare(i)
       /\ issue' = [issue EXCEPT ![i] = [consumable |-> t.consumable, user |-> t.user,
                                         quantity |-> t.qty, open |-> TRUE]]
  /\ TakeFromStock(h)
-----------------------------------------------------------------------------
(* UseConsumableView, AdminReturnConsumableView, ReportConsumableLossView. *)
(* All lock the issue: of its own user, or named in the request.           *)
Use(h, c, u, q) ==
  /\ u \in Spenders /\ q <= held[c][u]
  /\ Begin(h, "use", c, u, None, q)

Return(h, i, q) ==
  issue[i].open /\ Begin(h, "return", issue[i].consumable, issue[i].user, i, q)

ReportLoss(h, i, q) ==
  issue[i].open /\ Begin(h, "loss", issue[i].consumable, issue[i].user, i, q)

ReportOwnLoss(h, c, u, q) == Begin(h, "loss", c, u, None, q)

\* The row the statement locks.
Wanted(h) == IF tx[h].issue # None THEN {tx[h].issue}
             ELSE OpenIssues(tx[h].consumable, tx[h].user)

MayTake(h, i) == issue[i].open /\ tx[h].qty <= issue[i].quantity

\* Mutant: the issue is read, not locked.
BugReadUnlocked(h) ==
  \E i \in Wanted(h) :
    /\ tx[h].op \in {"return", "loss"} /\ tx[h].at = "start" /\ MayTake(h, i)
    /\ tx' = [tx EXCEPT ![h].at = "write", ![h].issue = i, ![h].seen = issue[i].quantity]
    /\ UNCHANGED <<quantity, issue, owner, held, supply, returnVars>>

LockIssue(h) ==
  \E i \in Wanted(h) :
    /\ tx[h].op \in {"return", "loss"} /\ tx[h].at = "start" /\ Free(i, h)
    /\ MayTake(h, i)
    /\ owner' = [owner EXCEPT ![i] = h]
    /\ tx' = [tx EXCEPT ![h].at = "write", ![h].issue = i, ![h].seen = issue[i].quantity]
    /\ UNCHANGED <<quantity, issue, held, supply, returnVars>>

\* No such issue, a closed one, or one with fewer units.
LockRefused(h) ==
  /\ tx[h].op \in {"use", "return", "loss"} /\ tx[h].at = "start"
  /\ \A i \in Wanted(h) : Free(i, h) /\ ~MayTake(h, i)
  /\ Rollback(h)

\* issue.quantity -= qty, and returned_at set when nothing is left.
Reduced(i, left) ==
  issue' = [issue EXCEPT ![i].quantity = left, ![i].open = left # 0]

\* A return locks the consumable too, a loss when it commits.
Close(h) ==
  LET t == tx[h] IN
  /\ t.op \in {"return", "loss"} /\ t.at = "write" /\ Free(t.consumable, h)
  /\ Reduced(t.issue, t.seen - t.qty)
  /\ Hand(t.consumable, t.user, - t.qty)
  /\ IF t.op = "return"
     THEN /\ quantity' = [quantity EXCEPT ![t.consumable] = @ + t.qty]
          /\ UNCHANGED supply
     ELSE /\ supply' = [supply EXCEPT ![t.consumable] = @ - t.qty]
          /\ UNCHANGED quantity
  /\ End(h) /\ UNCHANGED returnVars

\* The atomic block of a use ends, and with it the lock, once the issue is read.
UseRead(h) ==
  /\ At(h, "use", "start")
  /\ \E i \in Wanted(h) :
       /\ Free(i, h) /\ MayTake(h, i)
       /\ tx' = [tx EXCEPT ![h].at = "write", ![h].issue = i, ![h].seen = issue[i].quantity]
  /\ UNCHANGED <<quantity, issue, owner, held, supply, returnVars>>

\* The reduced issue is saved only when nothing is left of what was read, on
\* top of whatever was committed since.
UseWrite(h) ==
  LET t == tx[h] IN
  /\ At(h, "use", "write")
  /\ IF t.qty = t.seen THEN Free(t.issue, h) /\ Reduced(t.issue, 0)
                       ELSE UNCHANGED issue
  /\ Hand(t.consumable, t.user, - t.qty)
  /\ End(h) /\ UNCHANGED <<quantity, supply, returnVars>>
-----------------------------------------------------------------------------
(* Return requests: asked for by the user, approved or denied by an         *)
(* administrator, who loads the item with its issue and consumable in one   *)
(* query, without a lock.                                                   *)

\* Bound: the items to insert, and as many are left as users are asking.
Fresh == {k \in Item : item[k].status # "pending" /\ \A h \in Handler : tx[h].item # k}

AskReturn(h, i, q) ==
  /\ Cardinality(Fresh) > Cardinality({g \in Handler : tx[g].op = "ask"})
  /\ issue[i].open /\ q <= issue[i].quantity /\ ~HasPending(i)
  /\ Begin(h, "ask", issue[i].consumable, issue[i].user, i, q)

\* Nothing but the check above keeps two items from asking for the same units.
InsertItem(h) ==
  /\ At(h, "ask", "start") /\ Free(tx[h].issue, h) /\ Free(tx[h].consumable, h)
  /\ \E k \in Fresh :
       item' = [item EXCEPT ![k] = [issue |-> tx[h].issue, qty |-> tx[h].qty,
                                    status |-> "pending"]]
  /\ End(h) /\ UNCHANGED <<quantity, issue, held, supply, overtaken>>

Decide(h, op, k) ==
  LET i == item[k].issue  c == issue[i].consumable IN
  /\ item[k].status = "pending" /\ tx[h].op = "idle" /\ Followed(c)
  /\ tx' = [tx EXCEPT ![h] =
              [op |-> op, at |-> "write", consumable |-> c, user |-> issue[i].user,
               issue |-> i, qty |-> item[k].qty, seen |-> issue[i].quantity,
               item |-> k, stock |-> quantity[c]]]
  /\ UNCHANGED <<quantity, issue, owner, held, supply, returnVars>>

\* "Return quantity exceeds assignment"
ApproveItem(h, k) ==
  /\ item[k].status = "pending" /\ item[k].qty <= issue[item[k].issue].quantity
  /\ Decide(h, "approve", k)
DenyItem(h, k) == Decide(h, "deny", k)

Overtaken(t) ==
  \/ issue[t.issue].quantity # t.seen \/ quantity[t.consumable] # t.stock
  \/ item[t.item].status # "pending"

\* Both quantities are written as computed from what was loaded; an issue that
\* has nothing left stays open.  The user hands the units over once.
SaveApproved(h) ==
  LET t == tx[h] IN
  /\ At(h, "approve", "write") /\ Free(t.issue, h) /\ Free(t.consumable, h)
  /\ issue[t.issue].open \/ t.seen = t.qty
  /\ issue' = [issue EXCEPT ![t.issue].quantity = t.seen - t.qty]
  /\ quantity' = [quantity EXCEPT ![t.consumable] = t.stock + t.qty]
  /\ item' = [item EXCEPT ![t.item].status = "approved"]
  /\ Hand(t.consumable, t.user, IF item[t.item].status = "pending" THEN - t.qty ELSE 0)
  /\ overtaken' = IF Overtaken(t) THEN overtaken \cup {t.consumable} ELSE overtaken
  /\ End(h) /\ UNCHANGED supply

\* consumable_issue_closed_has_zero_quantity: the issue was closed meanwhile.
ApproveViolates(h) ==
  /\ At(h, "approve", "write") /\ Free(tx[h].issue, h)
  /\ ~issue[tx[h].issue].open /\ tx[h].seen # tx[h].qty
  /\ Rollback(h)

SaveDenied(h) ==
  /\ At(h, "deny", "write")
  /\ item' = [item EXCEPT ![tx[h].item].status = "denied"]
  /\ End(h) /\ UNCHANGED <<quantity, issue, held, supply, overtaken>>
-----------------------------------------------------------------------------
(* RestockConsumableView, the endpoint that locks the consumable only.      *)
Restock(c, q) ==
  /\ owner[c] = None /\ Followed(c) /\ supply[c] + q <= MaxStock
  /\ quantity' = [quantity EXCEPT ![c] = @ + q]
  /\ supply' = [supply EXCEPT ![c] = @ + q]
  /\ UNCHANGED <<issue, owner, tx, held, returnVars>>

\* What the next statement of a request needs.
Needs(h) == CASE At(h, "issue", "start") -> {tx[h].consumable}
              [] At(h, "issue", "write") -> {tx[h].issue} \ {None}
              [] At(h, "ask", "start") \/ At(h, "approve", "write") -> {tx[h].issue, tx[h].consumable}
              [] tx[h].at = "start" -> Wanted(h)
              [] tx[h].op \in {"return", "loss"} -> {tx[h].consumable}
              [] OTHER -> {}

WaitsFor(h, g) == g # h /\ \E x \in Needs(h) : owner[x] = g

\* PostgreSQL finds a circle of waiting transactions and aborts one of them.
DeadlockAbort(h) ==
  /\ \E g \in Handler : WaitsFor(h, g) /\ WaitsFor(g, h)
  /\ Rollback(h)

Proceed(h) ==
  \/ IssueLock(h) \/ IssueRefused(h) \/ IssueGet(h)
  \/ IssueMore(h) \/ IssueViolates(h) \/ IssueNew(h)
  \/ LockIssue(h) \/ LockRefused(h) \/ Close(h)
  \/ UseRead(h) \/ UseWrite(h)
  \/ InsertItem(h) \/ SaveApproved(h) \/ ApproveViolates(h) \/ SaveDenied(h)
  \/ DeadlockAbort(h)

Next ==
  \/ \E h \in Handler : Proceed(h)
  \/ \E h \in Handler, q \in Ask :
       \/ \E c \in Consumable, u \in User :
            IssueUnits(h, c, u, q) \/ Use(h, c, u, q) \/ ReportOwnLoss(h, c, u, q)
       \/ \E i \in Issue : Return(h, i, q) \/ ReportLoss(h, i, q) \/ AskReturn(h, i, q)
  \/ \E h \in Handler, k \in Item : ApproveItem(h, k) \/ DenyItem(h, k)
  \/ \E c \in Consumable, q \in Ask : Restock(c, q)

Spec == Init /\ [][Next]_vars
-----------------------------------------------------------------------------
\* Type correctness: neither the stock nor an issue is ever negative, which the
\* columns would refuse only with a database error.
TypeOK ==
  /\ quantity \in [Consumable -> Nat]
  /\ issue \in [Issue -> IssueRow]
  /\ owner \in [Consumable \cup Issue -> Handler \cup {None}]
  /\ tx \in [Handler -> Request]
  /\ held \in [Consumable -> [User -> Int]]
  /\ supply \in [Consumable -> Int]
  /\ item \in [Item -> ItemRow]
  /\ overtaken \subseteq Consumable

\* Stock and issues together never account for more units than were stocked and
\* not lost: no race of issues, returns, losses, uses and return requests counts
\* a unit twice, but where an approval was overtaken by what it had not locked.
NoUnitsInvented ==
  \A c \in Consumable \ overtaken : quantity[c] + Cardinality(Units(c)) <= supply[c]

\* The issue says what the user has in hand.
Tracked(c, u) ==
  IF OpenIssues(c, u) = {} THEN held[c][u] = 0
  ELSE \A i \in OpenIssues(c, u) : issue[i].quantity = held[c][u]

\* "Remaining quantity currently held by the user", for users who only get,
\* return and lose consumables: none of these is lost to another at the same
\* time, again but for overtaken approvals.
HoldingsTracked == \A u \in User \ Spenders, c \in Consumable \ overtaken : Tracked(c, u)
=============================================================================
