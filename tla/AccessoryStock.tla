--------------------------- MODULE AccessoryStock ---------------------------
(***************************************************************************)
(* Accessories: the units owned of each, and the assignment rows that say  *)
(* how many of them a user holds.  The endpoints of accessory_assignnment  *)
(* run in PostgreSQL transactions (READ COMMITTED) under row locks, which  *)
(* they do not take in one order.  An endpoint that locks the accessory and *)
(* reads nothing before it is one step here; the others are transactions   *)
(* of several steps, and anything may run in between.  A write is seen when *)
(* its transaction commits, so it belongs to the last step.  A commit with *)
(* a new AccessoryEvent has to lock the accessory the event refers to (the *)
(* foreign key's deferred check), whether or not the view did.             *)
(***************************************************************************)
EXTENDS Integers, FiniteSets

CONSTANTS
  Accessory, User,
  Row,         \* AccessoryAssignment rows
  Handler,     \* requests that may be served at the same time
  None,
  Endpoints,   \* the endpoints in use
  MaxStock,    \* bound on the units owned of an accessory
  MaxAsk       \* bound on the quantity of a request

AllEndpoints == {"assign", "return", "self", "use", "condemn", "restock", "edit"}

ASSUME StockAssumption ==
  /\ IsFiniteSet(Row) /\ Accessory \cap Row = {}
  /\ None \notin Row \cup Handler
  /\ Endpoints \subseteq AllEndpoints
  /\ MaxStock \in Nat /\ MaxAsk \in Nat

VARIABLES
  quantity,  \* Accessory.quantity: units owned, assigned or not
  row,       \* assignment rows; open is "returned_at is null"
  owner,     \* the handler that has locked each accessory and assignment row
  tx,        \* the transaction each handler is in
  ledger     \* per accessory and user, from the AccessoryEvent rows: units
             \* assigned less units returned and used

vars == <<quantity, row, owner, tx, ledger>>

Ask == 1 .. MaxAsk
Assignment == [accessory: Accessory, user: User, quantity: Nat, open: BOOLEAN]
Transaction == [at: {"idle", "accessory", "get", "write", "own", "row", "close"},
                accessory: Accessory \cup {None}, user: User \cup {None},
                row: Row \cup {None}, qty: Ask \cup {0}, seen: Nat]
Idle == [at |-> "idle", accessory |-> None, user |-> None,
         row |-> None, qty |-> 0, seen |-> 0]

Init ==
  /\ quantity \in [Accessory -> 0 .. MaxStock]
  /\ row \in [Row -> [accessory: Accessory, user: User, quantity: {0}, open: {FALSE}]]
  /\ owner = [x \in Accessory \cup Row |-> None]
  /\ tx = [h \in Handler |-> Idle]
  /\ ledger = [a \in Accessory |-> [u \in User |-> 0]]
-----------------------------------------------------------------------------
OpenRows(a, u) == {r \in Row : row[r].open /\ row[r].accessory = a /\ row[r].user = u}

\* assigned_quantity is the size of this set: one pair for each unit that an
\* open assignment holds.
Units(a) == UNION {{r} \X (1 .. row[r].quantity) :
                     r \in {s \in Row : row[s].open /\ row[s].accessory = a}}

\* quantity <= available_quantity
IsAvailable(a, q) == Cardinality(Units(a)) + q <= quantity[a]

Free(x, h) == owner[x] \in {None, h}

\* A row to insert: one no transaction and no open assignment uses.
IsSpare(r) == ~row[r].open /\ \A h \in Handler : tx[h].row # r

Begin(h, at, a, u, r, q) ==
  /\ tx[h].at = "idle"
  /\ tx' = [tx EXCEPT ![h] = [at |-> at, accessory |-> a, user |-> u,
                              row |-> r, qty |-> q, seen |-> 0]]
  /\ UNCHANGED <<quantity, row, owner, ledger>>

\* Mutant: the locks outlive the transaction.
BugLocksKept(h) == tx' = [tx EXCEPT ![h] = Idle] /\ UNCHANGED owner

\* Commit or rollback: the locks are released and the request is answered.
End(h) ==
  /\ owner' = [x \in Accessory \cup Row |-> IF owner[x] = h THEN None ELSE owner[x]]
  /\ tx' = [tx EXCEPT ![h] = Idle]

Rollback(h) == End(h) /\ UNCHANGED <<quantity, row, ledger>>

\* assignment.quantity -= qty, and returned_at set when nothing is left.
Reduced(r, q) == [r EXCEPT !.quantity = @ - q, !.open = r.quantity # q]
-----------------------------------------------------------------------------
(* AssignAccessoryView: the accessory is locked, the assignment is not.    *)
Assign(h, a, u, q) ==
  "assign" \in Endpoints /\ Begin(h, "accessory", a, u, None, q)

\* Mutant: availability is checked without a lock on the accessory.
BugAssignUnlocked(h) ==
  /\ tx[h].at = "accessory" /\ IsAvailable(tx[h].accessory, tx[h].qty)
  /\ tx' = [tx EXCEPT ![h].at = "get"]
  /\ UNCHANGED <<quantity, row, owner, ledger>>

AssignLock(h) ==
  LET t == tx[h] IN
  /\ t.at = "accessory" /\ Free(t.accessory, h)
  /\ IsAvailable(t.accessory, t.qty)
  /\ owner' = [owner EXCEPT ![t.accessory] = h]
  /\ tx' = [tx EXCEPT ![h].at = "get"]
  /\ UNCHANGED <<quantity, row, ledger>>

AssignRefused(h) ==
  /\ tx[h].at = "accessory" /\ Free(tx[h].accessory, h)
  /\ ~IsAvailable(tx[h].accessory, tx[h].qty)
  /\ Rollback(h)

\* get_or_create finds the user's open assignment, or none.
AssignGet(h) ==
  LET t == tx[h] IN
  /\ t.at = "get"
  /\ \/ \E r \in OpenRows(t.accessory, t.user) :
          tx' = [tx EXCEPT ![h] = [t EXCEPT !.at = "write", !.row = r,
                                            !.seen = row[r].quantity]]
     \/ /\ OpenRows(t.accessory, t.user) = {}
        /\ tx' = [tx EXCEPT ![h].at = "write"]
  /\ UNCHANGED <<quantity, row, owner, ledger>>

Record(a, u, n) == ledger' = [ledger EXCEPT ![a][u] = n]

\* What was read is increased and only the quantity saved.
AssignMore(h) ==
  LET t == tx[h] IN
  /\ t.at = "write" /\ t.row # None /\ Free(t.row, h)
  /\ row' = [row EXCEPT ![t.row].quantity = t.seen + t.qty]
  /\ Record(t.accessory, t.user, ledger[t.accessory][t.user] + t.qty)
  /\ End(h) /\ UNCHANGED quantity

AssignNew(h) ==
  LET t == tx[h] IN
  /\ t.at = "write" /\ t.row = None
  /\ \E r \in Row :
       /\ IsSpare(r)
       /\ row' = [row EXCEPT ![r] = [accessory |-> t.accessory, user |-> t.user,
                                     quantity |-> t.qty, open |-> TRUE]]
  /\ Record(t.accessory, t.user, ledger[t.accessory][t.user] + t.qty)
  /\ End(h) /\ UNCHANGED quantity
-----------------------------------------------------------------------------
(* AdminReturnAccessoryView, SelfReturnAccessoryView, UseAccessoryView: the *)
(* assignment is locked first, then the accessory, which is the other way   *)
(* round.  UseAccessoryView does not ask for the accessory, but its commit  *)
(* needs it.                                                                *)
AdminReturn(h, r, q) ==
  "return" \in Endpoints /\ row[r].open
  /\ Begin(h, "row", row[r].accessory, row[r].user, r, q)

SelfReturn(h, a, u, q) == "self" \in Endpoints /\ Begin(h, "own", a, u, None, q)

\* The units used stay owned, and available to others.
Use(h, a, u, q) == "use" \in Endpoints /\ Begin(h, "own", a, u, None, q)

ReturnLock(h) ==
  LET t == tx[h] IN
  /\ \/ t.at = "row" /\ Free(t.row, h)
        /\ owner' = [owner EXCEPT ![t.row] = h]
        /\ tx' = [tx EXCEPT ![h].at = "close"]
     \/ \E r \in OpenRows(t.accessory, t.user) :
          /\ t.at = "own" /\ Free(r, h) /\ t.qty <= row[r].quantity
          /\ owner' = [owner EXCEPT ![r] = h]
          /\ tx' = [tx EXCEPT ![h] = [t EXCEPT !.at = "close", !.row = r]]
  /\ UNCHANGED <<quantity, row, ledger>>

OwnRefused(h) ==
  /\ tx[h].at = "own"
  /\ \A r \in OpenRows(tx[h].accessory, tx[h].user) :
       Free(r, h) /\ tx[h].qty > row[r].quantity
  /\ Rollback(h)

MayClose(h) == row[tx[h].row].open /\ tx[h].qty <= row[tx[h].row].quantity

Return(h) ==
  LET t == tx[h] IN
  /\ t.at = "close" /\ Free(t.accessory, h) /\ MayClose(h)
  /\ row' = [row EXCEPT ![t.row] = Reduced(@, t.qty)]
  /\ Record(t.accessory, t.user, ledger[t.accessory][t.user] - t.qty)
  /\ End(h) /\ UNCHANGED quantity

ReturnRefused(h) ==
  /\ tx[h].at = "close" /\ Free(tx[h].accessory, h) /\ ~MayClose(h)
  /\ Rollback(h)
-----------------------------------------------------------------------------
(* The endpoints that lock the accessory only.                              *)
SetQuantity(a, n) ==
  /\ owner[a] = None
  /\ quantity' = [quantity EXCEPT ![a] = n]
  /\ UNCHANGED <<row, owner, tx, ledger>>

Condemn(a, q) ==
  "condemn" \in Endpoints /\ IsAvailable(a, q) /\ SetQuantity(a, quantity[a] - q)

Restock(a, q) ==
  "restock" \in Endpoints /\ quantity[a] + q <= MaxStock /\ SetQuantity(a, quantity[a] + q)

\* PUT and PATCH save whatever quantity the request or an earlier read had.
Edit(a, n) == "edit" \in Endpoints /\ SetQuantity(a, n)
-----------------------------------------------------------------------------
\* What the next statement of a transaction needs.
Needs(h) == CASE tx[h].at \in {"accessory", "close"} -> {tx[h].accessory}
              [] tx[h].at = "own" -> OpenRows(tx[h].accessory, tx[h].user)
              [] tx[h].at \in {"row", "write"} -> {tx[h].row} \ {None}
              [] OTHER -> {}

WaitsFor(h, g) == g # h /\ \E x \in Needs(h) : owner[x] = g

\* PostgreSQL finds a circle of waiting transactions and aborts one of them.
DeadlockAbort(h) ==
  /\ \E g \in Handler : WaitsFor(h, g) /\ WaitsFor(g, h)
  /\ Rollback(h)

Proceed(h) ==
  \/ AssignLock(h) \/ AssignRefused(h) \/ AssignGet(h) \/ AssignMore(h) \/ AssignNew(h)
  \/ ReturnLock(h) \/ OwnRefused(h) \/ Return(h) \/ ReturnRefused(h)
  \/ DeadlockAbort(h)

Next ==
  \/ \E h \in Handler : Proceed(h)
  \/ \E h \in Handler, q \in Ask :
       \/ \E a \in Accessory, u \in User :
            Assign(h, a, u, q) \/ SelfReturn(h, a, u, q) \/ Use(h, a, u, q)
       \/ \E r \in Row : AdminReturn(h, r, q)
  \/ \E q \in Ask, a \in Accessory : Condemn(a, q) \/ Restock(a, q)
  \/ \E a \in Accessory, n \in 0 .. MaxStock : Edit(a, n)

Spec == Init /\ [][Next]_vars
-----------------------------------------------------------------------------
\* Type correctness: no quantity is ever negative, which PositiveIntegerField
\* would refuse only with a database error.
TypeOK ==
  /\ quantity \in [Accessory -> Nat]
  /\ row \in [Row -> Assignment]
  /\ owner \in [Accessory \cup Row -> Handler \cup {None}]
  /\ tx \in [Handler -> Transaction]
  /\ ledger \in [Accessory -> [User -> Int]]

\* Nobody is promised a unit that is not there: the open assignments of an
\* accessory never hold more units than are owned, though assigning checks this
\* some statements before it writes.
NoOverAssignment == \A a \in Accessory : IsAvailable(a, 0)

\* Edits may save a quantity below what is assigned.  Nothing else over-assigns:
\* a grant that was checked before an edit is not written after it.
OnlyEditsOverAssign ==
  [][\A a \in Accessory :
       IsAvailable(a, 0) /\ ~IsAvailable(a, 0)' =>
         "edit" \in Endpoints /\ quantity'[a] < quantity[a] /\ UNCHANGED <<row, tx>>]_vars

\* "Enforce one active assignment per accessory/user": no two requests create
\* one each, and no return leaves one that a second is created beside.
OneOpenAssignment ==
  \A r, s \in Row :
    row[r].open /\ row[s].open /\ row[r].accessory = row[s].accessory
      /\ row[r].user = row[s].user => r = s

\* What a user holds is what the events say: no assignment and no return is
\* lost to one that runs at the same time, and a closed assignment holds nothing.
HoldingsMatchEvents ==
  /\ \A r \in Row : IF row[r].open THEN row[r].quantity = ledger[row[r].accessory][row[r].user]
                                   ELSE row[r].quantity = 0
  /\ \A a \in Accessory, u \in User : OpenRows(a, u) = {} => ledger[a][u] = 0

\* PostgreSQL queues the transactions that wait for a lock, so one that can get
\* it again and again gets it.
Fairness == \A h \in Handler : SF_vars(Proceed(h))

\* Every request is answered: the two lock orders make transactions wait for
\* each other, and the database's abort lets them go on.
RequestsAnswered == \A h \in Handler : tx[h].at # "idle" ~> tx[h].at = "idle"

FairSpec == Spec /\ Fairness
=============================================================================
