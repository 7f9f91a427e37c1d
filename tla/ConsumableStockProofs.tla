------------------------ MODULE ConsumableStockProofs ------------------------
(***************************************************************************)
(* Proofs about ConsumableStock, for every number of consumables, users,   *)
(* issues, return requests, concurrent handlers and units: types, no unit  *)
(* invented, and holdings that stay tracked.                               *)
(***************************************************************************)
EXTENDS ConsumableStock, FiniteSetTheorems, TLAPS

-----------------------------------------------------------------------------
(* The inductive invariant.                                                *)

\* What the request of a handler knows: its consumable, its user and its
\* quantity, the issue row it has chosen, which stays theirs, and that the
\* quantity is there in what was read.
Knows(t) ==
  /\ t.op # "idle" => t.consumable \in Consumable /\ t.user \in User /\ t.qty \in Ask
  /\ t.issue # None => issue[t.issue].consumable = t.consumable /\ issue[t.issue].user = t.user
  /\ t.op = "use" => t.user \in Spenders
  /\ t.op = "issue" /\ t.at \in {"start", "get"} => t.issue = None
  /\ t.op = "ask" => t.issue # None
  /\ t.op \in {"use", "return", "loss", "approve"} /\ t.at = "write" => t.issue # None /\ t.qty <= t.seen
  /\ t.op \in {"approve", "deny"} => t.item \in Item /\ t.issue # None

\* The issuing request holds its consumable from the stock check on, and the
\* stock stays enough; a return or a loss holds its issue.
Holds(h) ==
  LET t == tx[h] IN
  /\ t.op = "issue" /\ t.at \in {"get", "write"} =>
       owner[t.consumable] = h /\ t.qty <= quantity[t.consumable]
  /\ t.op \in {"return", "loss"} /\ t.at = "write" => owner[t.issue] = h

\* What was read under those locks is still so: there is no open issue where
\* none was found; the one found has kept its quantity or was closed by a use;
\* the one being returned has kept its quantity.
ReadStands(h) ==
  LET t == tx[h] IN
  /\ t.op = "issue" /\ t.at = "write" /\ t.issue = None => OpenIssues(t.consumable, t.user) = {}
  /\ t.op = "issue" /\ t.at = "write" /\ t.issue # None /\ issue[t.issue].open =>
       issue[t.issue].quantity = t.seen
  /\ t.op \in {"return", "loss"} /\ t.at = "write" =>
       issue[t.issue].open /\ issue[t.issue].quantity = t.seen

\* A closed issue is empty, and a user has one open issue of a consumable.
IssuesOK ==
  /\ \A i \in Issue : ~issue[i].open => issue[i].quantity = 0
  /\ \A i, j \in Issue :
       issue[i].open /\ issue[j].open /\ issue[i].consumable = issue[j].consumable
         /\ issue[i].user = issue[j].user => i = j

ItemsOK == \A k \in Item : item[k].status = "pending" => item[k].issue # None /\ item[k].qty \in Ask

StockInv ==
  /\ TypeOK /\ IssuesOK /\ ItemsOK
  /\ \A h \in Handler : Knows(tx[h]) /\ Holds(h) /\ ReadStands(h)

LEMMA StockInvInit == Init => StockInv
<1> SUFFICES ASSUME Init PROVE StockInv
  OBVIOUS
<1> USE ConsumableAssumption
<1>1. Idle \in Request
  BY DEF Idle, Request, Op
<1>2. issue \in [Issue -> IssueRow]
  <2> DEFINE Closed0 == [consumable: Consumable, user: User, quantity: {0}, open: {FALSE}]
  <2>1. ASSUME NEW x \in Closed0 PROVE x \in IssueRow
    <3>1. x = [consumable |-> x.consumable, user |-> x.user, quantity |-> x.quantity, open |-> x.open]
      OBVIOUS
    <3>2. x.consumable \in Consumable /\ x.user \in User /\ x.quantity \in Nat
      OBVIOUS
    <3>3. x.open \in {FALSE}
      OBVIOUS
    <3>4. x.open \in BOOLEAN
      BY <3>3, Zenon
    <3>5. \A c \in Consumable, u \in User, n \in Nat, b \in BOOLEAN :
            [consumable |-> c, user |-> u, quantity |-> n, open |-> b] \in IssueRow
      BY DEF IssueRow
    <3>6. [consumable |-> x.consumable, user |-> x.user, quantity |-> x.quantity, open |-> x.open]
            \in IssueRow
      BY <3>2, <3>4, <3>5, Zenon
    <3> HIDE DEF Closed0
    <3> QED BY <3>1, <3>6, Zenon
  <2>2. issue \in [Issue -> Closed0]
    BY DEF Init
  <2> HIDE DEF Closed0
  <2> QED BY <2>1, <2>2
<1>3. quantity \in [Consumable -> Nat] /\ supply \in [Consumable -> Int]
  BY DEF Init
<1>4. item \in [Item -> ItemRow]
  BY DEF Init, ItemRow
<1>5. TypeOK
  BY <1>1, <1>2, <1>3, <1>4 DEF Init, TypeOK
<1>6. IssuesOK /\ ItemsOK
  BY DEF Init, IssuesOK, ItemsOK
<1>7. \A h \in Handler : Knows(tx[h]) /\ Holds(h) /\ ReadStands(h)
  BY DEF Init, Knows, Holds, ReadStands, Idle
<1> QED BY <1>5, <1>6, <1>7 DEF StockInv
-----------------------------------------------------------------------------
(* The steps, by what they write.                                          *)

\* How a request other than a decision starts.
Startable(op, c, u, i, q) ==
  /\ op \in {"issue", "use", "return", "loss", "ask"}
  /\ c \in Consumable /\ u \in User /\ i \in Issue \cup {None} /\ q \in Ask
  /\ i # None => issue[i].consumable = c /\ issue[i].user = u
  /\ op = "use" => u \in Spenders
  /\ op = "issue" => i = None
  /\ op = "ask" => i # None

LEMMA StepKinds ==
  ASSUME TypeOK, ItemsOK, [Next]_vars
  PROVE  \/ UNCHANGED vars
         \/ \E h \in Handler : Rollback(h)
         \/ \E h \in Handler : \E op, c, u, i, q : Startable(op, c, u, i, q) /\ Begin(h, op, c, u, i, q)
         \/ \E h \in Handler, op \in {"approve", "deny"}, k \in Item :
              Decide(h, op, k) /\ (op = "approve" => item[k].qty <= issue[item[k].issue].quantity)
         \/ \E h \in Handler : IssueLock(h) \/ IssueGet(h) \/ LockIssue(h) \/ UseRead(h)
         \/ \E h \in Handler : IssueMore(h) \/ IssueNew(h) \/ Close(h) \/ UseWrite(h)
         \/ \E h \in Handler : InsertItem(h) \/ SaveApproved(h) \/ SaveDenied(h)
         \/ \E c \in Consumable, q \in Ask : Restock(c, q)
<1> USE ConsumableAssumption
<1>1. CASE \E h \in Handler : Proceed(h)
  BY <1>1 DEF Proceed, IssueRefused, IssueViolates, LockRefused, ApproveViolates, DeadlockAbort
<1>2. CASE \E h \in Handler, q \in Ask, c \in Consumable, u \in User :
             IssueUnits(h, c, u, q) \/ Use(h, c, u, q) \/ ReportOwnLoss(h, c, u, q)
  BY <1>2 DEF IssueUnits, Use, ReportOwnLoss, Startable
<1>3. CASE \E h \in Handler, q \in Ask, i \in Issue :
             Return(h, i, q) \/ ReportLoss(h, i, q) \/ AskReturn(h, i, q)
  <2>1. \A i \in Issue : issue[i].consumable \in Consumable /\ issue[i].user \in User
    BY DEF TypeOK, IssueRow
  <2> QED BY <1>3, <2>1 DEF Return, ReportLoss, AskReturn, Startable
<1>4. CASE \E h \in Handler, k \in Item : ApproveItem(h, k) \/ DenyItem(h, k)
  BY <1>4 DEF ApproveItem, DenyItem
<1>5. CASE \E c \in Consumable, q \in Ask : Restock(c, q)
  BY <1>5
<1> QED BY <1>1, <1>2, <1>3, <1>4, <1>5 DEF Next

\* A transaction that moves on, and one that also keeps the issue it has read.
LEMMA Moves ==
  ASSUME TypeOK, NEW h \in Handler, NEW at \in {"get", "write"}, tx' = [tx EXCEPT ![h].at = at]
  PROVE  /\ tx' \in [Handler -> Request] /\ \A g \in Handler : g # h => tx'[g] = tx[g]
         /\ tx'[h].op = tx[h].op /\ tx'[h].at = at /\ tx'[h].consumable = tx[h].consumable
         /\ tx'[h].user = tx[h].user /\ tx'[h].issue = tx[h].issue /\ tx'[h].qty = tx[h].qty
         /\ tx'[h].item = tx[h].item
<1> DEFINE t == [tx[h] EXCEPT !.at = at]
<1>1. tx[h] \in Request
  BY DEF TypeOK
<1>2. /\ t \in Request /\ t.op = tx[h].op /\ t.at = at /\ t.consumable = tx[h].consumable
      /\ t.user = tx[h].user /\ t.issue = tx[h].issue /\ t.qty = tx[h].qty /\ t.item = tx[h].item
  BY <1>1 DEF Request
<1>3. tx' = [tx EXCEPT ![h] = t]
  OBVIOUS
<1> HIDE DEF t
<1>4. tx'[h] = t
  BY <1>3 DEF TypeOK
<1> QED BY <1>2, <1>3, <1>4 DEF TypeOK

Notes(h, i, n) == tx' = [tx EXCEPT ![h].at = "write", ![h].issue = i, ![h].seen = n]

LEMMA MovesWith ==
  ASSUME TypeOK, NEW h \in Handler, NEW i \in Issue, NEW n \in Nat, Notes(h, i, n)
  PROVE  /\ tx' \in [Handler -> Request] /\ \A g \in Handler : g # h => tx'[g] = tx[g]
         /\ tx'[h].op = tx[h].op /\ tx'[h].at = "write" /\ tx'[h].consumable = tx[h].consumable
         /\ tx'[h].user = tx[h].user /\ tx'[h].issue = i /\ tx'[h].qty = tx[h].qty
         /\ tx'[h].seen = n /\ tx'[h].item = tx[h].item
<1> DEFINE t == [tx[h] EXCEPT !.at = "write", !.issue = i, !.seen = n]
<1>1. tx[h] \in Request
  BY DEF TypeOK
<1>2. /\ t \in Request /\ t.op = tx[h].op /\ t.at = "write" /\ t.consumable = tx[h].consumable
      /\ t.user = tx[h].user /\ t.issue = i /\ t.qty = tx[h].qty /\ t.seen = n /\ t.item = tx[h].item
  BY <1>1 DEF Request
<1>3. tx' = [tx EXCEPT ![h] = t]
  BY DEF Notes
<1> HIDE DEF t
<1>4. tx'[h] = t
  BY <1>3 DEF TypeOK
<1> QED BY <1>2, <1>3, <1>4 DEF TypeOK

\* What a request that ends leaves.
LEMMA Ends ==
  ASSUME TypeOK, NEW h \in Handler, End(h)
  PROVE  /\ tx' \in [Handler -> Request] /\ owner' \in [Consumable \cup Issue -> Handler \cup {None}]
         /\ \A g \in Handler : g # h => tx'[g] = tx[g]
         /\ \A g \in Handler, x \in Consumable \cup Issue : g # h /\ owner[x] = g => owner'[x] = g
         /\ tx'[h] = Idle
         /\ (Knows(tx[h]) /\ Holds(h) /\ ReadStands(h))'
<1>1. Idle \in Request
  BY DEF Idle, Request, Op
<1>2. tx' \in [Handler -> Request] /\ tx'[h] = Idle /\ \A g \in Handler : g # h => tx'[g] = tx[g]
  BY <1>1 DEF End, TypeOK
<1>3. /\ owner' \in [Consumable \cup Issue -> Handler \cup {None}]
      /\ \A g \in Handler, x \in Consumable \cup Issue : g # h /\ owner[x] = g => owner'[x] = g
  BY DEF End, TypeOK
<1>4. (Knows(tx[h]) /\ Holds(h) /\ ReadStands(h))'
  BY <1>2 DEF Idle, Knows, Holds, ReadStands
<1> QED BY <1>2, <1>3, <1>4

\* An issue whose quantity is written, and one that is closed when it is empty.
QuantitySet(i, n) == issue' = [issue EXCEPT ![i].quantity = n]

LEMMA RowWrites ==
  ASSUME TypeOK, NEW i \in Issue, NEW n \in Nat
  PROVE  /\ QuantitySet(i, n) =>
              /\ issue' \in [Issue -> IssueRow] /\ \A j \in Issue : j # i => issue'[j] = issue[j]
              /\ issue'[i].quantity = n /\ issue'[i].open = issue[i].open
              /\ issue'[i].consumable = issue[i].consumable /\ issue'[i].user = issue[i].user
         /\ Reduced(i, n) =>
              /\ issue' \in [Issue -> IssueRow] /\ \A j \in Issue : j # i => issue'[j] = issue[j]
              /\ issue'[i].quantity = n /\ (issue'[i].open <=> n # 0)
              /\ issue'[i].consumable = issue[i].consumable /\ issue'[i].user = issue[i].user
<1>1. issue[i] \in IssueRow
  BY DEF TypeOK
<1>2. ASSUME NEW row \in IssueRow, issue' = [issue EXCEPT ![i] = row]
      PROVE  /\ issue' \in [Issue -> IssueRow] /\ issue'[i] = row
             /\ \A j \in Issue : j # i => issue'[j] = issue[j]
  BY <1>2 DEF TypeOK
<1>3. ASSUME QuantitySet(i, n)
      PROVE  /\ issue' \in [Issue -> IssueRow] /\ \A j \in Issue : j # i => issue'[j] = issue[j]
             /\ issue'[i].quantity = n /\ issue'[i].open = issue[i].open
             /\ issue'[i].consumable = issue[i].consumable /\ issue'[i].user = issue[i].user
  <2> DEFINE row == [issue[i] EXCEPT !.quantity = n]
  <2>1. /\ row \in IssueRow /\ row.quantity = n /\ row.open = issue[i].open
        /\ row.consumable = issue[i].consumable /\ row.user = issue[i].user
    BY <1>1 DEF IssueRow
  <2>2. issue' = [issue EXCEPT ![i] = row]
    BY <1>3 DEF QuantitySet
  <2> HIDE DEF row
  <2> QED BY <1>2, <2>1, <2>2
<1>4. ASSUME Reduced(i, n)
      PROVE  /\ issue' \in [Issue -> IssueRow] /\ \A j \in Issue : j # i => issue'[j] = issue[j]
             /\ issue'[i].quantity = n /\ (issue'[i].open <=> n # 0)
             /\ issue'[i].consumable = issue[i].consumable /\ issue'[i].user = issue[i].user
  <2> DEFINE b == n # 0
             row == [issue[i] EXCEPT !.quantity = n, !.open = b]
  <2>1. b \in BOOLEAN
    OBVIOUS
  <2>2. issue' = [issue EXCEPT ![i] = row]
    BY <1>4 DEF Reduced
  <2> HIDE DEF b
  <2>3. /\ row \in IssueRow /\ row.quantity = n /\ row.open = b
        /\ row.consumable = issue[i].consumable /\ row.user = issue[i].user
    BY <1>1, <2>1 DEF IssueRow
  <2> HIDE DEF row
  <2>4. /\ issue' \in [Issue -> IssueRow] /\ issue'[i] = row
        /\ \A j \in Issue : j # i => issue'[j] = issue[j]
    BY <1>2, <2>2, <2>3
  <2>5. issue'[i].open <=> n # 0
    BY <2>3, <2>4 DEF b
  <2> QED BY <2>3, <2>4, <2>5
<1> QED BY <1>3, <1>4
-----------------------------------------------------------------------------
(* What a step leaves to the other transactions.                           *)

\* A step of h respects the others: their transactions and locks, the stock of
\* a consumable another holds and the open issues of it, which it may close but
\* neither open nor change, the issue another works on under lock, and whose row an issue is
\* that another has chosen.
Polite(h) ==
  \A g \in Handler : g # h =>
    /\ tx'[g] = tx[g]
    /\ \A x \in Consumable \cup Issue : owner[x] = g => owner'[x] = g
    /\ \A c \in Consumable : owner[c] = g =>
         /\ quantity'[c] = quantity[c]
         /\ \A i \in Issue : issue'[i].consumable = c /\ issue'[i].open => issue'[i] = issue[i]
    /\ \A i \in Issue : tx[g].issue = i /\ owner[i] = g => issue'[i] = issue[i]
    /\ \A i \in Issue : tx[g].issue = i =>
         issue'[i].consumable = issue[i].consumable /\ issue'[i].user = issue[i].user

LEMMA OthersStand ==
  ASSUME StockInv, NEW h \in Handler, NEW g \in Handler, g # h, Polite(h)
  PROVE  (Knows(tx[g]) /\ Holds(g) /\ ReadStands(g))'
<1> USE ConsumableAssumption
<1>0. TypeOK /\ Knows(tx[g]) /\ Holds(g) /\ ReadStands(g)
  BY DEF StockInv
<1> PICK t : t = tx[g]
  OBVIOUS
<1>1. /\ tx'[g] = t
      /\ \A x \in Consumable \cup Issue : owner[x] = g => owner'[x] = g
      /\ \A c \in Consumable : owner[c] = g =>
           /\ quantity'[c] = quantity[c]
           /\ \A i \in Issue : issue'[i].consumable = c /\ issue'[i].open => issue'[i] = issue[i]
      /\ \A i \in Issue : t.issue = i /\ owner[i] = g => issue'[i] = issue[i]
      /\ \A i \in Issue : t.issue = i =>
           issue'[i].consumable = issue[i].consumable /\ issue'[i].user = issue[i].user
  BY DEF Polite
<1>2. t.issue \in Issue \cup {None} /\ t.consumable \in Consumable \cup {None} /\ None \notin Issue
  BY <1>0 DEF TypeOK, Request
<1>3. Knows(tx[g])'
  BY <1>0, <1>1, <1>2 DEF Knows
<1>4. t.op = "issue" => t.consumable \in Consumable
  BY <1>0 DEF Knows
<1>5. t.op \in {"return", "loss"} /\ t.at = "write" => t.issue \in Issue
  BY <1>0, <1>2 DEF Knows
<1>6. Holds(g)'
  BY <1>0, <1>1, <1>4, <1>5 DEF Holds
<1>7. t.op = "issue" /\ t.at = "write" => owner[t.consumable] = g
  BY <1>0 DEF Holds
<1>8. t.op = "issue" /\ t.at = "write" /\ t.issue = None => OpenIssues(t.consumable, t.user)' = {}
  <2>1. t.op = "issue" /\ t.at = "write" /\ t.issue = None => OpenIssues(t.consumable, t.user) = {}
    BY <1>0 DEF ReadStands
  <2> QED BY <1>1, <1>4, <1>7, <2>1 DEF OpenIssues
<1>9. t.op = "issue" /\ t.at = "write" /\ t.issue # None /\ issue'[t.issue].open =>
        issue'[t.issue].quantity = t.seen
  <2>1. t.op = "issue" /\ t.at = "write" /\ t.issue # None => issue[t.issue].consumable = t.consumable
    BY <1>0 DEF Knows
  <2> QED BY <1>0, <1>1, <1>2, <1>4, <1>7, <2>1 DEF ReadStands
<1>10. t.op \in {"return", "loss"} /\ t.at = "write" =>
         issue'[t.issue].open /\ issue'[t.issue].quantity = t.seen
  BY <1>0, <1>1, <1>5 DEF ReadStands, Holds
<1>11. ReadStands(g)'
  BY <1>1, <1>8, <1>9, <1>10 DEF ReadStands
<1> QED BY <1>3, <1>6, <1>11

\* So the invariant holds again when the step is polite, does as much for its
\* own transaction, and keeps the types and the rows in order.
LEMMA InvAgain ==
  ASSUME StockInv, NEW h \in Handler, Polite(h), TypeOK', IssuesOK', ItemsOK',
         (Knows(tx[h]) /\ Holds(h) /\ ReadStands(h))'
  PROVE  StockInv'
BY OthersStand DEF StockInv

LEMMA StepsThatEnd ==
  ASSUME StockInv, NEW h \in Handler, End(h), ItemsOK', IssuesOK',
         quantity' \in [Consumable -> Nat], issue' \in [Issue -> IssueRow],
         held' \in [Consumable -> [User -> Int]], supply' \in [Consumable -> Int],
         item' \in [Item -> ItemRow], overtaken' \subseteq Consumable,
         \A c \in Consumable : quantity'[c] # quantity[c] => Free(c, h),
         \A i \in Issue : issue'[i] # issue[i] =>
           /\ Free(i, h) \/ IsSpare(i)
           /\ ~issue'[i].open \/ Free(issue'[i].consumable, h)
           /\ \/ IsSpare(i)
              \/ issue'[i].consumable = issue[i].consumable /\ issue'[i].user = issue[i].user
  PROVE  StockInv'
<1> USE ConsumableAssumption
<1>1. TypeOK'
  BY Ends DEF StockInv, TypeOK
<1>2. Polite(h)
  <2> SUFFICES ASSUME NEW g \in Handler, g # h
               PROVE  /\ tx'[g] = tx[g]
                      /\ \A x \in Consumable \cup Issue : owner[x] = g => owner'[x] = g
                      /\ \A c \in Consumable : owner[c] = g =>
                           /\ quantity'[c] = quantity[c]
                           /\ \A i \in Issue : issue'[i].consumable = c /\ issue'[i].open =>
                                                 issue'[i] = issue[i]
                      /\ \A i \in Issue : tx[g].issue = i /\ owner[i] = g => issue'[i] = issue[i]
                      /\ \A i \in Issue : tx[g].issue = i =>
                           issue'[i].consumable = issue[i].consumable /\ issue'[i].user = issue[i].user
    BY DEF Polite
  <2>1. g # None /\ \A x : owner[x] = g => ~Free(x, h)
    BY DEF Free
  <2>2. \A i \in Issue : tx[g].issue = i => ~IsSpare(i)
    BY DEF IsSpare
  <2>3. /\ tx'[g] = tx[g]
        /\ \A x \in Consumable \cup Issue : owner[x] = g => owner'[x] = g
    BY Ends DEF StockInv
  <2> QED BY <2>1, <2>2, <2>3
<1>3. (Knows(tx[h]) /\ Holds(h) /\ ReadStands(h))'
  BY Ends DEF StockInv
<1> QED BY <1>1, <1>2, <1>3, InvAgain

\* Steps of a transaction that go on: rows, stock and items are left alone.
LEMMA StepsThatGoOn ==
  ASSUME StockInv, NEW h \in Handler, UNCHANGED <<quantity, issue, held, supply, item, overtaken>>,
         tx' \in [Handler -> Request], \A g \in Handler : g # h => tx'[g] = tx[g],
         owner' \in [Consumable \cup Issue -> Handler \cup {None}],
         \A x \in Consumable \cup Issue : owner'[x] # owner[x] => Free(x, h),
         (Knows(tx[h]) /\ Holds(h) /\ ReadStands(h))'
  PROVE  StockInv'
<1> USE ConsumableAssumption
<1>1. TypeOK' /\ IssuesOK' /\ ItemsOK'
  BY DEF StockInv, TypeOK, IssuesOK, ItemsOK
<1>2. Polite(h)
  BY DEF Polite, Free
<1> QED BY <1>1, <1>2, InvAgain

\* Hand changes what one user has in hand, never of a user who does not spend
\* by more or less than it says.
LEMMA Hands ==
  ASSUME TypeOK, NEW c \in Consumable, NEW u \in User, NEW n \in Int, Hand(c, u, n)
  PROVE  /\ held' \in [Consumable -> [User -> Int]]
         /\ \A d \in Consumable, v \in User :
              v \notin Spenders => held'[d][v] = IF d = c /\ v = u THEN held[d][v] + n ELSE held[d][v]
<1> DEFINE m == IF u \in Spenders /\ held[c][u] + n < 0 THEN 0 ELSE held[c][u] + n
<1>1. held[c][u] \in Int
  BY DEF TypeOK
<1>2. m \in Int /\ (u \notin Spenders => m = held[c][u] + n)
  BY <1>1
<1>3. held' = [held EXCEPT ![c][u] = m]
  BY DEF Hand
<1> HIDE DEF m
<1> QED BY <1>2, <1>3 DEF TypeOK
-----------------------------------------------------------------------------
(* The inductive step, one lemma for each kind of step.                    *)

LEMMA StepBegin ==
  ASSUME StockInv, NEW h \in Handler, NEW op, NEW c, NEW u, NEW i, NEW q,
         Startable(op, c, u, i, q), Begin(h, op, c, u, i, q)
  PROVE  StockInv'
<1> USE ConsumableAssumption
<1> DEFINE t == [Idle EXCEPT !.op = op, !.consumable = c, !.user = u, !.issue = i, !.qty = q]
<1>1. Idle \in Request
  BY DEF Idle, Request, Op
<1>2. /\ t \in Request /\ t.op = op /\ t.at = "start" /\ t.consumable = c /\ t.user = u
      /\ t.issue = i /\ t.qty = q
  BY <1>1 DEF Startable, Request, Op, Idle
<1>3. tx' = [tx EXCEPT ![h] = t] /\ UNCHANGED <<quantity, issue, owner, held, supply, item, overtaken>>
  BY DEF Begin, returnVars
<1> HIDE DEF t
<1>4. /\ tx' \in [Handler -> Request] /\ tx'[h] = t
      /\ \A g \in Handler : g # h => tx'[g] = tx[g]
  BY <1>2, <1>3 DEF StockInv, TypeOK
<1>5. (Knows(tx[h]) /\ Holds(h) /\ ReadStands(h))'
  BY <1>2, <1>3, <1>4 DEF Startable, Knows, Holds, ReadStands
<1>6. owner' \in [Consumable \cup Issue -> Handler \cup {None}]
  BY <1>3 DEF StockInv, TypeOK
<1> QED BY <1>3, <1>4, <1>5, <1>6, StepsThatGoOn

LEMMA StepDecide ==
  ASSUME StockInv, NEW h \in Handler, NEW op \in {"approve", "deny"}, NEW k \in Item,
         Decide(h, op, k), op = "approve" => item[k].qty <= issue[item[k].issue].quantity
  PROVE  StockInv'
<1> USE ConsumableAssumption
<1> PICK i, c : i = item[k].issue /\ c = issue[i].consumable
  OBVIOUS
<1> PICK t : t = [op |-> op, at |-> "write", consumable |-> c, user |-> issue[i].user,
                 issue |-> i, qty |-> item[k].qty, seen |-> issue[i].quantity,
                 item |-> k, stock |-> quantity[c]]
  OBVIOUS
<1>1. i \in Issue /\ item[k].qty \in Ask
  BY DEF StockInv, ItemsOK, TypeOK, ItemRow, Decide
<1>2. c \in Consumable /\ issue[i].user \in User /\ issue[i].quantity \in Nat /\ quantity[c] \in Nat
  BY <1>1 DEF StockInv, TypeOK, IssueRow
<1>3. /\ t \in Request /\ t.op = op /\ t.at = "write" /\ t.consumable = c /\ t.user = issue[i].user
      /\ t.issue = i /\ t.qty = item[k].qty /\ t.seen = issue[i].quantity /\ t.item = k
  BY <1>1, <1>2 DEF Request, Op
<1>4. tx' = [tx EXCEPT ![h] = t] /\ UNCHANGED <<quantity, issue, owner, held, supply, item, overtaken>>
  BY DEF Decide, returnVars
<1>5. /\ tx' \in [Handler -> Request] /\ tx'[h] = t
      /\ \A g \in Handler : g # h => tx'[g] = tx[g]
  BY <1>3, <1>4 DEF StockInv, TypeOK
<1>6. (Knows(tx[h]) /\ Holds(h) /\ ReadStands(h))'
  <2>1. Knows(tx[h])'
    BY <1>1, <1>2, <1>3, <1>4, <1>5 DEF Knows
  <2>2. (Holds(h) /\ ReadStands(h))'
    BY <1>3, <1>5 DEF Holds, ReadStands
  <2> QED BY <2>1, <2>2
<1>7. owner' \in [Consumable \cup Issue -> Handler \cup {None}]
  BY <1>4 DEF StockInv, TypeOK
<1> QED BY <1>4, <1>5, <1>6, <1>7, StepsThatGoOn

\* IssueLock, IssueGet, LockIssue and UseRead.
LEMMA StepRead ==
  ASSUME StockInv, NEW h \in Handler, IssueLock(h) \/ IssueGet(h) \/ LockIssue(h) \/ UseRead(h)
  PROVE  StockInv'
<1> USE ConsumableAssumption
<1>0. TypeOK /\ Knows(tx[h]) /\ Holds(h) /\ IssuesOK
  BY DEF StockInv
<1>1. tx[h] \in Request /\ owner \in [Consumable \cup Issue -> Handler \cup {None}]
      /\ \A i \in Issue : issue[i].quantity \in Nat
  BY <1>0 DEF TypeOK, IssueRow
<1>2. CASE IssueLock(h)
  <2>1. /\ tx' = [tx EXCEPT ![h].at = "get"] /\ tx[h].op = "issue" /\ tx[h].at = "start"
        /\ owner' = [owner EXCEPT ![tx[h].consumable] = h] /\ Free(tx[h].consumable, h)
        /\ tx[h].qty <= quantity[tx[h].consumable]
        /\ UNCHANGED <<quantity, issue, held, supply, item, overtaken>>
    BY <1>2 DEF IssueLock, At, InStock, returnVars
  <2>2. tx[h].consumable \in Consumable
    BY <1>0, <2>1 DEF Knows
  <2>3. /\ tx' \in [Handler -> Request] /\ \A g \in Handler : g # h => tx'[g] = tx[g]
        /\ tx'[h].op = tx[h].op /\ tx'[h].at = "get" /\ tx'[h].consumable = tx[h].consumable
        /\ tx'[h].user = tx[h].user /\ tx'[h].issue = tx[h].issue /\ tx'[h].qty = tx[h].qty
    BY <1>0, <2>1, Moves
  <2>4. (Knows(tx[h]) /\ Holds(h) /\ ReadStands(h))'
    BY <1>0, <1>1, <2>1, <2>2, <2>3 DEF Knows, Holds, ReadStands
  <2>5. /\ owner' \in [Consumable \cup Issue -> Handler \cup {None}]
        /\ \A x \in Consumable \cup Issue : owner'[x] # owner[x] => Free(x, h)
    BY <1>1, <2>1, <2>2
  <2> QED BY <2>1, <2>3, <2>4, <2>5, StepsThatGoOn
<1>3. CASE IssueGet(h)
  <2>1. /\ tx[h].op = "issue" /\ tx[h].at = "get" /\ tx[h].issue = None
        /\ UNCHANGED <<quantity, issue, owner, held, supply, item, overtaken>>
    BY <1>0, <1>3 DEF IssueGet, At, Knows, returnVars
  <2>2. CASE /\ OpenIssues(tx[h].consumable, tx[h].user) = {}
             /\ tx' = [tx EXCEPT ![h].at = "write"]
    <3>1. /\ tx' \in [Handler -> Request] /\ \A g \in Handler : g # h => tx'[g] = tx[g]
          /\ tx'[h].op = tx[h].op /\ tx'[h].at = "write" /\ tx'[h].consumable = tx[h].consumable
          /\ tx'[h].user = tx[h].user /\ tx'[h].issue = tx[h].issue /\ tx'[h].qty = tx[h].qty
      BY <1>0, <2>2, Moves
    <3>2. OpenIssues(tx[h].consumable, tx[h].user)' = {}
      BY <2>1, <2>2, <3>1 DEF OpenIssues
    <3>3. (Knows(tx[h]) /\ Holds(h) /\ ReadStands(h))'
      BY <1>0, <2>1, <3>1, <3>2 DEF Knows, Holds, ReadStands
    <3> QED BY <1>1, <2>1, <3>1, <3>3, StepsThatGoOn
  <2>3. CASE \E i \in OpenIssues(tx[h].consumable, tx[h].user) :
               tx' = [tx EXCEPT ![h].at = "write", ![h].issue = i, ![h].seen = issue[i].quantity]
    <3> PICK i \in Issue : /\ i \in OpenIssues(tx[h].consumable, tx[h].user)
                           /\ Notes(h, i, issue[i].quantity)
      BY <2>3 DEF OpenIssues, Notes
    <3>1. /\ tx' \in [Handler -> Request] /\ \A g \in Handler : g # h => tx'[g] = tx[g]
          /\ tx'[h].op = tx[h].op /\ tx'[h].at = "write" /\ tx'[h].consumable = tx[h].consumable
          /\ tx'[h].user = tx[h].user /\ tx'[h].issue = i /\ tx'[h].qty = tx[h].qty
          /\ tx'[h].seen = issue[i].quantity
      <4> issue[i].quantity \in Nat
        BY <1>1
      <4> QED BY <1>0, MovesWith
    <3>2. issue[i].consumable = tx[h].consumable /\ issue[i].user = tx[h].user
      BY DEF OpenIssues
    <3>3. (Knows(tx[h]) /\ Holds(h) /\ ReadStands(h))'
      BY <1>0, <2>1, <3>1, <3>2 DEF Knows, Holds, ReadStands
    <3> QED BY <1>1, <2>1, <3>1, <3>3, StepsThatGoOn
  <2> QED BY <1>3, <2>2, <2>3 DEF IssueGet
<1>4. CASE LockIssue(h) \/ UseRead(h)
  <2>0. Wanted(h) \subseteq Issue
    BY <1>1 DEF Wanted, OpenIssues, Request
  <2> PICK i \in Issue :
        /\ i \in Wanted(h) /\ Free(i, h) /\ MayTake(h, i)
        /\ Notes(h, i, issue[i].quantity)
        /\ \/ tx[h].op \in {"return", "loss"} /\ owner' = [owner EXCEPT ![i] = h]
           \/ tx[h].op = "use" /\ UNCHANGED owner
    BY <1>4, <2>0 DEF LockIssue, UseRead, At, Notes
  <2>1. UNCHANGED <<quantity, issue, held, supply, item, overtaken>>
    BY <1>4 DEF LockIssue, UseRead, returnVars
  <2>2. /\ i \in Issue /\ issue[i].consumable = tx[h].consumable /\ issue[i].user = tx[h].user
        /\ issue[i].open /\ tx[h].qty <= issue[i].quantity
    BY <1>0, <1>1 DEF Wanted, MayTake, OpenIssues, Knows, Request
  <2>3. /\ tx' \in [Handler -> Request] /\ \A g \in Handler : g # h => tx'[g] = tx[g]
        /\ tx'[h].op = tx[h].op /\ tx'[h].at = "write" /\ tx'[h].consumable = tx[h].consumable
        /\ tx'[h].user = tx[h].user /\ tx'[h].issue = i /\ tx'[h].qty = tx[h].qty
        /\ tx'[h].seen = issue[i].quantity
    <3> issue[i].quantity \in Nat
      BY <1>1, <2>2
    <3> QED BY <1>0, MovesWith
  <2>4. /\ owner' \in [Consumable \cup Issue -> Handler \cup {None}]
        /\ \A x \in Consumable \cup Issue : owner'[x] # owner[x] => Free(x, h)
        /\ tx[h].op \in {"return", "loss"} => owner'[i] = h
    BY <1>1, <2>2
  <2>5. (Knows(tx[h]) /\ Holds(h) /\ ReadStands(h))'
    BY <1>0, <2>1, <2>2, <2>3, <2>4 DEF Knows, Holds, ReadStands
  <2> QED BY <2>1, <2>3, <2>4, <2>5, StepsThatGoOn
<1> QED BY <1>2, <1>3, <1>4

\* Fields of the request at hand, with the types that its operation gives them.
LEMMA TxTypes ==
  ASSUME StockInv, NEW h \in Handler
  PROVE  /\ tx[h].qty \in Nat /\ tx[h].seen \in Nat /\ tx[h].stock \in Nat
         /\ tx[h].issue \in Issue \cup {None} /\ None \notin Issue
         /\ tx[h].op # "idle" => tx[h].consumable \in Consumable /\ tx[h].user \in User
         /\ tx[h].op \in {"use", "return", "loss", "approve"} /\ tx[h].at = "write" =>
              tx[h].issue \in Issue /\ tx[h].seen - tx[h].qty \in Nat
<1>1. tx[h] \in Request /\ Knows(tx[h]) /\ None \notin Issue
  BY ConsumableAssumption DEF StockInv, TypeOK
<1>2. tx[h].qty \in Nat /\ tx[h].seen \in Nat /\ tx[h].stock \in Nat /\ tx[h].issue \in Issue \cup {None}
  BY <1>1, ConsumableAssumption DEF Request, Ask
<1>3. tx[h].op # "idle" => tx[h].consumable \in Consumable /\ tx[h].user \in User
  BY <1>1 DEF Knows
<1>4. tx[h].op \in {"use", "return", "loss", "approve"} /\ tx[h].at = "write" =>
        tx[h].issue # None /\ tx[h].qty <= tx[h].seen
  BY <1>1 DEF Knows
<1> QED BY <1>1, <1>2, <1>3, <1>4

\* IssueMore and IssueNew.
LEMMA StepIssue ==
  ASSUME StockInv, NEW h \in Handler, IssueMore(h) \/ IssueNew(h)
  PROVE  StockInv'
<1>0. TypeOK /\ IssuesOK /\ Knows(tx[h]) /\ Holds(h) /\ ReadStands(h)
  BY DEF StockInv
<1> PICK t : t = tx[h]
  OBVIOUS
<1>1. /\ t.op = "issue" /\ t.at = "write" /\ End(h) /\ UNCHANGED <<supply, item, overtaken>>
      /\ quantity' = [quantity EXCEPT ![t.consumable] = @ - t.qty]
      /\ Hand(t.consumable, t.user, t.qty)
  BY DEF IssueMore, IssueNew, At, TakeFromStock, returnVars
<1>2. /\ t.consumable \in Consumable /\ t.user \in User /\ t.qty \in Nat /\ t.seen \in Nat
      /\ t.issue \in Issue \cup {None} /\ None \notin Issue
  BY <1>1, TxTypes
<1>3. owner[t.consumable] = h /\ t.qty <= quantity[t.consumable]
  BY <1>0, <1>1 DEF Holds
<1>4. /\ quantity' \in [Consumable -> Nat]
      /\ \A c \in Consumable : quantity'[c] # quantity[c] => Free(c, h)
  BY <1>0, <1>1, <1>2, <1>3 DEF TypeOK, Free
<1>5. held' \in [Consumable -> [User -> Int]]
  BY <1>0, <1>1, <1>2, Hands
<1>6. ItemsOK' /\ item' \in [Item -> ItemRow] /\ supply' \in [Consumable -> Int] /\ overtaken' \subseteq Consumable
  BY <1>1 DEF StockInv, TypeOK, ItemsOK
<1>7. CASE IssueMore(h)
  <2> PICK n \in Nat : n = t.seen + t.qty
    BY <1>2
  <2>1. /\ t.issue \in Issue /\ Free(t.issue, h) /\ issue[t.issue].open
        /\ QuantitySet(t.issue, n)
    BY <1>2, <1>7 DEF IssueMore, ClosedIsEmpty, QuantitySet
  <2>2. /\ issue' \in [Issue -> IssueRow] /\ \A j \in Issue : j # t.issue => issue'[j] = issue[j]
        /\ issue'[t.issue].quantity = n /\ issue'[t.issue].open = issue[t.issue].open
        /\ issue'[t.issue].consumable = issue[t.issue].consumable
        /\ issue'[t.issue].user = issue[t.issue].user
    <3>1. TypeOK /\ t.issue \in Issue
      BY <1>0, <2>1
    <3>2. QuantitySet(t.issue, n)
      BY <2>1
    <3> QED BY <3>1, <3>2, RowWrites
  <2>3. IssuesOK'
    <3>1. \A j \in Issue : /\ issue'[j].open = issue[j].open
                           /\ issue'[j].consumable = issue[j].consumable
                           /\ issue'[j].user = issue[j].user
      BY <2>2
    <3>2. \A j \in Issue : ~issue'[j].open => issue'[j].quantity = 0
      BY <1>0, <2>1, <2>2 DEF IssuesOK
    <3>3. \A j, k \in Issue :
            issue'[j].open /\ issue'[k].open /\ issue'[j].consumable = issue'[k].consumable
              /\ issue'[j].user = issue'[k].user => j = k
      BY <1>0, <3>1 DEF IssuesOK
    <3> QED BY <3>2, <3>3 DEF IssuesOK
  <2>4. issue[t.issue].consumable = t.consumable
    BY <1>0, <1>2, <2>1 DEF Knows
  <2>5. \A i \in Issue : issue'[i] # issue[i] =>
          /\ Free(i, h) \/ IsSpare(i)
          /\ ~issue'[i].open \/ Free(issue'[i].consumable, h)
          /\ \/ IsSpare(i)
             \/ issue'[i].consumable = issue[i].consumable /\ issue'[i].user = issue[i].user
    BY <1>3, <2>1, <2>2, <2>4 DEF Free
  <2> QED BY <1>1, <1>4, <1>5, <1>6, <2>2, <2>3, <2>5, StepsThatEnd
<1>8. CASE IssueNew(h)
  <2> DEFINE row == [consumable |-> t.consumable, user |-> t.user, quantity |-> t.qty, open |-> TRUE]
  <2>1. row \in IssueRow /\ row.open /\ row.consumable = t.consumable /\ row.user = t.user
    BY <1>2 DEF IssueRow
  <2> PICK i \in Issue : IsSpare(i) /\ issue' = [issue EXCEPT ![i] = row]
    BY <1>8 DEF IssueNew
  <2> HIDE DEF row
  <2>2. /\ issue' \in [Issue -> IssueRow] /\ issue'[i] = row
        /\ \A j \in Issue : j # i => issue'[j] = issue[j]
    BY <1>0, <2>1 DEF TypeOK
  <2>3. OpenIssues(t.consumable, t.user) = {}
    BY <1>0, <1>1, <1>8 DEF ReadStands, IssueNew
  <2>4. \A j \in Issue : ~(issue[j].open /\ issue[j].consumable = t.consumable /\ issue[j].user = t.user)
    BY <2>3 DEF OpenIssues
  <2>5. IssuesOK'
    <3>1. \A j \in Issue : ~issue'[j].open => issue'[j].quantity = 0
      BY <1>0, <2>1, <2>2 DEF IssuesOK
    <3>2. \A j, k \in Issue :
            issue'[j].open /\ issue'[k].open /\ issue'[j].consumable = issue'[k].consumable
              /\ issue'[j].user = issue'[k].user => j = k
      BY <1>0, <2>1, <2>2, <2>4 DEF IssuesOK
    <3> QED BY <3>1, <3>2 DEF IssuesOK
  <2>6. \A j \in Issue : issue'[j] # issue[j] =>
          /\ Free(j, h) \/ IsSpare(j)
          /\ ~issue'[j].open \/ Free(issue'[j].consumable, h)
          /\ \/ IsSpare(j)
             \/ issue'[j].consumable = issue[j].consumable /\ issue'[j].user = issue[j].user
    BY <1>3, <2>1, <2>2 DEF Free
  <2> QED BY <1>1, <1>4, <1>5, <1>6, <2>2, <2>5, <2>6, StepsThatEnd
<1> QED BY <1>7, <1>8

\* Close and UseWrite: both reduce the issue, if they write it at all.
LEMMA StepReduce ==
  ASSUME StockInv, NEW h \in Handler, Close(h) \/ UseWrite(h)
  PROVE  StockInv'
<1>0. TypeOK /\ IssuesOK /\ Knows(tx[h]) /\ Holds(h) /\ ReadStands(h)
  BY DEF StockInv
<1> PICK t : t = tx[h]
  OBVIOUS
<1>1. /\ t.op \in {"use", "return", "loss"} /\ t.at = "write" /\ End(h)
      /\ UNCHANGED <<item, overtaken>> /\ Hand(t.consumable, t.user, - t.qty)
  BY DEF Close, UseWrite, At, returnVars
<1>2. /\ t.consumable \in Consumable /\ t.user \in User /\ t.qty \in Nat /\ t.seen \in Nat
      /\ t.issue \in Issue /\ t.seen - t.qty \in Nat
  BY <1>1, TxTypes
<1>3. \/ UNCHANGED quantity
      \/ quantity' = [quantity EXCEPT ![t.consumable] = @ + t.qty] /\ Free(t.consumable, h)
  BY DEF Close, UseWrite
<1>4. /\ quantity' \in [Consumable -> Nat]
      /\ \A c \in Consumable : quantity'[c] # quantity[c] => Free(c, h)
  BY <1>0, <1>2, <1>3 DEF TypeOK
<1>5. held' \in [Consumable -> [User -> Int]]
  <2>1. - t.qty \in Int
    BY <1>2
  <2> QED BY <1>0, <1>1, <1>2, <2>1, Hands
<1>6. ItemsOK' /\ item' \in [Item -> ItemRow] /\ overtaken' \subseteq Consumable
  BY <1>1 DEF StockInv, TypeOK, ItemsOK
<1>7. supply' \in [Consumable -> Int]
  BY <1>0, <1>2 DEF Close, UseWrite, TypeOK
<1>8. \/ UNCHANGED issue
      \/ \E n \in Nat : Reduced(t.issue, n) /\ Free(t.issue, h) /\ (n = 0 \/ Free(t.consumable, h))
  BY <1>0, <1>2 DEF Close, UseWrite, Holds, Free
<1>9. CASE UNCHANGED issue
  <2>1. IssuesOK' /\ issue' \in [Issue -> IssueRow] /\ \A i \in Issue : issue'[i] = issue[i]
    BY <1>0, <1>9 DEF IssuesOK, TypeOK
  <2> QED BY <1>1, <1>4, <1>5, <1>6, <1>7, <2>1, StepsThatEnd
<1>10. ASSUME NEW n \in Nat, Reduced(t.issue, n), Free(t.issue, h), n = 0 \/ Free(t.consumable, h)
       PROVE  StockInv'
  <2>1. /\ issue' \in [Issue -> IssueRow] /\ \A j \in Issue : j # t.issue => issue'[j] = issue[j]
        /\ issue'[t.issue].quantity = n /\ (issue'[t.issue].open <=> n # 0)
        /\ issue'[t.issue].consumable = issue[t.issue].consumable
        /\ issue'[t.issue].user = issue[t.issue].user
    <3>1. TypeOK /\ t.issue \in Issue
      BY <1>0, <1>2
    <3> QED BY <1>10, <3>1, RowWrites
  <2>2. n # 0 => issue[t.issue].open
    <3>1. CASE Close(h)
      BY <1>0, <3>1 DEF Close, ReadStands
    <3>2. CASE UseWrite(h) /\ t.qty = t.seen
      <4>1. Reduced(t.issue, 0)
        BY <3>2 DEF UseWrite
      <4>2. issue'[t.issue].quantity = 0
        BY <1>0, <1>2, <4>1, RowWrites
      <4> QED BY <2>1, <4>2
    <3>3. CASE UseWrite(h) /\ t.qty # t.seen
      BY <2>1, <3>3 DEF UseWrite
    <3> QED BY <3>1, <3>2, <3>3
  <2>3. IssuesOK'
    BY <1>0, <1>2, <2>1, <2>2 DEF IssuesOK
  <2>4. issue[t.issue].consumable = t.consumable
    BY <1>0, <1>1 DEF Knows
  <2>5. \A i \in Issue : issue'[i] # issue[i] =>
          /\ Free(i, h) \/ IsSpare(i)
          /\ ~issue'[i].open \/ Free(issue'[i].consumable, h)
          /\ \/ IsSpare(i)
             \/ issue'[i].consumable = issue[i].consumable /\ issue'[i].user = issue[i].user
    BY <1>10, <2>1, <2>4
  <2> QED BY <1>1, <1>4, <1>5, <1>6, <1>7, <2>1, <2>3, <2>5, StepsThatEnd
<1> QED BY <1>8, <1>9, <1>10

\* InsertItem, SaveApproved and SaveDenied.
LEMMA StepItem ==
  ASSUME StockInv, NEW h \in Handler, InsertItem(h) \/ SaveApproved(h) \/ SaveDenied(h)
  PROVE  StockInv'
<1>0. TypeOK /\ IssuesOK /\ ItemsOK /\ Knows(tx[h])
  BY DEF StockInv
<1> PICK t : t = tx[h]
  OBVIOUS
<1>1. /\ t.op \in {"ask", "approve", "deny"} /\ End(h)
      /\ t.op = "approve" => t.at = "write"
  BY DEF InsertItem, SaveApproved, SaveDenied, At
<1>2. /\ t.consumable \in Consumable /\ t.user \in User /\ t.qty \in Nat /\ t.seen \in Nat
      /\ t.stock \in Nat /\ t.issue \in Issue /\ t.qty \in Ask
      /\ t.op = "approve" => t.seen - t.qty \in Nat
  <2>1. t.qty \in Ask /\ t.issue # None
    BY <1>0, <1>1 DEF Knows
  <2> QED BY <1>1, <2>1, TxTypes
<1>3. CASE SaveApproved(h)
  <2> PICK n \in Nat : n = t.seen - t.qty
    BY <1>2, <1>3 DEF SaveApproved, At
  <2>1. /\ Free(t.issue, h) /\ Free(t.consumable, h) /\ (issue[t.issue].open \/ n = 0)
        /\ QuantitySet(t.issue, n)
        /\ quantity' = [quantity EXCEPT ![t.consumable] = t.stock + t.qty]
        /\ item' = [item EXCEPT ![t.item].status = "approved"]
        /\ Hand(t.consumable, t.user, IF item[t.item].status = "pending" THEN - t.qty ELSE 0)
        /\ overtaken' \in {overtaken, overtaken \cup {t.consumable}} /\ UNCHANGED supply
    BY <1>2, <1>3 DEF SaveApproved, QuantitySet
  <2>2. /\ issue' \in [Issue -> IssueRow] /\ \A j \in Issue : j # t.issue => issue'[j] = issue[j]
        /\ issue'[t.issue].quantity = n /\ issue'[t.issue].open = issue[t.issue].open
        /\ issue'[t.issue].consumable = issue[t.issue].consumable
        /\ issue'[t.issue].user = issue[t.issue].user
    <3>1. TypeOK /\ t.issue \in Issue
      BY <1>0, <1>2
    <3>2. QuantitySet(t.issue, n)
      BY <2>1
    <3> QED BY <3>1, <3>2, RowWrites
  <2>3. IssuesOK'
    BY <1>0, <1>2, <2>1, <2>2 DEF IssuesOK
  <2>4. /\ quantity' \in [Consumable -> Nat]
        /\ \A c \in Consumable : quantity'[c] # quantity[c] => Free(c, h)
    BY <1>0, <1>2, <2>1 DEF TypeOK
  <2>5. held' \in [Consumable -> [User -> Int]]
    <3>1. (IF item[t.item].status = "pending" THEN - t.qty ELSE 0) \in Int
      BY <1>2
    <3> QED BY <1>0, <1>2, <2>1, <3>1, Hands
  <2>6. item' \in [Item -> ItemRow] /\ ItemsOK'
    <3> PICK row : row = [item[t.item] EXCEPT !.status = "approved"]
      OBVIOUS
    <3>1. t.item \in Item
      BY <1>0, <1>3 DEF Knows, SaveApproved, At
    <3>2. item[t.item] \in ItemRow /\ item \in [Item -> ItemRow]
      BY <1>0, <3>1 DEF TypeOK
    <3>3. row \in ItemRow /\ row.status = "approved"
      BY <3>2 DEF ItemRow
    <3>4. item' = [item EXCEPT ![t.item] = row]
      BY <2>1
    <3> QED BY <1>0, <3>1, <3>2, <3>3, <3>4 DEF ItemsOK
  <2>7. overtaken' \subseteq Consumable /\ supply' \in [Consumable -> Int]
    BY <1>0, <1>2, <2>1 DEF TypeOK
  <2>8. issue[t.issue].consumable = t.consumable
    BY <1>0, <1>2, ConsumableAssumption DEF Knows
  <2>9. \A i \in Issue : issue'[i] # issue[i] =>
          /\ Free(i, h) \/ IsSpare(i)
          /\ ~issue'[i].open \/ Free(issue'[i].consumable, h)
          /\ \/ IsSpare(i)
             \/ issue'[i].consumable = issue[i].consumable /\ issue'[i].user = issue[i].user
    BY <2>1, <2>2, <2>8
  <2> QED BY <1>1, <2>2, <2>3, <2>4, <2>5, <2>6, <2>7, <2>9, StepsThatEnd
<1>4. CASE InsertItem(h) \/ SaveDenied(h)
  <2>1. UNCHANGED <<quantity, issue, held, supply, overtaken>>
    BY <1>4 DEF InsertItem, SaveDenied
  <2>2. /\ quantity' \in [Consumable -> Nat] /\ issue' \in [Issue -> IssueRow]
        /\ held' \in [Consumable -> [User -> Int]] /\ supply' \in [Consumable -> Int]
        /\ overtaken' \subseteq Consumable /\ IssuesOK'
    BY <1>0, <2>1 DEF TypeOK, IssuesOK
  <2>3. item' \in [Item -> ItemRow] /\ ItemsOK'
    <3>1. CASE InsertItem(h)
      <4>1. PICK k \in Item :
              item' = [item EXCEPT ![k] = [issue |-> t.issue, qty |-> t.qty, status |-> "pending"]]
        BY <3>1 DEF InsertItem, Fresh
      <4>2. [issue |-> t.issue, qty |-> t.qty, status |-> "pending"] \in ItemRow
        BY <1>2 DEF ItemRow
      <4>3. t.issue # None
        BY <1>2, TxTypes
      <4> QED BY <1>0, <1>2, <4>1, <4>2, <4>3 DEF TypeOK, ItemsOK
    <3>2. CASE SaveDenied(h)
      BY <1>0, <3>2 DEF SaveDenied, TypeOK, ItemRow, ItemsOK
    <3> QED BY <1>4, <3>1, <3>2
  <2> QED BY <1>1, <2>1, <2>2, <2>3, StepsThatEnd
<1> QED BY <1>3, <1>4

\* Restock writes a consumable that no transaction holds.
LEMMA StepRestock ==
  ASSUME StockInv, NEW c \in Consumable, NEW q \in Ask, Restock(c, q)
  PROVE  StockInv'
<1>1. /\ owner[c] = None /\ UNCHANGED <<issue, owner, tx, held, item, overtaken>>
      /\ quantity' = [quantity EXCEPT ![c] = @ + q] /\ supply' = [supply EXCEPT ![c] = @ + q]
  BY DEF Restock, returnVars
<1>2. q \in Nat
  BY ConsumableAssumption DEF Ask
<1>3. TypeOK' /\ IssuesOK' /\ ItemsOK'
  BY <1>1, <1>2 DEF StockInv, TypeOK, IssuesOK, ItemsOK
<1>4. ASSUME NEW h \in Handler PROVE (Knows(tx[h]) /\ Holds(h) /\ ReadStands(h))'
  <2>0. Knows(tx[h]) /\ Holds(h) /\ ReadStands(h) /\ h # None
    BY ConsumableAssumption DEF StockInv
  <2>1. Knows(tx[h])'
    BY <1>1, <2>0 DEF Knows
  <2>2. Holds(h)'
    BY <1>1, <2>0 DEF Holds, StockInv, TypeOK
  <2>3. ReadStands(h)'
    BY <1>1, <2>0 DEF ReadStands, OpenIssues
  <2> QED BY <2>1, <2>2, <2>3
<1> QED BY <1>3, <1>4 DEF StockInv

LEMMA StepRollback ==
  ASSUME StockInv, NEW h \in Handler, Rollback(h)
  PROVE  StockInv'
<1>1. End(h) /\ UNCHANGED <<quantity, issue, held, supply, item, overtaken>>
  BY DEF Rollback, returnVars
<1>2. /\ quantity' \in [Consumable -> Nat] /\ issue' \in [Issue -> IssueRow]
      /\ held' \in [Consumable -> [User -> Int]] /\ supply' \in [Consumable -> Int]
      /\ item' \in [Item -> ItemRow] /\ overtaken' \subseteq Consumable
      /\ IssuesOK' /\ ItemsOK'
  BY <1>1 DEF StockInv, TypeOK, IssuesOK, ItemsOK
<1> QED BY <1>1, <1>2, StepsThatEnd

\* The invariant stands whatever a step does.
LEMMA StockInvStep == StockInv /\ [Next]_vars => StockInv'
<1> SUFFICES ASSUME StockInv, [Next]_vars PROVE StockInv'
  OBVIOUS
<1>1. TypeOK /\ ItemsOK
  BY DEF StockInv
<1>2. CASE UNCHANGED vars
  BY <1>2 DEF vars, returnVars, StockInv, TypeOK, IssuesOK, ItemsOK, Knows, Holds, ReadStands, OpenIssues
<1> QED BY <1>1, <1>2, StepKinds, StepRollback, StepBegin, StepDecide, StepRead, StepIssue, StepReduce,
           StepItem, StepRestock

LEMMA StockInvariant == Spec => []StockInv
BY StockInvInit, StockInvStep, PTL DEF Spec

\* Type correctness: no race of issues, uses, returns, losses and approvals
\* takes the stock of a consumable or the quantity of an issue below zero.
THEOREM StockTypes == Spec => []TypeOK
<1>1. StockInv => TypeOK
  BY DEF StockInv
<1> QED BY <1>1, StockInvariant, PTL
-----------------------------------------------------------------------------
(* Counting units.                                                         *)

\* The units that the rows of f in R say are held of consumable c.
UnitsIn(f, R, c) == UNION {{i} \X (1 .. f[i].quantity) : i \in {k \in R : f[k].consumable = c}}

\* What row i adds to them.
Share(f, i, c) == IF f[i].consumable = c THEN f[i].quantity ELSE 0

\* The units of a finite set of rows are finite.
LEMMA UnitsFinite ==
  ASSUME NEW f \in [Issue -> IssueRow], NEW R \in SUBSET Issue, NEW c
  PROVE  IsFiniteSet(UnitsIn(f, R, c)) /\ Cardinality(UnitsIn(f, R, c)) \in Nat
<1> DEFINE S == {k \in R : f[k].consumable = c}
           T == {{i} \X (1 .. f[i].quantity) : i \in S}
<1>1. IsFiniteSet(S)
  BY FS_Subset, ConsumableAssumption, S \in SUBSET Issue
<1>2. IsFiniteSet(T)
  <2> DEFINE h == [i \in S |-> {i} \X (1 .. f[i].quantity)]
  <2>1. h \in Surjection(S, T)
    BY DEF Surjection
  <2> HIDE DEF S, T, h
  <2> QED BY <1>1, <2>1, FS_Surjection
<1>3. \A t \in T : IsFiniteSet(t)
  <2> SUFFICES ASSUME NEW i \in S PROVE IsFiniteSet({i} \X (1 .. f[i].quantity))
    OBVIOUS
  <2>1. IsFiniteSet({i})
    BY FS_Singleton
  <2>2. f[i].quantity \in Int
    BY DEF IssueRow
  <2>3. IsFiniteSet(1 .. f[i].quantity)
    BY <2>2, FS_Interval
  <2> QED BY <2>1, <2>3, FS_Product
<1>4. UnitsIn(f, R, c) = UNION T
  BY DEF UnitsIn
<1> HIDE DEF T
<1> QED BY <1>2, <1>3, <1>4, FS_UNION, FS_CardinalityType

\* The units of all rows are those of the others and the share of one.
LEMMA UnitsSplit ==
  ASSUME NEW f \in [Issue -> IssueRow], NEW i \in Issue, NEW c
  PROVE  Cardinality(UnitsIn(f, Issue, c))
           = Cardinality(UnitsIn(f, Issue \ {i}, c)) + Share(f, i, c)
<1> DEFINE Mine == IF f[i].consumable = c THEN {i} \X (1 .. f[i].quantity) ELSE {}
           Rest == UnitsIn(f, Issue \ {i}, c)
<1>1. UnitsIn(f, Issue, c) = Rest \cup Mine
  BY DEF UnitsIn
<1>2. Rest \cap Mine = {}
  BY DEF UnitsIn
<1>3. IsFiniteSet(Rest) /\ Cardinality(Rest) \in Nat
  BY UnitsFinite, Issue \ {i} \in SUBSET Issue
<1>4. f[i].quantity \in Nat
  BY DEF IssueRow
<1>5. IsFiniteSet(Mine) /\ Cardinality(Mine) = Share(f, i, c)
  <2>1. IsFiniteSet({i}) /\ Cardinality({i}) = 1
    BY FS_Singleton
  <2>2. IsFiniteSet(1 .. f[i].quantity) /\ Cardinality(1 .. f[i].quantity) = f[i].quantity
    <3> DEFINE n == f[i].quantity
    <3>1. n \in Nat
      BY <1>4
    <3> HIDE DEF n
    <3>2. IsFiniteSet(1 .. n) /\ Cardinality(1 .. n) = IF 1 > n THEN 0 ELSE n - 1 + 1
      BY <3>1, FS_Interval
    <3>3. IsFiniteSet(1 .. n) /\ Cardinality(1 .. n) = n
      BY <3>1, <3>2
    <3> QED BY <3>3 DEF n
  <2>3. /\ IsFiniteSet({i} \X (1 .. f[i].quantity))
        /\ Cardinality({i} \X (1 .. f[i].quantity)) = 1 * f[i].quantity
    <3> DEFINE A == {i}
               B == 1 .. f[i].quantity
    <3>1. IsFiniteSet(A) /\ Cardinality(A) = 1 /\ IsFiniteSet(B) /\ Cardinality(B) = f[i].quantity
      BY <2>1, <2>2
    <3> HIDE DEF A, B
    <3>2. IsFiniteSet(A \X B) /\ Cardinality(A \X B) = Cardinality(A) * Cardinality(B)
      BY <3>1, FS_Product
    <3>3. IsFiniteSet(A \X B) /\ Cardinality(A \X B) = 1 * f[i].quantity
      BY <3>1, <3>2
    <3> QED BY <3>3 DEF A, B
  <2>4. IsFiniteSet({}) /\ Cardinality({}) = 0
    BY FS_EmptySet
  <2> QED BY <2>3, <2>4, <1>4 DEF Share
<1> HIDE DEF Rest, Mine
<1>6. Cardinality(Rest \cup Mine) = Cardinality(Rest) + Cardinality(Mine) - Cardinality({})
  BY <1>2, <1>3, <1>5, FS_Union
<1>7. Cardinality({}) = 0
  BY FS_EmptySet
<1>8. Share(f, i, c) \in Nat
  BY <1>4 DEF Share
<1> QED BY <1>1, <1>3, <1>5, <1>6, <1>7, <1>8 DEF Rest

\* Changing one row changes the units by its share.
LEMMA UnitsChange ==
  ASSUME NEW f \in [Issue -> IssueRow], NEW g \in [Issue -> IssueRow], NEW i \in Issue,
         \A k \in Issue \ {i} : g[k] = f[k], NEW c
  PROVE  /\ Cardinality(UnitsIn(f, Issue, c)) \in Nat
         /\ Cardinality(UnitsIn(g, Issue, c)) \in Nat
         /\ Share(f, i, c) \in Nat /\ Share(g, i, c) \in Nat
         /\ Cardinality(UnitsIn(g, Issue, c)) - Share(g, i, c)
              = Cardinality(UnitsIn(f, Issue, c)) - Share(f, i, c)
<1>1. UnitsIn(g, Issue \ {i}, c) = UnitsIn(f, Issue \ {i}, c)
  BY DEF UnitsIn
<1>2. Cardinality(UnitsIn(f, Issue \ {i}, c)) \in Nat
  BY UnitsFinite, Issue \ {i} \in SUBSET Issue
<1>3. /\ Cardinality(UnitsIn(f, Issue, c)) = Cardinality(UnitsIn(f, Issue \ {i}, c)) + Share(f, i, c)
      /\ Cardinality(UnitsIn(g, Issue, c)) = Cardinality(UnitsIn(g, Issue \ {i}, c)) + Share(g, i, c)
  BY UnitsSplit
<1>4. Share(f, i, c) \in Nat /\ Share(g, i, c) \in Nat
  BY DEF Share, IssueRow
<1> QED BY <1>1, <1>2, <1>3, <1>4

\* A step that writes one issue row changes the units by what the row says.
LEMMA OneRow ==
  ASSUME TypeOK, TypeOK', NEW i \in Issue, \A k \in Issue : k # i => issue'[k] = issue[k],
         NEW c \in Consumable
  PROVE  /\ Cardinality(Units(c)) \in Nat /\ Cardinality(Units(c)') \in Nat
         /\ Share(issue, i, c) \in Nat /\ Share(issue', i, c) \in Nat
         /\ Cardinality(Units(c)') - Share(issue', i, c) = Cardinality(Units(c)) - Share(issue, i, c)
<1>1. issue \in [Issue -> IssueRow] /\ issue' \in [Issue -> IssueRow]
  BY DEF TypeOK
<1> PICK f, g : f = issue /\ g = issue'
  OBVIOUS
<1>2. f \in [Issue -> IssueRow] /\ g \in [Issue -> IssueRow] /\ \A k \in Issue \ {i} : g[k] = f[k]
  BY <1>1
<1>3. /\ Cardinality(UnitsIn(f, Issue, c)) \in Nat
      /\ Cardinality(UnitsIn(g, Issue, c)) \in Nat
      /\ Share(f, i, c) \in Nat /\ Share(g, i, c) \in Nat
      /\ Cardinality(UnitsIn(g, Issue, c)) - Share(g, i, c)
           = Cardinality(UnitsIn(f, Issue, c)) - Share(f, i, c)
  BY <1>2, UnitsChange
<1>4. Units(c) = UnitsIn(f, Issue, c) /\ Units(c)' = UnitsIn(g, Issue, c)
  BY DEF Units, UnitsIn
<1> QED BY <1>3, <1>4

\* The books of one consumable balance.
Covered(c) == quantity[c] + Cardinality(Units(c)) <= supply[c]

LEMMA CoveredInit == Init => NoUnitsInvented
<1> SUFFICES ASSUME Init, NEW c \in Consumable PROVE Covered(c)
  BY DEF NoUnitsInvented, Covered
<1>1. \A i \in Issue : issue[i].quantity = 0
  BY DEF Init
<1>2. Units(c) = {}
  BY <1>1 DEF Units
<1>3. Cardinality({}) = 0
  BY FS_EmptySet
<1>4. quantity[c] \in Nat /\ supply[c] = quantity[c]
  BY ConsumableAssumption DEF Init
<1> QED BY <1>2, <1>3, <1>4 DEF Covered

\* What a step that may write issue i says, for the request t that takes it.
\* Unless an approval was overtaken, what is added to the row leaves the stock,
\* what is taken from it comes back or is lost, and a use only lowers it; a user
\* who spends nothing gets in hand what the row gains, which is the one open
\* issue there is, or the first.
Written(i, t) ==
  LET c == t.consumable  u == t.user IN
  /\ c \in Consumable /\ u \in User /\ overtaken \subseteq overtaken'
  /\ \A k \in Issue : k # i => issue'[k] = issue[k]
  /\ issue'[i].consumable = c /\ issue'[i].user = u
  /\ \/ issue[i].consumable = c /\ issue[i].user = u
     \/ ~issue[i].open /\ issue[i].quantity = 0
  /\ \A d \in Consumable \ {c} : quantity'[d] = quantity[d] /\ supply'[d] = supply[d]
  /\ \A d \in Consumable, v \in User \ Spenders : d # c \/ v # u => held'[d][v] = held[d][v]
  /\ c \notin overtaken' =>
       quantity'[c] + issue'[i].quantity - supply'[c] <= quantity[c] + issue[i].quantity - supply[c]
  /\ c \notin overtaken' /\ u \notin Spenders =>
       /\ held'[c][u] - held[c][u] = issue'[i].quantity - issue[i].quantity
       /\ \/ issue[i].open /\ issue[i].consumable = c /\ issue[i].user = u
          \/ ~issue[i].open /\ OpenIssues(c, u) = {}

LEMMA MoreWrites ==
  ASSUME StockInv, NEW h \in Handler, IssueMore(h)
  PROVE  \E i \in Issue : Written(i, tx[h])
<1>0. TypeOK /\ IssuesOK /\ Knows(tx[h]) /\ ReadStands(h)
  BY DEF StockInv
<1> PICK t : t = tx[h]
  OBVIOUS
<1>1. /\ t.op = "issue" /\ t.at = "write" /\ t.issue # None /\ issue[t.issue].open
      /\ issue' = [issue EXCEPT ![t.issue].quantity = t.seen + t.qty]
      /\ quantity' = [quantity EXCEPT ![t.consumable] = @ - t.qty]
      /\ Hand(t.consumable, t.user, t.qty) /\ UNCHANGED <<supply, overtaken>>
  BY DEF IssueMore, At, TakeFromStock, returnVars, ClosedIsEmpty
<1>2. /\ t.consumable \in Consumable /\ t.user \in User /\ t.qty \in Nat /\ t.seen \in Nat
      /\ t.issue \in Issue
  BY <1>1, TxTypes
<1>3. /\ issue[t.issue].consumable = t.consumable /\ issue[t.issue].user = t.user
      /\ issue[t.issue].quantity = t.seen
  BY <1>0, <1>1 DEF Knows, ReadStands
<1> PICK n \in Nat : n = t.seen + t.qty
  BY <1>2
<1>4. /\ \A j \in Issue : j # t.issue => issue'[j] = issue[j]
      /\ issue'[t.issue].quantity = n /\ issue'[t.issue].consumable = issue[t.issue].consumable
      /\ issue'[t.issue].user = issue[t.issue].user
  <2>1. QuantitySet(t.issue, n)
    BY <1>1 DEF QuantitySet
  <2>2. TypeOK /\ t.issue \in Issue
    BY <1>0, <1>2
  <2> QED BY <2>1, <2>2, RowWrites
<1>5. \A d \in Consumable, v \in User \ Spenders :
        held'[d][v] = IF d = t.consumable /\ v = t.user THEN held[d][v] + t.qty ELSE held[d][v]
  BY <1>0, <1>1, <1>2, Hands
<1>6. /\ quantity'[t.consumable] = quantity[t.consumable] - t.qty /\ quantity[t.consumable] \in Nat
      /\ supply'[t.consumable] = supply[t.consumable] /\ supply[t.consumable] \in Int
      /\ held[t.consumable][t.user] \in Int
      /\ \A d \in Consumable \ {t.consumable} : quantity'[d] = quantity[d] /\ supply'[d] = supply[d]
  BY <1>0, <1>1, <1>2 DEF TypeOK
<1>7. Written(t.issue, t)
  BY <1>1, <1>2, <1>3, <1>4, <1>5, <1>6 DEF Written
<1> QED BY <1>2, <1>7

LEMMA NewWrites ==
  ASSUME StockInv, NEW h \in Handler, IssueNew(h)
  PROVE  \E i \in Issue : Written(i, tx[h])
<1>0. TypeOK /\ IssuesOK /\ ReadStands(h)
  BY DEF StockInv
<1> PICK t : t = tx[h]
  OBVIOUS
<1>1. /\ t.op = "issue" /\ t.at = "write" /\ t.issue = None
      /\ quantity' = [quantity EXCEPT ![t.consumable] = @ - t.qty]
      /\ Hand(t.consumable, t.user, t.qty) /\ UNCHANGED <<supply, overtaken>>
  BY DEF IssueNew, At, TakeFromStock, returnVars
<1>2. t.consumable \in Consumable /\ t.user \in User /\ t.qty \in Nat
  BY <1>1, TxTypes
<1> PICK row : row = [consumable |-> t.consumable, user |-> t.user, quantity |-> t.qty, open |-> TRUE]
  OBVIOUS
<1>3. row.consumable = t.consumable /\ row.user = t.user /\ row.quantity = t.qty
  OBVIOUS
<1> PICK i \in Issue : IsSpare(i) /\ issue' = [issue EXCEPT ![i] = row]
  BY DEF IssueNew
<1>4. /\ issue'[i] = row /\ \A j \in Issue : j # i => issue'[j] = issue[j]
      /\ ~issue[i].open /\ issue[i].quantity = 0
  BY <1>0 DEF TypeOK, IsSpare, IssuesOK
<1>5. OpenIssues(t.consumable, t.user) = {}
  BY <1>0, <1>1 DEF ReadStands
<1>6. \A d \in Consumable, v \in User \ Spenders :
        held'[d][v] = IF d = t.consumable /\ v = t.user THEN held[d][v] + t.qty ELSE held[d][v]
  BY <1>0, <1>1, <1>2, Hands
<1>7. /\ quantity'[t.consumable] = quantity[t.consumable] - t.qty /\ quantity[t.consumable] \in Nat
      /\ supply'[t.consumable] = supply[t.consumable] /\ supply[t.consumable] \in Int
      /\ held[t.consumable][t.user] \in Int
      /\ \A d \in Consumable \ {t.consumable} : quantity'[d] = quantity[d] /\ supply'[d] = supply[d]
  BY <1>0, <1>1, <1>2 DEF TypeOK
<1>8. Written(i, t)
  BY <1>1, <1>2, <1>3, <1>4, <1>5, <1>6, <1>7 DEF Written
<1> QED BY <1>8

LEMMA CloseWrites ==
  ASSUME StockInv, NEW h \in Handler, Close(h)
  PROVE  \E i \in Issue : Written(i, tx[h])
<1>0. TypeOK /\ Knows(tx[h]) /\ ReadStands(h)
  BY DEF StockInv
<1> PICK t : t = tx[h]
  OBVIOUS
<1>1. /\ t.op \in {"return", "loss"} /\ t.at = "write" /\ Reduced(t.issue, t.seen - t.qty)
      /\ Hand(t.consumable, t.user, - t.qty) /\ UNCHANGED overtaken
      /\ \/ quantity' = [quantity EXCEPT ![t.consumable] = @ + t.qty] /\ UNCHANGED supply
         \/ supply' = [supply EXCEPT ![t.consumable] = @ - t.qty] /\ UNCHANGED quantity
  BY DEF Close, returnVars
<1>2. /\ t.consumable \in Consumable /\ t.user \in User /\ t.qty \in Nat /\ t.seen \in Nat
      /\ t.issue \in Issue /\ t.seen - t.qty \in Nat /\ t.issue # None
  BY <1>1, TxTypes
<1>3. /\ issue[t.issue].consumable = t.consumable /\ issue[t.issue].user = t.user
      /\ issue[t.issue].open /\ issue[t.issue].quantity = t.seen
  BY <1>0, <1>1, <1>2 DEF Knows, ReadStands
<1> PICK n \in Nat : n = t.seen - t.qty
  BY <1>2
<1>4. /\ \A j \in Issue : j # t.issue => issue'[j] = issue[j]
      /\ issue'[t.issue].quantity = n /\ issue'[t.issue].consumable = issue[t.issue].consumable
      /\ issue'[t.issue].user = issue[t.issue].user
  BY <1>0, <1>1, <1>2, RowWrites
<1>5. \A d \in Consumable, v \in User \ Spenders :
        held'[d][v] = IF d = t.consumable /\ v = t.user THEN held[d][v] - t.qty ELSE held[d][v]
  <2> PICK m \in Int : m = - t.qty
    BY <1>2
  <2>1. \A d \in Consumable, v \in User \ Spenders :
          held'[d][v] = IF d = t.consumable /\ v = t.user THEN held[d][v] + m ELSE held[d][v]
    BY <1>0, <1>1, <1>2, Hands
  <2> QED BY <1>0, <1>2, <2>1 DEF TypeOK
<1>6. /\ quantity[t.consumable] \in Nat /\ supply[t.consumable] \in Int
      /\ held[t.consumable][t.user] \in Int
      /\ quantity'[t.consumable] - supply'[t.consumable] = quantity[t.consumable] - supply[t.consumable] + t.qty
      /\ quantity'[t.consumable] \in Int /\ supply'[t.consumable] \in Int
      /\ \A d \in Consumable \ {t.consumable} : quantity'[d] = quantity[d] /\ supply'[d] = supply[d]
  <2>1. quantity \in [Consumable -> Nat] /\ supply \in [Consumable -> Int] /\ held[t.consumable][t.user] \in Int
    BY <1>0, <1>2 DEF TypeOK
  <2>2. CASE quantity' = [quantity EXCEPT ![t.consumable] = @ + t.qty] /\ UNCHANGED supply
    BY <1>2, <2>1, <2>2
  <2>3. CASE supply' = [supply EXCEPT ![t.consumable] = @ - t.qty] /\ UNCHANGED quantity
    BY <1>2, <2>1, <2>3
  <2> QED BY <1>1, <2>2, <2>3
<1>7. Written(t.issue, t)
  BY <1>1, <1>2, <1>3, <1>4, <1>5, <1>6 DEF Written
<1> QED BY <1>2, <1>7

LEMMA UseWrites ==
  ASSUME StockInv, NEW h \in Handler, UseWrite(h)
  PROVE  \E i \in Issue : Written(i, tx[h])
<1>0. TypeOK /\ Knows(tx[h])
  BY DEF StockInv
<1> PICK t : t = tx[h]
  OBVIOUS
<1>1. /\ t.op = "use" /\ t.at = "write" /\ (UNCHANGED issue \/ Reduced(t.issue, 0))
      /\ Hand(t.consumable, t.user, - t.qty) /\ UNCHANGED <<quantity, supply, overtaken>>
  BY DEF UseWrite, At, returnVars
<1>2. /\ t.consumable \in Consumable /\ t.user \in User /\ t.qty \in Nat
      /\ t.issue \in Issue /\ t.issue # None
  BY <1>1, TxTypes
<1>3. /\ issue[t.issue].consumable = t.consumable /\ issue[t.issue].user = t.user
      /\ t.user \in Spenders
  BY <1>0, <1>1, <1>2 DEF Knows
<1>4. /\ \A j \in Issue : j # t.issue => issue'[j] = issue[j]
      /\ issue'[t.issue].quantity \in {0, issue[t.issue].quantity}
      /\ issue'[t.issue].consumable = issue[t.issue].consumable
      /\ issue'[t.issue].user = issue[t.issue].user
  BY <1>0, <1>1, <1>2, RowWrites
<1>5. \A d \in Consumable, v \in User \ Spenders : held'[d][v] = held[d][v]
  <2> PICK m \in Int : m = - t.qty
    BY <1>2
  <2>1. \A d \in Consumable, v \in User \ Spenders :
          held'[d][v] = IF d = t.consumable /\ v = t.user THEN held[d][v] + m ELSE held[d][v]
    BY <1>0, <1>1, <1>2, Hands
  <2> QED BY <1>3, <2>1
<1>6. issue[t.issue].quantity \in Nat /\ quantity[t.consumable] \in Nat /\ supply[t.consumable] \in Int
  BY <1>0, <1>2 DEF TypeOK, IssueRow
<1>7. Written(t.issue, t)
  BY <1>1, <1>2, <1>3, <1>4, <1>5, <1>6 DEF Written
<1> QED BY <1>2, <1>7

LEMMA ApprovalWrites ==
  ASSUME StockInv, NEW h \in Handler, SaveApproved(h)
  PROVE  \E i \in Issue : Written(i, tx[h])
<1>0. TypeOK /\ IssuesOK /\ Knows(tx[h])
  BY DEF StockInv
<1> PICK t : t = tx[h]
  OBVIOUS
<1>1. /\ t.op = "approve" /\ t.at = "write"
      /\ issue' = [issue EXCEPT ![t.issue].quantity = t.seen - t.qty]
      /\ quantity' = [quantity EXCEPT ![t.consumable] = t.stock + t.qty]
      /\ Hand(t.consumable, t.user, IF item[t.item].status = "pending" THEN - t.qty ELSE 0)
      /\ overtaken' = IF Overtaken(t) THEN overtaken \cup {t.consumable} ELSE overtaken
      /\ UNCHANGED supply
  BY DEF SaveApproved, At
<1>2. /\ t.consumable \in Consumable /\ t.user \in User /\ t.qty \in Nat /\ t.seen \in Nat
      /\ t.stock \in Nat /\ t.issue \in Issue /\ t.seen - t.qty \in Nat /\ t.issue # None
  BY <1>1, TxTypes
<1>3. issue[t.issue].consumable = t.consumable /\ issue[t.issue].user = t.user /\ t.qty \in Ask
  BY <1>0, <1>1, <1>2 DEF Knows
<1> PICK n \in Nat : n = t.seen - t.qty
  BY <1>2
<1>4. /\ \A j \in Issue : j # t.issue => issue'[j] = issue[j]
      /\ issue'[t.issue].quantity = n /\ issue'[t.issue].consumable = issue[t.issue].consumable
      /\ issue'[t.issue].user = issue[t.issue].user
  <2>1. QuantitySet(t.issue, n)
    BY <1>1 DEF QuantitySet
  <2>2. TypeOK /\ t.issue \in Issue
    BY <1>0, <1>2
  <2> QED BY <2>1, <2>2, RowWrites
<1>5. /\ quantity[t.consumable] \in Nat /\ supply[t.consumable] \in Int
      /\ held[t.consumable][t.user] \in Int /\ issue[t.issue].quantity \in Nat
      /\ quantity'[t.consumable] = t.stock + t.qty /\ supply' = supply
      /\ \A d \in Consumable \ {t.consumable} : quantity'[d] = quantity[d] /\ supply'[d] = supply[d]
  BY <1>0, <1>1, <1>2 DEF TypeOK, IssueRow
<1> PICK m \in Int : m = IF item[t.item].status = "pending" THEN - t.qty ELSE 0
  BY <1>2
<1>6. \A d \in Consumable, v \in User \ Spenders :
        held'[d][v] = IF d = t.consumable /\ v = t.user THEN held[d][v] + m ELSE held[d][v]
  BY <1>0, <1>1, <1>2, Hands
<1>7. t.consumable \notin overtaken' =>
        /\ issue[t.issue].quantity = t.seen /\ quantity[t.consumable] = t.stock /\ m = - t.qty
        /\ issue[t.issue].open
  <2>1. t.consumable \notin overtaken' =>
          /\ issue[t.issue].quantity = t.seen /\ quantity[t.consumable] = t.stock
          /\ item[t.item].status = "pending"
    BY <1>1 DEF Overtaken
  <2>2. t.qty > 0
    BY <1>3, ConsumableAssumption DEF Ask
  <2>3. ~issue[t.issue].open => issue[t.issue].quantity = 0
    BY <1>0, <1>2 DEF IssuesOK
  <2> QED BY <1>2, <2>1, <2>2, <2>3
<1>8. overtaken \subseteq overtaken'
  BY <1>1
<1>9. Written(t.issue, t)
  BY <1>2, <1>3, <1>4, <1>5, <1>6, <1>7, <1>8 DEF Written
<1> QED BY <1>2, <1>9

\* The other steps write no issue and no stock, but a restock, which adds as
\* much to the stock as there is more.
LEMMA OtherWrites ==
  ASSUME StockInv, [Next]_vars,
         \A h \in Handler : ~(IssueMore(h) \/ IssueNew(h) \/ Close(h) \/ UseWrite(h) \/ SaveApproved(h))
  PROVE  /\ UNCHANGED <<issue, held, overtaken>>
         /\ \/ UNCHANGED <<quantity, supply>>
            \/ \E c \in Consumable, q \in Nat :
                  quantity' = [quantity EXCEPT ![c] = @ + q] /\ supply' = [supply EXCEPT ![c] = @ + q]
<1>0. TypeOK /\ ItemsOK /\ Ask \subseteq Nat
  BY ConsumableAssumption DEF StockInv, Ask
<1>1. CASE UNCHANGED vars
  BY <1>1 DEF vars, returnVars
<1>2. CASE \E c \in Consumable, q \in Ask : Restock(c, q)
  BY <1>0, <1>2 DEF Restock, returnVars
<1>3. CASE \E h \in Handler : Rollback(h) \/ IssueLock(h) \/ IssueGet(h) \/ LockIssue(h) \/ UseRead(h)
                              \/ InsertItem(h) \/ SaveDenied(h)
  BY <1>3 DEF Rollback, IssueLock, IssueGet, LockIssue, UseRead, InsertItem, SaveDenied, returnVars
<1>4. CASE \/ \E h \in Handler : \E op, c, u, i, q : Startable(op, c, u, i, q) /\ Begin(h, op, c, u, i, q)
           \/ \E h \in Handler, op \in {"approve", "deny"}, k \in Item : Decide(h, op, k)
  BY <1>4 DEF Begin, Decide, returnVars
<1> QED BY <1>0, <1>1, <1>2, <1>3, <1>4, StepKinds

LEMMA CoveredStep ==
  ASSUME StockInv, StockInv', NoUnitsInvented, [Next]_vars
  PROVE  NoUnitsInvented'
<1> SUFFICES ASSUME NEW d \in Consumable, d \notin overtaken' PROVE Covered(d)'
  BY DEF NoUnitsInvented, Covered
<1>0. TypeOK /\ TypeOK'
  BY DEF StockInv
<1>1. ASSUME NEW h \in Handler, NEW i \in Issue, Written(i, tx[h]) PROVE Covered(d)'
  <2> PICK c : c = tx[h].consumable
    OBVIOUS
  <2>1. /\ c \in Consumable /\ \A k \in Issue : k # i => issue'[k] = issue[k]
        /\ issue'[i].consumable = c /\ (issue[i].consumable = c \/ issue[i].quantity = 0)
        /\ d # c => quantity'[d] = quantity[d] /\ supply'[d] = supply[d]
        /\ d = c => quantity'[d] + issue'[i].quantity - supply'[d] <= quantity[d] + issue[i].quantity - supply[d]
        /\ d \notin overtaken
    BY <1>1 DEF Written
  <2>2. /\ Cardinality(Units(d)) \in Nat /\ Cardinality(Units(d)') \in Nat
        /\ Share(issue, i, d) \in Nat /\ Share(issue', i, d) \in Nat
        /\ Cardinality(Units(d)') - Share(issue', i, d) = Cardinality(Units(d)) - Share(issue, i, d)
    BY <1>0, <2>1, OneRow
  <2>3. quantity[d] + Cardinality(Units(d)) <= supply[d]
    BY <2>1 DEF NoUnitsInvented
  <2>4. /\ quantity[d] \in Int /\ quantity'[d] \in Int /\ supply[d] \in Int /\ supply'[d] \in Int
        /\ issue[i].quantity \in Int /\ issue'[i].quantity \in Int
    BY <1>0 DEF TypeOK, IssueRow
  <2>5. CASE d # c
    <3>1. Share(issue, i, d) = 0 /\ Share(issue', i, d) = 0
      BY <2>1, <2>5 DEF Share
    <3>2. quantity'[d] + Cardinality(Units(d)') <= supply'[d]
      BY <2>1, <2>2, <2>3, <2>4, <2>5, <3>1
    <3> QED BY <3>2 DEF Covered
  <2>6. CASE d = c
    <3>1. Share(issue, i, d) = issue[i].quantity /\ Share(issue', i, d) = issue'[i].quantity
      BY <2>1, <2>6 DEF Share
    <3>2. quantity'[d] + Cardinality(Units(d)') <= supply'[d]
      BY <2>1, <2>2, <2>3, <2>4, <2>6, <3>1
    <3> QED BY <3>2 DEF Covered
  <2> QED BY <2>5, <2>6
<1>2. ASSUME UNCHANGED <<issue, held, overtaken>>,
             \/ UNCHANGED <<quantity, supply>>
             \/ \E c \in Consumable, q \in Nat :
                   quantity' = [quantity EXCEPT ![c] = @ + q] /\ supply' = [supply EXCEPT ![c] = @ + q]
      PROVE  Covered(d)'
  <2>1. Units(d)' = Units(d)
    BY <1>2 DEF Units
  <2>2. Cardinality(Units(d)) \in Nat
    <3>1. Units(d) = UnitsIn(issue, Issue, d)
      BY DEF Units, UnitsIn
    <3> PICK f : f = issue
      OBVIOUS
    <3>2. f \in [Issue -> IssueRow]
      BY <1>0 DEF TypeOK
    <3>3. Cardinality(UnitsIn(f, Issue, d)) \in Nat
      BY <3>2, UnitsFinite
    <3> QED BY <3>1, <3>3
  <2>3. quantity[d] + Cardinality(Units(d)) <= supply[d]
    BY <1>2 DEF NoUnitsInvented
  <2>4. \E q \in Nat : quantity'[d] = quantity[d] + q /\ supply'[d] = supply[d] + q
    BY <1>0, <1>2 DEF TypeOK
  <2>5. quantity[d] \in Int /\ supply[d] \in Int
    BY <1>0 DEF TypeOK
  <2>6. quantity'[d] + Cardinality(Units(d)') <= supply'[d]
    BY <2>1, <2>2, <2>3, <2>4, <2>5
  <2> QED BY <2>6 DEF Covered
<1> QED BY <1>1, <1>2, MoreWrites, NewWrites, CloseWrites, UseWrites, ApprovalWrites, OtherWrites

\* No unit is counted twice: stock and issues together stay within what was
\* stocked and not lost, for every interleaving of issues, returns, losses, uses,
\* restocks and return requests, but for a consumable with an approval that
\* wrote over values that had changed since it read them.
THEOREM StockIsCovered == Spec => []NoUnitsInvented
<1>1. StockInv /\ NoUnitsInvented /\ [Next]_vars => StockInv' /\ NoUnitsInvented'
  BY StockInvStep, CoveredStep
<1> QED BY <1>1, StockInvInit, CoveredInit, PTL DEF Spec
-----------------------------------------------------------------------------
(* What the issues say of the users' hands.                                *)

LEMMA TrackedStep ==
  ASSUME StockInv, StockInv', HoldingsTracked, [Next]_vars
  PROVE  HoldingsTracked'
<1> SUFFICES ASSUME NEW v \in User \ Spenders, NEW d \in Consumable, d \notin overtaken'
             PROVE  Tracked(d, v)'
  BY DEF HoldingsTracked
<1>0. TypeOK /\ IssuesOK /\ IssuesOK' /\ TypeOK'
  BY DEF StockInv
<1>1. ASSUME NEW h \in Handler, NEW i \in Issue, Written(i, tx[h]) PROVE Tracked(d, v)'
  <2> PICK c, u : c = tx[h].consumable /\ u = tx[h].user
    OBVIOUS
  <2>1. /\ \A k \in Issue : k # i => issue'[k] = issue[k]
        /\ issue'[i].consumable = c /\ issue'[i].user = u
        /\ (issue[i].consumable = c /\ issue[i].user = u) \/ ~issue[i].open
        /\ d # c \/ v # u => held'[d][v] = held[d][v]
        /\ d \notin overtaken
    BY <1>1 DEF Written
  <2>2. Tracked(d, v)
    BY <2>1 DEF HoldingsTracked
  <2>3. CASE d = c /\ v = u
    <3>1. /\ held'[d][v] - held[d][v] = issue'[i].quantity - issue[i].quantity
          /\ \/ issue[i].open /\ issue[i].consumable = d /\ issue[i].user = v
             \/ ~issue[i].open /\ OpenIssues(d, v) = {}
      BY <1>1, <2>3 DEF Written
    <3>2. /\ held[d][v] \in Int /\ held'[d][v] \in Int
          /\ issue[i].quantity \in Int /\ issue'[i].quantity \in Int
      BY <1>0 DEF TypeOK, IssueRow
    <3>3. held[d][v] = issue[i].quantity
      <4>1. CASE issue[i].open /\ issue[i].consumable = d /\ issue[i].user = v
        <5>1. i \in OpenIssues(d, v)
          BY <4>1 DEF OpenIssues
        <5> QED BY <2>2, <5>1 DEF Tracked
      <4>2. CASE ~issue[i].open /\ OpenIssues(d, v) = {}
        BY <1>0, <2>2, <4>2 DEF Tracked, IssuesOK
      <4> QED BY <3>1, <4>1, <4>2
    <3>4. held'[d][v] = issue'[i].quantity
      BY <3>1, <3>2, <3>3
    <3>5. OpenIssues(d, v)' \subseteq {i}
      <4>1. \A k \in Issue : k # i =>
              ~(issue[k].open /\ issue[k].consumable = d /\ issue[k].user = v)
        BY <1>0, <3>1 DEF IssuesOK, OpenIssues
      <4> QED BY <2>1, <4>1 DEF OpenIssues
    <3>6. CASE issue'[i].open
      <4>1. i \in OpenIssues(d, v)'
        BY <2>1, <2>3, <3>6 DEF OpenIssues
      <4>2. OpenIssues(d, v)' # {} /\ \A k \in OpenIssues(d, v)' : issue'[k].quantity = held'[d][v]
        BY <3>4, <3>5, <4>1
      <4> QED BY <4>2 DEF Tracked
    <3>7. CASE ~issue'[i].open
      <4>1. i \notin OpenIssues(d, v)'
        BY <3>7 DEF OpenIssues
      <4>2. OpenIssues(d, v)' = {}
        BY <3>5, <4>1
      <4>3. held'[d][v] = 0
        BY <1>0, <3>4, <3>7 DEF IssuesOK
      <4> QED BY <4>2, <4>3 DEF Tracked
    <3> QED BY <3>6, <3>7
  <2>4. CASE d # c \/ v # u
    <3>1. OpenIssues(d, v)' = OpenIssues(d, v) /\ i \notin OpenIssues(d, v)
      BY <2>1, <2>4 DEF OpenIssues
    <3>2. \A k \in OpenIssues(d, v) : issue'[k] = issue[k]
      BY <2>1, <3>1 DEF OpenIssues
    <3> QED BY <2>1, <2>2, <2>4, <3>1, <3>2 DEF Tracked
  <2> QED BY <2>3, <2>4
<1>2. ASSUME UNCHANGED <<issue, held, overtaken>>
      PROVE  Tracked(d, v)'
  <2>1. Tracked(d, v)
    BY <1>2 DEF HoldingsTracked
  <2> QED BY <1>2, <2>1 DEF Tracked, OpenIssues
<1> QED BY <1>1, <1>2, MoreWrites, NewWrites, CloseWrites, UseWrites, ApprovalWrites, OtherWrites

\* "Remaining quantity currently held by the user" is true for everyone who only
\* gets, returns and loses consumables: what the open issue says is what was
\* issued less what was brought back, whatever ran at the same time, again but
\* for consumables with an overtaken approval.
THEOREM HandsAreTracked == Spec => []HoldingsTracked
<1>1. Init => HoldingsTracked
  <2> SUFFICES ASSUME Init, NEW u \in User, NEW c \in Consumable PROVE Tracked(c, u)
    BY DEF HoldingsTracked
  <2>1. \A i \in Issue : ~issue[i].open
    BY DEF Init
  <2>2. OpenIssues(c, u) = {} /\ held[c][u] = 0
    BY <2>1 DEF Init, OpenIssues
  <2> QED BY <2>2 DEF Tracked
<1>2. StockInv /\ HoldingsTracked /\ [Next]_vars => StockInv' /\ HoldingsTracked'
  BY StockInvStep, TrackedStep
<1> QED BY <1>1, <1>2, StockInvInit, PTL DEF Spec
=============================================================================
