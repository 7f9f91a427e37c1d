------------------------ MODULE AccessoryStockProofs ------------------------
(***************************************************************************)
(* Proofs about AccessoryStock, for every number of accessories, users,    *)
(* rows, concurrent requests and units: types, one open assignment per     *)
(* user, no over-assignment without edits, and holdings that match the     *)
(* events.                                                                  *)
(***************************************************************************)
EXTENDS AccessoryStock, FiniteSetTheorems, TLAPS

-----------------------------------------------------------------------------
(* Counting units.                                                         *)

\* The units that the rows of f in R hold of accessory a.
UnitsIn(f, R, a) ==
  UNION {{r} \X (1 .. f[r].quantity) : r \in {s \in R : f[s].open /\ f[s].accessory = a}}

\* assigned_quantity, when the rows are f.
Held(f, a) == Cardinality(UnitsIn(f, Row, a))

\* What row r adds to them.
Share(f, r, a) == IF f[r].open /\ f[r].accessory = a THEN f[r].quantity ELSE 0

\* The units of a finite set of rows are finite.
LEMMA UnitsFinite ==
  ASSUME NEW f \in [Row -> Assignment], NEW R \in SUBSET Row, NEW a
  PROVE  IsFiniteSet(UnitsIn(f, R, a)) /\ Cardinality(UnitsIn(f, R, a)) \in Nat
<1> DEFINE S == {s \in R : f[s].open /\ f[s].accessory = a}
           T == {{r} \X (1 .. f[r].quantity) : r \in S}
<1>1. IsFiniteSet(S)
  BY FS_Subset, StockAssumption, S \in SUBSET Row
<1>2. IsFiniteSet(T)
  <2> DEFINE h == [r \in S |-> {r} \X (1 .. f[r].quantity)]
  <2>1. h \in Surjection(S, T)
    BY DEF Surjection
  <2> HIDE DEF S, T, h
  <2> QED BY <1>1, <2>1, FS_Surjection
<1>3. \A t \in T : IsFiniteSet(t)
  <2> SUFFICES ASSUME NEW r \in S PROVE IsFiniteSet({r} \X (1 .. f[r].quantity))
    OBVIOUS
  <2>1. IsFiniteSet({r})
    BY FS_Singleton
  <2>2. f[r].quantity \in Int
    BY DEF Assignment
  <2>3. IsFiniteSet(1 .. f[r].quantity)
    BY <2>2, FS_Interval
  <2> QED BY <2>1, <2>3, FS_Product
<1>4. UnitsIn(f, R, a) = UNION T
  BY DEF UnitsIn
<1> HIDE DEF T
<1> QED BY <1>2, <1>3, <1>4, FS_UNION, FS_CardinalityType

\* The units of all rows are those of the others and the share of one.
LEMMA UnitsSplit ==
  ASSUME NEW f \in [Row -> Assignment], NEW r \in Row, NEW a
  PROVE  Cardinality(UnitsIn(f, Row, a))
           = Cardinality(UnitsIn(f, Row \ {r}, a)) + Share(f, r, a)
<1> DEFINE Mine == IF f[r].open /\ f[r].accessory = a THEN {r} \X (1 .. f[r].quantity) ELSE {}
           Rest == UnitsIn(f, Row \ {r}, a)
<1>1. UnitsIn(f, Row, a) = Rest \cup Mine
  BY DEF UnitsIn
<1>2. Rest \cap Mine = {}
  BY DEF UnitsIn
<1>3. IsFiniteSet(Rest) /\ Cardinality(Rest) \in Nat
  BY UnitsFinite, Row \ {r} \in SUBSET Row
<1>4. f[r].quantity \in Nat
  BY DEF Assignment
<1>5. IsFiniteSet(Mine) /\ Cardinality(Mine) = Share(f, r, a)
  <2>1. IsFiniteSet({r}) /\ Cardinality({r}) = 1
    BY FS_Singleton
  <2>2. IsFiniteSet(1 .. f[r].quantity) /\ Cardinality(1 .. f[r].quantity) = f[r].quantity
    <3> DEFINE n == f[r].quantity
    <3>1. n \in Nat
      BY <1>4
    <3> HIDE DEF n
    <3>2. IsFiniteSet(1 .. n) /\ Cardinality(1 .. n) = IF 1 > n THEN 0 ELSE n - 1 + 1
      BY <3>1, FS_Interval
    <3>3. IsFiniteSet(1 .. n) /\ Cardinality(1 .. n) = n
      BY <3>1, <3>2
    <3> QED BY <3>3 DEF n
  <2>3. /\ IsFiniteSet({r} \X (1 .. f[r].quantity))
        /\ Cardinality({r} \X (1 .. f[r].quantity)) = 1 * f[r].quantity
    <3> DEFINE A == {r}
               B == 1 .. f[r].quantity
    <3>1. IsFiniteSet(A) /\ Cardinality(A) = 1 /\ IsFiniteSet(B) /\ Cardinality(B) = f[r].quantity
      BY <2>1, <2>2
    <3> HIDE DEF A, B
    <3>2. IsFiniteSet(A \X B) /\ Cardinality(A \X B) = Cardinality(A) * Cardinality(B)
      BY <3>1, FS_Product
    <3>3. IsFiniteSet(A \X B) /\ Cardinality(A \X B) = 1 * f[r].quantity
      BY <3>1, <3>2
    <3> QED BY <3>3 DEF A, B
  <2>4. IsFiniteSet({}) /\ Cardinality({}) = 0
    BY FS_EmptySet
  <2> QED BY <2>3, <2>4, <1>4 DEF Share
<1> HIDE DEF Rest, Mine
<1>6. Cardinality(Rest \cup Mine) = Cardinality(Rest) + Cardinality(Mine) - Cardinality({})
  BY <1>2, <1>3, <1>5, FS_Union
<1>7. Cardinality({}) = 0
  BY FS_EmptySet
<1>8. Share(f, r, a) \in Nat
  BY <1>4 DEF Share
<1> QED BY <1>1, <1>3, <1>5, <1>6, <1>7, <1>8 DEF Rest

\* Changing one row changes the units by its share.
LEMMA UnitsChange ==
  ASSUME NEW f \in [Row -> Assignment], NEW g \in [Row -> Assignment], NEW r \in Row,
         \A s \in Row \ {r} : g[s] = f[s], NEW a
  PROVE  /\ Cardinality(UnitsIn(f, Row, a)) \in Nat
         /\ Cardinality(UnitsIn(g, Row, a)) \in Nat
         /\ Share(f, r, a) \in Nat /\ Share(g, r, a) \in Nat
         /\ Cardinality(UnitsIn(g, Row, a)) - Share(g, r, a)
              = Cardinality(UnitsIn(f, Row, a)) - Share(f, r, a)
<1>1. UnitsIn(g, Row \ {r}, a) = UnitsIn(f, Row \ {r}, a)
  BY DEF UnitsIn
<1>2. Cardinality(UnitsIn(f, Row \ {r}, a)) \in Nat
  BY UnitsFinite, Row \ {r} \in SUBSET Row
<1>3. /\ Cardinality(UnitsIn(f, Row, a)) = Cardinality(UnitsIn(f, Row \ {r}, a)) + Share(f, r, a)
      /\ Cardinality(UnitsIn(g, Row, a)) = Cardinality(UnitsIn(g, Row \ {r}, a)) + Share(g, r, a)
  BY UnitsSplit
<1>4. Share(f, r, a) \in Nat /\ Share(g, r, a) \in Nat
  BY DEF Share, Assignment
<1> QED BY <1>1, <1>2, <1>3, <1>4
-----------------------------------------------------------------------------
(* The invariants.                                                         *)

\* A transaction at work knows its accessory, its user and its quantity, and
\* the row it has chosen stays theirs.
TxOK ==
  \A h \in Handler :
    /\ tx[h].at # "idle" => /\ tx[h].accessory \in Accessory /\ tx[h].user \in User
                            /\ tx[h].qty \in Ask
    /\ tx[h].at \in {"accessory", "own", "get"} => tx[h].row = None
    /\ tx[h].at \in {"row", "close"} => tx[h].row # None
    /\ tx[h].at \in {"row", "close", "write"} /\ tx[h].row # None =>
         /\ row[tx[h].row].accessory = tx[h].accessory
         /\ row[tx[h].row].user = tx[h].user

\* An assigning transaction holds its accessory from the availability check
\* on, a returning one its assignment.
LockOK ==
  \A h \in Handler :
    /\ tx[h].at \in {"get", "write"} => owner[tx[h].accessory] = h
    /\ tx[h].at = "close" => owner[tx[h].row] = h

\* Where get_or_create found no open assignment there still is none.
NoneFound ==
  \A h \in Handler :
    tx[h].at = "write" /\ tx[h].row = None => OpenRows(tx[h].accessory, tx[h].user) = {}

StockInv == TypeOK /\ TxOK /\ LockOK /\ NoneFound /\ OneOpenAssignment

LEMMA StockInvInit ==
  ASSUME Init
  PROVE  StockInv
<1>1. TypeOK
  <2>1. Idle \in Transaction
    BY DEF Idle, Transaction
  <2>2. row \in [Row -> Assignment]
    <3> DEFINE Free0 == [accessory: Accessory, user: User, quantity: {0}, open: {FALSE}]
    <3>1. ASSUME NEW x \in Free0 PROVE x \in Assignment
      <4>1. x = [accessory |-> x.accessory, user |-> x.user, quantity |-> x.quantity, open |-> x.open]
        OBVIOUS
      <4>2. x.accessory \in Accessory /\ x.user \in User /\ x.quantity \in Nat
        OBVIOUS
      <4>3. x.open \in {FALSE}
        OBVIOUS
      <4>4. x.open \in BOOLEAN
        BY <4>3, Zenon
      <4>5. \A a \in Accessory, u \in User, n \in Nat, b \in BOOLEAN :
              [accessory |-> a, user |-> u, quantity |-> n, open |-> b] \in Assignment
        BY DEF Assignment
      <4>6. [accessory |-> x.accessory, user |-> x.user, quantity |-> x.quantity, open |-> x.open]
              \in Assignment
        BY <4>2, <4>4, <4>5, Zenon
      <4> HIDE DEF Free0
      <4> QED BY <4>1, <4>6, Zenon
    <3>2. row \in [Row -> Free0]
      BY DEF Init
    <3> HIDE DEF Free0
    <3> QED BY <3>1, <3>2
  <2>3. quantity \in [Accessory -> Nat]
    BY StockAssumption DEF Init
  <2> QED BY <2>1, <2>2, <2>3 DEF Init, TypeOK
<1>2. TxOK /\ LockOK /\ NoneFound
  BY DEF Init, TxOK, LockOK, NoneFound, Idle
<1>3. OneOpenAssignment
  BY DEF Init, OneOpenAssignment
<1> QED BY <1>1, <1>2, <1>3 DEF StockInv

\* The steps, by what they write.
LEMMA StepKinds ==
  ASSUME TypeOK, [Next]_vars
  PROVE  \/ UNCHANGED vars
         \/ \E h \in Handler : Rollback(h)
         \/ \E h \in Handler, at \in {"accessory", "own"}, a \in Accessory, u \in User, q \in Ask :
              Begin(h, at, a, u, None, q)
         \/ \E h \in Handler, r \in Row, q \in Ask : Begin(h, "row", row[r].accessory, row[r].user, r, q)
         \/ \E h \in Handler : AssignLock(h) \/ AssignGet(h) \/ AssignMore(h) \/ AssignNew(h)
                               \/ ReturnLock(h) \/ Return(h)
         \/ \E a \in Accessory, n \in Nat :
              SetQuantity(a, n) /\ ("edit" \in Endpoints \/ quantity[a] <= n \/ Held(row, a) <= n)
<1>1. CASE \E h \in Handler : Proceed(h)
  BY <1>1 DEF Proceed, AssignRefused, OwnRefused, ReturnRefused, DeadlockAbort
<1>2. CASE \E h \in Handler, q \in Ask, a \in Accessory, u \in User :
             Assign(h, a, u, q) \/ SelfReturn(h, a, u, q) \/ Use(h, a, u, q)
  BY <1>2 DEF Assign, SelfReturn, Use
<1>3. CASE \E h \in Handler, q \in Ask, r \in Row : AdminReturn(h, r, q)
  BY <1>3 DEF AdminReturn
<1>4. CASE \E a \in Accessory, q \in Ask : Condemn(a, q)
  <2> PICK a \in Accessory, q \in Ask : Condemn(a, q)
    BY <1>4
  <2>1. Cardinality(UnitsIn(row, Row, a)) \in Nat
    BY UnitsFinite DEF TypeOK
  <2>2. quantity[a] - q \in Nat
    BY <2>1 DEF Condemn, IsAvailable, Units, UnitsIn, TypeOK, Ask
  <2>3. Held(row, a) <= quantity[a] - q
    BY <2>1 DEF Condemn, IsAvailable, Units, UnitsIn, Held, TypeOK, Ask
  <2> QED BY <2>2, <2>3 DEF Condemn
<1>5. CASE \E a \in Accessory, q \in Ask : Restock(a, q)
  <2> PICK a \in Accessory, q \in Ask : Restock(a, q)
    BY <1>5
  <2>1. quantity[a] + q \in Nat /\ quantity[a] <= quantity[a] + q
    BY DEF TypeOK, Ask
  <2> QED BY <2>1 DEF Restock
<1>6. CASE \E a \in Accessory, n \in 0 .. MaxStock : Edit(a, n)
  BY <1>6 DEF Edit
<1> QED BY <1>1, <1>2, <1>3, <1>4, <1>5, <1>6 DEF Next

\* A row with other contents is a row.
LEMMA RowType ==
  ASSUME NEW r \in Assignment
  PROVE  /\ \A n \in Nat : [r EXCEPT !.quantity = n] \in Assignment
         /\ \A q \in Nat : q <= r.quantity => Reduced(r, q) \in Assignment
<1>1. \A n \in Nat, b \in BOOLEAN : [r EXCEPT !.quantity = n, !.open = b] \in Assignment
  BY DEF Assignment
<1>2. ASSUME NEW q \in Nat, q <= r.quantity PROVE Reduced(r, q) \in Assignment
  <2>1. r.quantity - q \in Nat
    BY <1>2 DEF Assignment
  <2>2. (r.quantity # q) \in BOOLEAN
    OBVIOUS
  <2>3. \A b \in BOOLEAN : [r EXCEPT !.quantity = r.quantity - q, !.open = b] \in Assignment
    BY <1>1, <2>1
  <2> QED BY <2>2, <2>3, Zenon DEF Reduced
<1> QED BY <1>2 DEF Assignment

LEMMA TypeStep ==
  ASSUME TypeOK, TxOK, [Next]_vars
  PROVE  TypeOK'
<1> USE StockAssumption
<1>1. CASE UNCHANGED vars
  BY <1>1 DEF vars, TypeOK
<1>2. ASSUME NEW h \in Handler, Rollback(h) PROVE TypeOK'
  <2>1. Idle \in Transaction
    BY DEF Idle, Transaction
  <2> QED BY <1>2, <2>1 DEF Rollback, End, TypeOK
<1>3. ASSUME NEW h \in Handler, NEW at \in {"accessory", "own", "row"}, NEW a \in Accessory,
             NEW u \in User, NEW r \in Row \cup {None}, NEW q \in Ask, Begin(h, at, a, u, r, q)
      PROVE  TypeOK'
  <2>1. [at |-> at, accessory |-> a, user |-> u, row |-> r, qty |-> q, seen |-> 0] \in Transaction
    BY DEF Transaction
  <2> QED BY <1>3, <2>1 DEF Begin, TypeOK
<1>4. ASSUME NEW h \in Handler, AssignLock(h) PROVE TypeOK'
  <2>1. [tx[h] EXCEPT !.at = "get"] \in Transaction
    BY DEF TypeOK, Transaction
  <2>2. tx[h].accessory \in Accessory
    BY <1>4 DEF AssignLock, TxOK
  <2>3. tx' = [tx EXCEPT ![h] = [tx[h] EXCEPT !.at = "get"]]
    BY <1>4 DEF AssignLock
  <2> QED BY <1>4, <2>1, <2>2, <2>3 DEF AssignLock, TypeOK
<1>5. ASSUME NEW h \in Handler, AssignGet(h) PROVE TypeOK'
  <2>1. ASSUME NEW r \in Row
        PROVE  [tx[h] EXCEPT !.at = "write", !.row = r, !.seen = row[r].quantity] \in Transaction
    BY DEF TypeOK, Transaction, Assignment
  <2>2. [tx[h] EXCEPT !.at = "write"] \in Transaction
    BY DEF TypeOK, Transaction
  <2>3. \/ \E r \in Row : tx' = [tx EXCEPT ![h] = [tx[h] EXCEPT !.at = "write", !.row = r,
                                                          !.seen = row[r].quantity]]
        \/ tx' = [tx EXCEPT ![h] = [tx[h] EXCEPT !.at = "write"]]
    BY <1>5 DEF AssignGet, OpenRows
  <2> QED BY <1>5, <2>1, <2>2, <2>3 DEF AssignGet, TypeOK
<1>6. ASSUME NEW h \in Handler, AssignMore(h) \/ AssignNew(h) \/ Return(h) PROVE TypeOK'
  <2> DEFINE t == tx[h]
  <2>1. /\ t \in Transaction /\ t.accessory \in Accessory /\ t.user \in User /\ t.qty \in Nat
        /\ t.seen \in Nat
    BY <1>6 DEF TypeOK, TxOK, Transaction, AssignMore, AssignNew, Return, Ask
  <2>2. Idle \in Transaction
    BY DEF Idle, Transaction
  <2>3. tx' \in [Handler -> Transaction] /\ owner' \in [Accessory \cup Row -> Handler \cup {None}]
    BY <1>6, <2>2 DEF AssignMore, AssignNew, Return, End, TypeOK
  <2>4. ledger' \in [Accessory -> [User -> Int]]
    <3>1. \E n \in Int : ledger' = [ledger EXCEPT ![t.accessory][t.user] = n]
      <4>1. ledger[t.accessory][t.user] + t.qty \in Int /\ ledger[t.accessory][t.user] - t.qty \in Int
        BY <2>1 DEF TypeOK
      <4> QED BY <1>6, <4>1 DEF AssignMore, AssignNew, Return, Record
    <3> QED BY <2>1, <3>1 DEF TypeOK
  <2>5. row' \in [Row -> Assignment]
    <3>1. CASE AssignMore(h)
      <4>1. t.row \in Row /\ row[t.row] \in Assignment /\ t.seen + t.qty \in Nat
        BY <2>1, <3>1 DEF AssignMore, TypeOK, Transaction
      <4>3. [row[t.row] EXCEPT !.quantity = t.seen + t.qty] \in Assignment
        BY <4>1, RowType
      <4>2. row' = [row EXCEPT ![t.row] = [row[t.row] EXCEPT !.quantity = t.seen + t.qty]]
        BY <3>1 DEF AssignMore
      <4> QED BY <4>1, <4>2, <4>3 DEF TypeOK
    <3>2. CASE AssignNew(h)
      <4>1. [accessory |-> t.accessory, user |-> t.user, quantity |-> t.qty, open |-> TRUE] \in Assignment
        BY <2>1 DEF Assignment
      <4> QED BY <3>2, <4>1 DEF AssignNew, TypeOK
    <3>3. CASE Return(h)
      <4>1. t.row \in Row /\ t.qty <= row[t.row].quantity
        BY <2>1, <3>3 DEF Return, MayClose, TxOK, Transaction
      <4>2. Reduced(row[t.row], t.qty) \in Assignment
        BY <2>1, <4>1, RowType DEF TypeOK
      <4> QED BY <3>3, <4>1, <4>2 DEF Return, TypeOK
    <3> QED BY <1>6, <3>1, <3>2, <3>3
  <2> QED BY <1>6, <2>3, <2>4, <2>5 DEF AssignMore, AssignNew, Return, TypeOK
<1>7. ASSUME NEW h \in Handler, ReturnLock(h) PROVE TypeOK'
  <2>1. PICK r \in Row : /\ owner' = [owner EXCEPT ![r] = h]
                         /\ \/ tx' = [tx EXCEPT ![h] = [tx[h] EXCEPT !.at = "close"]]
                            \/ tx' = [tx EXCEPT ![h] = [tx[h] EXCEPT !.at = "close", !.row = r]]
    BY <1>7 DEF ReturnLock, TxOK, TypeOK, Transaction, OpenRows
  <2>2. /\ [tx[h] EXCEPT !.at = "close"] \in Transaction
        /\ [tx[h] EXCEPT !.at = "close", !.row = r] \in Transaction
    BY DEF TypeOK, Transaction
  <2>3. tx' \in [Handler -> Transaction]
    BY <2>1, <2>2 DEF TypeOK
  <2>4. owner' \in [Accessory \cup Row -> Handler \cup {None}]
    BY <2>1 DEF TypeOK
  <2> QED BY <1>7, <2>3, <2>4 DEF ReturnLock, TypeOK
<1>9. ASSUME NEW a \in Accessory, NEW n \in Nat, SetQuantity(a, n) PROVE TypeOK'
  BY <1>9 DEF SetQuantity, TypeOK
<1>10. ASSUME NEW r \in Row PROVE row[r].accessory \in Accessory /\ row[r].user \in User
  BY DEF TypeOK, Assignment
<1> QED BY <1>1, <1>2, <1>3, <1>4, <1>5, <1>6, <1>7, <1>9, <1>10, StepKinds

\* What a step does to the transaction it belongs to.
LEMMA TxMoves ==
  ASSUME TypeOK, NEW h \in Handler,
         AssignLock(h) \/ AssignGet(h) \/ ReturnLock(h)
  PROVE  /\ UNCHANGED row /\ tx[h].at # "idle"
         /\ \A g \in Handler : g # h => tx'[g] = tx[g]
         /\ tx'[h].accessory = tx[h].accessory /\ tx'[h].user = tx[h].user
         /\ tx'[h].qty = tx[h].qty
         /\ AssignLock(h) => /\ tx'[h].at = "get" /\ tx[h].at = "accessory"
                             /\ tx'[h].row = tx[h].row
         /\ AssignGet(h) => /\ tx'[h].at = "write" /\ tx[h].at = "get"
                            /\ \/ /\ tx'[h].row \in OpenRows(tx[h].accessory, tx[h].user)
                                  /\ tx'[h].seen = row[tx'[h].row].quantity
                               \/ /\ tx'[h].row = tx[h].row
                                  /\ OpenRows(tx[h].accessory, tx[h].user) = {}
         /\ ReturnLock(h) => /\ tx'[h].at = "close"
                             /\ \/ tx[h].at = "row" /\ tx'[h].row = tx[h].row
                                \/ /\ tx[h].at = "own"
                                   /\ tx'[h].row \in OpenRows(tx[h].accessory, tx[h].user)
                             /\ Free(tx'[h].row, h)
                             /\ owner' = [owner EXCEPT ![tx'[h].row] = h]
<1>1. ASSUME NEW t \in Transaction, NEW s, NEW r, NEW n
      PROVE  /\ [t EXCEPT !.at = s].at = s
             /\ [t EXCEPT !.at = s].accessory = t.accessory
             /\ [t EXCEPT !.at = s].user = t.user
             /\ [t EXCEPT !.at = s].row = t.row
             /\ [t EXCEPT !.at = s].qty = t.qty
  BY DEF Transaction
<1>2. ASSUME NEW t \in Transaction, NEW s, NEW r, NEW n
      PROVE  /\ [t EXCEPT !.at = s, !.row = r, !.seen = n].at = s
             /\ [t EXCEPT !.at = s, !.row = r, !.seen = n].accessory = t.accessory
             /\ [t EXCEPT !.at = s, !.row = r, !.seen = n].user = t.user
             /\ [t EXCEPT !.at = s, !.row = r, !.seen = n].row = r
             /\ [t EXCEPT !.at = s, !.row = r, !.seen = n].qty = t.qty
             /\ [t EXCEPT !.at = s, !.row = r, !.seen = n].seen = n
  BY DEF Transaction
<1>3. ASSUME NEW t \in Transaction, NEW s, NEW r
      PROVE  /\ [t EXCEPT !.at = s, !.row = r].at = s
             /\ [t EXCEPT !.at = s, !.row = r].accessory = t.accessory
             /\ [t EXCEPT !.at = s, !.row = r].user = t.user
             /\ [t EXCEPT !.at = s, !.row = r].row = r
             /\ [t EXCEPT !.at = s, !.row = r].qty = t.qty
  BY DEF Transaction
<1>4. tx[h] \in Transaction /\ \A v : [tx EXCEPT ![h] = v][h] = v
  BY DEF TypeOK
<1>5. \A v : \A g \in Handler : g # h => [tx EXCEPT ![h] = v][g] = tx[g]
  BY DEF TypeOK
<1>6. CASE AssignLock(h)
  <2>1. tx' = [tx EXCEPT ![h] = [tx[h] EXCEPT !.at = "get"]]
    BY <1>6 DEF AssignLock
  <2>2. tx'[h] = [tx[h] EXCEPT !.at = "get"]
    BY <2>1, <1>4
  <2>3. UNCHANGED row /\ tx[h].at = "accessory"
    BY <1>6 DEF AssignLock
  <2> QED BY <2>1, <2>2, <2>3, <1>1, <1>4, <1>5 DEF AssignGet, ReturnLock
<1>7. CASE AssignGet(h)
  <2>1. UNCHANGED row /\ tx[h].at = "get"
    BY <1>7 DEF AssignGet
  <2>2. CASE OpenRows(tx[h].accessory, tx[h].user) = {}
    <3>1. tx' = [tx EXCEPT ![h] = [tx[h] EXCEPT !.at = "write"]]
      BY <1>7, <2>2 DEF AssignGet
    <3>2. tx'[h] = [tx[h] EXCEPT !.at = "write"]
      BY <3>1, <1>4
    <3> QED BY <2>1, <2>2, <3>1, <3>2, <1>1, <1>4, <1>5 DEF AssignLock, ReturnLock
  <2>3. CASE OpenRows(tx[h].accessory, tx[h].user) # {}
    <3>1. PICK r \in OpenRows(tx[h].accessory, tx[h].user) :
            tx' = [tx EXCEPT ![h] = [tx[h] EXCEPT !.at = "write", !.row = r,
                                                  !.seen = row[r].quantity]]
      BY <1>7, <2>3 DEF AssignGet
    <3>2. tx'[h] = [tx[h] EXCEPT !.at = "write", !.row = r, !.seen = row[r].quantity]
      BY <3>1, <1>4
    <3> QED BY <2>1, <3>1, <3>2, <1>2, <1>4, <1>5 DEF AssignLock, ReturnLock
  <2> QED BY <2>2, <2>3
<1>8. CASE ReturnLock(h)
  <2>1. CASE tx[h].at = "row"
    <3>1. /\ tx' = [tx EXCEPT ![h] = [tx[h] EXCEPT !.at = "close"]] /\ UNCHANGED row
          /\ Free(tx[h].row, h) /\ owner' = [owner EXCEPT ![tx[h].row] = h]
      BY <1>8, <2>1 DEF ReturnLock
    <3>2. tx'[h] = [tx[h] EXCEPT !.at = "close"]
      BY <3>1, <1>4
    <3> QED BY <2>1, <3>1, <3>2, <1>1, <1>4, <1>5 DEF AssignLock, AssignGet
  <2>2. CASE tx[h].at # "row"
    <3>1. PICK r \in OpenRows(tx[h].accessory, tx[h].user) :
            /\ tx' = [tx EXCEPT ![h] = [tx[h] EXCEPT !.at = "close", !.row = r]] /\ UNCHANGED row
            /\ tx[h].at = "own" /\ Free(r, h) /\ owner' = [owner EXCEPT ![r] = h]
      BY <1>8, <2>2 DEF ReturnLock
    <3>2. tx'[h] = [tx[h] EXCEPT !.at = "close", !.row = r]
      BY <3>1, <1>4
    <3>3. ~AssignLock(h) /\ ~AssignGet(h)
      BY <3>1 DEF AssignLock, AssignGet
    <3>4. /\ tx'[h].at = "close" /\ tx'[h].row = r /\ tx'[h].accessory = tx[h].accessory
          /\ tx'[h].user = tx[h].user /\ tx'[h].qty = tx[h].qty
      BY <3>2, <1>3, <1>4
    <3>5. \A g \in Handler : g # h => tx'[g] = tx[g]
      BY <3>1, <1>5
    <3> QED BY <3>1, <3>3, <3>4, <3>5, <1>8
  <2> QED BY <2>1, <2>2
<1> QED BY <1>6, <1>7, <1>8

\* What an answered request does to the rows and the transactions.
LEMMA TxEnds ==
  ASSUME TypeOK, NEW h \in Handler, End(h)
  PROVE  /\ \A g \in Handler : g # h => tx'[g] = tx[g]
         /\ tx'[h] = Idle
  BY DEF End, TypeOK

LEMMA TxStep ==
  ASSUME TypeOK, TxOK, [Next]_vars
  PROVE  TxOK'
<1> USE StockAssumption
<1>1. CASE UNCHANGED vars
  BY <1>1 DEF vars, TxOK
<1>2. ASSUME NEW h \in Handler, Rollback(h) PROVE TxOK'
  BY <1>2 DEF Rollback, End, Idle, TxOK, TypeOK
<1>3. ASSUME NEW h \in Handler, NEW at \in {"accessory", "own"}, NEW a \in Accessory,
             NEW u \in User, NEW q \in Ask, Begin(h, at, a, u, None, q)
      PROVE  TxOK'
  BY <1>3 DEF Begin, TxOK, TypeOK
<1>4. ASSUME NEW h \in Handler, NEW r \in Row, NEW q \in Ask,
             Begin(h, "row", row[r].accessory, row[r].user, r, q)
      PROVE  TxOK'
  BY <1>4 DEF Begin, TxOK, TypeOK, Assignment
<1>5. ASSUME NEW h \in Handler, AssignLock(h) \/ AssignGet(h) \/ ReturnLock(h) PROVE TxOK'
  <2>1. /\ UNCHANGED row /\ tx[h].at # "idle"
        /\ \A g \in Handler : g # h => tx'[g] = tx[g]
        /\ tx'[h].accessory = tx[h].accessory /\ tx'[h].user = tx[h].user
        /\ tx'[h].qty = tx[h].qty
    BY <1>5, TxMoves
  <2>2. \/ tx'[h].at = "get" /\ tx[h].at = "accessory" /\ tx'[h].row = tx[h].row
        \/ tx'[h].at = "write" /\ tx[h].at = "get" /\ tx'[h].row = tx[h].row
        \/ tx'[h].at = "close" /\ tx[h].at = "row" /\ tx'[h].row = tx[h].row
        \/ /\ tx'[h].row \in OpenRows(tx[h].accessory, tx[h].user)
           /\ tx'[h].at \in {"write", "close"}
    BY <1>5, TxMoves
  <2>3. tx[h].at \in {"get", "accessory"} => tx[h].row = None
    BY DEF TxOK
  <2>4. \A g \in Handler : g # h =>
          /\ tx'[g].at # "idle" => /\ tx'[g].accessory \in Accessory /\ tx'[g].user \in User
                                   /\ tx'[g].qty \in Ask
          /\ tx'[g].at \in {"accessory", "own", "get"} => tx'[g].row = None
          /\ tx'[g].at \in {"row", "close"} => tx'[g].row # None
          /\ tx'[g].at \in {"row", "close", "write"} /\ tx'[g].row # None =>
               /\ row'[tx'[g].row].accessory = tx'[g].accessory
               /\ row'[tx'[g].row].user = tx'[g].user
    BY <2>1 DEF TxOK
  <2>5. /\ tx'[h].accessory \in Accessory /\ tx'[h].user \in User /\ tx'[h].qty \in Ask
    BY <2>1 DEF TxOK
  <2>6. /\ tx'[h].at \in {"accessory", "own", "get"} => tx'[h].row = None
        /\ tx'[h].at \in {"row", "close"} => tx'[h].row # None
        /\ tx'[h].at \in {"row", "close", "write"} /\ tx'[h].row # None =>
             /\ row'[tx'[h].row].accessory = tx'[h].accessory
             /\ row'[tx'[h].row].user = tx'[h].user
    <3>1. CASE tx'[h].row \in OpenRows(tx[h].accessory, tx[h].user)
      BY <2>1, <2>2, <2>3, <3>1 DEF OpenRows
    <3>2. CASE tx'[h].row \notin OpenRows(tx[h].accessory, tx[h].user)
      BY <2>1, <2>2, <2>3, <3>2 DEF TxOK
    <3> QED BY <3>1, <3>2
  <2> QED BY <2>4, <2>5, <2>6 DEF TxOK
<1>6. ASSUME NEW h \in Handler, AssignMore(h) \/ Return(h) PROVE TxOK'
  <2>1. (\A g \in Handler : g # h => tx'[g] = tx[g]) /\ tx'[h] = Idle
    BY <1>6 DEF AssignMore, Return, End, TypeOK
  <2>2. \A r \in Row : row'[r].accessory = row[r].accessory /\ row'[r].user = row[r].user
    <3>1. ASSUME NEW f \in Assignment
          PROVE  /\ \A n : [f EXCEPT !.quantity = n].accessory = f.accessory
                 /\ \A n : [f EXCEPT !.quantity = n].user = f.user
                 /\ \A n : Reduced(f, n).accessory = f.accessory /\ Reduced(f, n).user = f.user
      BY DEF Assignment, Reduced
    <3>2. \A r \in Row : row[r] \in Assignment
      BY DEF TypeOK
    <3>3. CASE AssignMore(h)
      <4> DEFINE n == tx[h].seen + tx[h].qty
      <4>1. row' = [row EXCEPT ![tx[h].row] = [row[tx[h].row] EXCEPT !.quantity = n]]
        BY <3>3 DEF AssignMore
      <4> HIDE DEF n
      <4>2. \A r \in Row : row'[r] = row[r] \/ row'[r] = [row[r] EXCEPT !.quantity = n]
        BY <4>1 DEF TypeOK
      <4> SUFFICES ASSUME NEW r \in Row
                   PROVE  row'[r].accessory = row[r].accessory /\ row'[r].user = row[r].user
        OBVIOUS
      <4>3. /\ [row[r] EXCEPT !.quantity = n].accessory = row[r].accessory
            /\ [row[r] EXCEPT !.quantity = n].user = row[r].user
        BY <3>1, <3>2
      <4> QED BY <4>2, <4>3
    <3>4. CASE Return(h)
      <4>1. \A r \in Row : row'[r] = row[r] \/ \E n : row'[r] = Reduced(row[r], n)
        BY <3>4 DEF Return, TypeOK
      <4> QED BY <3>1, <3>2, <4>1
    <3> QED BY <1>6, <3>3, <3>4
  <2>3. \A g \in Handler : tx[g].row \in Row \cup {None}
    BY DEF TypeOK, Transaction
  <2> QED BY <2>1, <2>2, <2>3 DEF TxOK, Idle
<1>7. ASSUME NEW h \in Handler, AssignNew(h) PROVE TxOK'
  BY <1>7 DEF AssignNew, IsSpare, End, Idle, TxOK, TypeOK, Transaction
<1>9. ASSUME NEW a \in Accessory, NEW n \in Nat, SetQuantity(a, n) PROVE TxOK'
  BY <1>9 DEF SetQuantity, TxOK
<1> QED BY <1>1, <1>2, <1>3, <1>4, <1>5, <1>6, <1>7, <1>9, StepKinds

LEMMA LockStep ==
  ASSUME TypeOK, TxOK, LockOK, [Next]_vars
  PROVE  LockOK'
<1> USE StockAssumption
<1>1. CASE UNCHANGED vars
  BY <1>1 DEF vars, LockOK
<1>2. ASSUME NEW h \in Handler, End(h) PROVE LockOK'
  BY <1>2 DEF End, Idle, LockOK, TxOK, TypeOK, Transaction
<1>3. ASSUME NEW h \in Handler, NEW at \in {"accessory", "own", "row"}, NEW a, NEW u, NEW r, NEW q,
             Begin(h, at, a, u, r, q)
      PROVE  LockOK'
  BY <1>3 DEF Begin, LockOK, TypeOK
<1>4. ASSUME NEW h \in Handler, AssignLock(h) PROVE LockOK'
  BY <1>4 DEF AssignLock, Free, LockOK, TxOK, TypeOK, Transaction
<1>5. ASSUME NEW h \in Handler, AssignGet(h) PROVE LockOK'
  <2>1. (\A g \in Handler : g # h => tx'[g] = tx[g]) /\ UNCHANGED owner
    BY <1>5 DEF AssignGet, TypeOK
  <2> QED BY <1>5, <2>1, TxMoves DEF LockOK
<1>6. ASSUME NEW h \in Handler, ReturnLock(h) PROVE LockOK'
  <2>1. PICK r \in Row : Free(r, h) /\ owner' = [owner EXCEPT ![r] = h] /\ tx'[h].row = r
    <3>1. tx[h].row \in Row \cup {None}
      BY DEF TypeOK, Transaction
    <3>2. tx[h].at = "row" => tx[h].row \in Row
      BY <3>1 DEF TxOK
    <3> QED BY <1>6, <3>1, <3>2, TxMoves DEF OpenRows
  <2>2. (\A g \in Handler : g # h => tx'[g] = tx[g]) /\ tx'[h].at = "close"
    BY <1>6, TxMoves
  <2>3. r \in Accessory \cup Row /\ owner[r] \in {None, h} /\ r \notin Accessory
    BY <2>1 DEF Free
  <2>4. \A g \in Handler : g # h /\ tx[g].at = "close" => owner[tx[g].row] = g /\ tx[g].row # r
    BY <2>3 DEF LockOK
  <2>5. \A x \in Accessory \cup Row : x # r => owner'[x] = owner[x]
    BY <2>1 DEF TypeOK
  <2>6. owner'[r] = h
    BY <2>1, <2>3 DEF TypeOK
  <2>7. ASSUME NEW g \in Handler, tx'[g].at \in {"get", "write"}
        PROVE  owner'[tx'[g].accessory] = g
    <3>1. g # h /\ tx'[g] = tx[g] /\ tx[g].accessory \in Accessory
      BY <2>2, <2>7 DEF TxOK
    <3> QED BY <3>1, <2>3, <2>5, <2>7 DEF LockOK
  <2>8. ASSUME NEW g \in Handler, tx'[g].at = "close", g # h
        PROVE  owner'[tx'[g].row] = g
    <3>1. tx'[g] = tx[g] /\ tx[g].row \in Row
      BY <2>2, <2>8 DEF TxOK, TypeOK, Transaction
    <3> QED BY <3>1, <2>4, <2>5, <2>8
  <2> QED BY <2>1, <2>2, <2>6, <2>7, <2>8 DEF LockOK
<1>8. ASSUME NEW a \in Accessory, NEW n \in Nat, SetQuantity(a, n) PROVE LockOK'
  BY <1>8 DEF SetQuantity, LockOK
<1>9. CASE \E h \in Handler : Rollback(h) \/ AssignMore(h) \/ AssignNew(h) \/ Return(h)
  BY <1>9, <1>2 DEF Rollback, AssignMore, AssignNew, Return
<1>10. CASE \E h \in Handler, at \in {"accessory", "own"}, a \in Accessory, u \in User, q \in Ask :
              Begin(h, at, a, u, None, q)
  BY <1>10, <1>3
<1>11. CASE \E h \in Handler, r \in Row, q \in Ask : Begin(h, "row", row[r].accessory, row[r].user, r, q)
  BY <1>11, <1>3
<1> QED BY <1>1, <1>4, <1>5, <1>6, <1>8, <1>9, <1>10, <1>11, StepKinds

\* Rows keep their users and are not opened.
Kept == \A r \in Row : /\ row'[r].accessory = row[r].accessory
                       /\ row'[r].user = row[r].user
                       /\ row'[r].open => row[r].open

\* Only an assignment opens a row; the others leave a row to its user and may
\* close it.
LEMMA RowsKept ==
  ASSUME TypeOK, [Next]_vars
  PROVE  (\E h \in Handler : AssignNew(h)) \/ Kept
<1> USE StockAssumption
<1>1. CASE UNCHANGED row
  BY <1>1 DEF Kept
<1>2. ASSUME NEW f \in Assignment, NEW n
      PROVE  /\ [f EXCEPT !.quantity = n].accessory = f.accessory
             /\ [f EXCEPT !.quantity = n].user = f.user
             /\ [f EXCEPT !.quantity = n].open = f.open
             /\ Reduced(f, n).accessory = f.accessory /\ Reduced(f, n).user = f.user
  BY DEF Assignment, Reduced
<1>3. \A r \in Row : row[r] \in Assignment
  BY DEF TypeOK
<1>4. ASSUME NEW h \in Handler, AssignMore(h) PROVE Kept
  <2> DEFINE n == tx[h].seen + tx[h].qty
  <2>1. row' = [row EXCEPT ![tx[h].row] = [row[tx[h].row] EXCEPT !.quantity = n]]
    BY <1>4 DEF AssignMore
  <2> HIDE DEF n
  <2>2. \A r \in Row : row'[r] = row[r] \/ row'[r] = [row[r] EXCEPT !.quantity = n]
    BY <2>1 DEF TypeOK
  <2> SUFFICES ASSUME NEW r \in Row
               PROVE  /\ row'[r].accessory = row[r].accessory /\ row'[r].user = row[r].user
                      /\ row'[r].open => row[r].open
    BY DEF Kept
  <2>3. /\ [row[r] EXCEPT !.quantity = n].accessory = row[r].accessory
        /\ [row[r] EXCEPT !.quantity = n].user = row[r].user
        /\ [row[r] EXCEPT !.quantity = n].open = row[r].open
    BY <1>2, <1>3
  <2> QED BY <2>2, <2>3
<1>5. ASSUME NEW x \in Row, NEW n, row' = [row EXCEPT ![x] = Reduced(row[x], n)], row[x].open
      PROVE  Kept
  <2>1. row'[x] = Reduced(row[x], n) /\ \A r \in Row : r # x => row'[r] = row[r]
    BY <1>5 DEF TypeOK
  <2> QED BY <1>2, <1>3, <1>5, <2>1 DEF Kept
<1>6. ASSUME NEW h \in Handler, Return(h) PROVE Kept
  <2>1. tx[h].row \in Row \/ tx[h].row = None
    BY DEF TypeOK, Transaction
  <2>2. CASE tx[h].row \in Row
    BY <1>6, <1>5, <2>2 DEF Return, MayClose
  <2>3. CASE tx[h].row = None
    <3>1. UNCHANGED row
      BY <1>6, <2>3 DEF Return, TypeOK
    <3> QED BY <3>1 DEF Kept
  <2> QED BY <2>1, <2>2, <2>3
<1> QED BY <1>1, <1>4, <1>6, StepKinds
        DEF vars, Rollback, Begin, AssignLock, AssignGet, ReturnLock, SetQuantity

LEMMA NoneFoundStep ==
  ASSUME TypeOK, TxOK, LockOK, NoneFound, [Next]_vars
  PROVE  NoneFound'
<1> USE StockAssumption
<1> SUFFICES ASSUME NEW g \in Handler, tx'[g].at = "write", tx'[g].row = None,
                    NEW r \in Row, row'[r].open, row'[r].accessory = tx'[g].accessory,
                    row'[r].user = tx'[g].user
             PROVE  FALSE
  BY DEF NoneFound, OpenRows
<1>1. CASE \E h \in Handler : AssignNew(h)
  <2> PICK h \in Handler : AssignNew(h)
    BY <1>1
  <2>1. tx'[h] = Idle /\ \A f \in Handler : f # h => tx'[f] = tx[f]
    BY TxEnds DEF AssignNew
  <2>2. g # h /\ tx'[g] = tx[g]
    BY <2>1 DEF Idle
  <2>3. tx[g].accessory # tx[h].accessory
    <3>1. owner[tx[g].accessory] = g /\ owner[tx[h].accessory] = h
      BY <2>2 DEF LockOK, AssignNew
    <3> QED BY <2>2, <3>1
  <2>4. PICK s \in Row : row' = [row EXCEPT ![s] = [accessory |-> tx[h].accessory, user |-> tx[h].user,
                                     quantity |-> tx[h].qty, open |-> TRUE]]
    BY DEF AssignNew
  <2>5. row'[r] = row[r]
    BY <2>2, <2>3, <2>4 DEF TypeOK
  <2> QED BY <2>2, <2>5 DEF NoneFound, OpenRows
<1>2. CASE ~\E h \in Handler : AssignNew(h)
  <2>0. Kept
    BY <1>2, RowsKept
  <2>1. row[r].open /\ row[r].accessory = tx'[g].accessory /\ row[r].user = tx'[g].user
    BY <2>0 DEF Kept
  <2>2. CASE tx'[g] = tx[g]
    BY <2>1, <2>2 DEF NoneFound, OpenRows
  <2>3. CASE tx'[g] # tx[g]
    <3>1. ASSUME NEW h \in Handler, End(h) PROVE FALSE
      BY <3>1, <2>3, TxEnds DEF Idle
    <3>2. ASSUME NEW h \in Handler, NEW at \in {"accessory", "own", "row"}, NEW a, NEW u, NEW x, NEW q,
                 Begin(h, at, a, u, x, q)
          PROVE  FALSE
      BY <3>2, <2>3 DEF Begin, TypeOK
    <3>3. ASSUME NEW h \in Handler, AssignLock(h) \/ AssignGet(h) \/ ReturnLock(h) PROVE FALSE
      <4>1. g = h
        BY <3>3, <2>3, TxMoves
      <4>2. AssignGet(h) /\ tx[h].accessory = tx'[g].accessory /\ tx[h].user = tx'[g].user
        BY <3>3, <4>1, TxMoves
      <4>3. OpenRows(tx[h].accessory, tx[h].user) = {}
        BY <4>1, <4>2, TxMoves DEF OpenRows
      <4> QED BY <2>1, <4>2, <4>3 DEF OpenRows
    <3>4. UNCHANGED tx => FALSE
      BY <2>3
    <3>5. \A h \in Handler : ~Rollback(h) /\ ~AssignMore(h) /\ ~Return(h)
      BY <3>1 DEF Rollback, AssignMore, Return
    <3>6. \A h \in Handler, at \in {"accessory", "own"}, a \in Accessory, u \in User, q \in Ask :
            ~Begin(h, at, a, u, None, q)
      BY <3>2
    <3>7. \A h \in Handler, x \in Row, q \in Ask : ~Begin(h, "row", row[x].accessory, row[x].user, x, q)
      BY <3>2
    <3> QED BY <1>2, <3>3, <3>4, <3>5, <3>6, <3>7, StepKinds DEF vars, SetQuantity
  <2> QED BY <2>2, <2>3
<1> QED BY <1>1, <1>2

LEMMA OneOpenStep ==
  ASSUME TypeOK, NoneFound, OneOpenAssignment, [Next]_vars
  PROVE  OneOpenAssignment'
<1> USE StockAssumption
<1> SUFFICES ASSUME NEW r \in Row, NEW s \in Row, row'[r].open, row'[s].open,
                    row'[r].accessory = row'[s].accessory, row'[r].user = row'[s].user, r # s
             PROVE  FALSE
  BY DEF OneOpenAssignment
<1>1. CASE \E h \in Handler : AssignNew(h)
  <2> PICK h \in Handler : AssignNew(h)
    BY <1>1
  <2>1. PICK x \in Row : row' = [row EXCEPT ![x] = [accessory |-> tx[h].accessory, user |-> tx[h].user,
                                     quantity |-> tx[h].qty, open |-> TRUE]]
    BY DEF AssignNew
  <2>2. /\ row'[x].accessory = tx[h].accessory /\ row'[x].user = tx[h].user
        /\ \A y \in Row : y # x => row'[y] = row[y]
    BY <2>1 DEF TypeOK
  <2>3. OpenRows(tx[h].accessory, tx[h].user) = {}
    BY DEF AssignNew, NoneFound
  <2>4. r # x /\ s # x
    BY <2>2, <2>3 DEF OpenRows
  <2> QED BY <2>2, <2>4 DEF OneOpenAssignment
<1>2. CASE ~\E h \in Handler : AssignNew(h)
  <2>0. Kept
    BY <1>2, RowsKept
  <2> QED BY <2>0 DEF Kept, OneOpenAssignment
<1> QED BY <1>1, <1>2

THEOREM StockSafe == Spec => []StockInv
<1>1. Init => StockInv
  BY StockInvInit
<1>2. StockInv /\ [Next]_vars => StockInv'
  BY TypeStep, TxStep, LockStep, NoneFoundStep, OneOpenStep DEF StockInv
<1> QED BY <1>1, <1>2, PTL DEF Spec

\* Every quantity and every lock stays of its type: nothing is returned, used or
\* condemned that is not there.
THEOREM StockTypeCorrect == Spec => []TypeOK
<1>1. StockInv => TypeOK
  BY DEF StockInv
<1> QED BY <1>1, StockSafe, PTL

\* AssignAccessoryView's get_or_create has no unique constraint behind it: it is
\* the lock on the accessory that keeps one open assignment for each user.
THEOREM AssignmentIsUnique == Spec => []OneOpenAssignment
<1>1. StockInv => OneOpenAssignment
  BY DEF StockInv
<1> QED BY <1>1, StockSafe, PTL
-----------------------------------------------------------------------------
(* Room for what is assigned.                                               *)

\* What an assigning transaction was promised stays free until it is written:
\* with an open assignment, what was read of it counts in place of what is
\* there now.
RoomOK ==
  /\ \A h \in Handler : tx[h].at = "get" \/ (tx[h].at = "write" /\ tx[h].row = None) =>
       Held(row, tx[h].accessory) + tx[h].qty <= quantity[tx[h].accessory]
  /\ \A h \in Handler : tx[h].at = "write" /\ tx[h].row # None =>
       Held(row, tx[h].accessory) - Share(row, tx[h].row, tx[h].accessory) + tx[h].seen + tx[h].qty
         <= quantity[tx[h].accessory]

Fits(a) == Held(row, a) <= quantity[a]

\* A step after which an accessory has too few units is an edit that saves fewer.
Lowered(a) == "edit" \in Endpoints /\ quantity'[a] < quantity[a] /\ UNCHANGED <<row, tx>>
FitsOn == \A a \in Accessory : Fits(a) => Held(row', a) <= quantity'[a] \/ Lowered(a)

RoomInv == StockInv /\ RoomOK

\* Every accessory's units and every row's share are numbers.
LEMMA HeldNat ==
  ASSUME TypeOK
  PROVE  /\ \A a \in Accessory : Held(row, a) \in Nat /\ quantity[a] \in Nat
         /\ \A r \in Row, a \in Accessory : Share(row, r, a) \in Nat
<1>1. \A a \in Accessory : Held(row, a) \in Nat
  BY UnitsFinite DEF Held, TypeOK
<1> QED BY <1>1 DEF TypeOK, Share, Assignment

LEMMA RoomInit ==
  ASSUME Init
  PROVE  RoomOK /\ \A a \in Accessory : Fits(a)
<1>1. TypeOK
  BY StockInvInit DEF StockInv
<1>2. ASSUME NEW a \in Accessory PROVE Held(row, a) = 0
  <2>1. UnitsIn(row, Row, a) = {}
    BY DEF UnitsIn, Init
  <2> QED BY <2>1, FS_EmptySet DEF Held
<1>3. \A h \in Handler : tx[h].at = "idle"
  BY DEF Init, Idle
<1> QED BY <1>1, <1>2, <1>3, HeldNat DEF RoomOK, Fits

\* One row changes; its share and the accessory's units change alike.
LEMMA HeldChange ==
  ASSUME TypeOK, TypeOK', NEW r \in Row, \A s \in Row \ {r} : row'[s] = row[s],
         NEW a \in Accessory
  PROVE  /\ Held(row, a) \in Nat /\ Held(row', a) \in Nat
         /\ Share(row, r, a) \in Nat /\ Share(row', r, a) \in Nat
         /\ Held(row', a) - Share(row', r, a) = Held(row, a) - Share(row, r, a)
<1>1. row \in [Row -> Assignment] /\ row' \in [Row -> Assignment]
  BY DEF TypeOK
<1> DEFINE f == row
           g == row'
<1>3. /\ Cardinality(UnitsIn(f, Row, a)) \in Nat
      /\ Cardinality(UnitsIn(g, Row, a)) \in Nat
      /\ Share(f, r, a) \in Nat /\ Share(g, r, a) \in Nat
      /\ Cardinality(UnitsIn(g, Row, a)) - Share(g, r, a)
           = Cardinality(UnitsIn(f, Row, a)) - Share(f, r, a)
  <2>1. f \in [Row -> Assignment] /\ g \in [Row -> Assignment] /\ \A s \in Row \ {r} : g[s] = f[s]
    BY <1>1
  <2> HIDE DEF f, g
  <2> QED BY <2>1, UnitsChange
<1> QED BY <1>3 DEF Held

\* A step that takes units from one row, or none, leaves the room.
LEMMA RoomShrinks ==
  ASSUME StockInv, StockInv', RoomOK, quantity' = quantity,
         \A g \in Handler : tx'[g] = tx[g] \/ tx'[g].at = "idle",
         NEW r \in Row, \A s \in Row \ {r} : row'[s] = row[s],
         \A a \in Accessory : Share(row', r, a) <= Share(row, r, a)
  PROVE  RoomOK' /\ FitsOn
<1>1. TypeOK /\ TypeOK' /\ TxOK
  BY DEF StockInv
<1>2. ASSUME NEW a \in Accessory
      PROVE  /\ Held(row, a) \in Nat /\ Held(row', a) \in Nat /\ quantity[a] \in Nat
             /\ Held(row', a) <= Held(row, a)
             /\ Share(row, r, a) \in Nat /\ Share(row', r, a) \in Nat
             /\ Held(row', a) - Share(row', r, a) = Held(row, a) - Share(row, r, a)
  BY <1>1, HeldChange, HeldNat
<1>3. FitsOn
  BY <1>2 DEF FitsOn, Fits
<1>4. ASSUME NEW g \in Handler, tx'[g].at = "get" \/ (tx'[g].at = "write" /\ tx'[g].row = None)
      PROVE  Held(row', tx'[g].accessory) + tx'[g].qty <= quantity'[tx'[g].accessory]
  <2>1. /\ tx'[g] = tx[g] /\ tx[g].accessory \in Accessory /\ tx[g].qty \in Nat
        /\ Held(row, tx[g].accessory) + tx[g].qty <= quantity[tx[g].accessory]
    BY <1>1, <1>4 DEF RoomOK, TxOK, Ask
  <2> QED BY <1>2, <2>1
<1>5. ASSUME NEW g \in Handler, tx'[g].at = "write", tx'[g].row # None
      PROVE  (Held(row, tx[g].accessory) - Share(row, tx[g].row, tx[g].accessory) + tx[g].seen + tx[g].qty
               <= quantity[tx[g].accessory])'
  <2> DEFINE t == tx[g]
             a == t.accessory
             x == t.row
  <2>6. tx'[g] = tx[g]
    BY <1>1, <1>5
  <2>7. /\ a \in Accessory /\ t.qty \in Nat /\ t.seen \in Nat /\ x \in Row
    BY <1>1, <1>5, <2>6 DEF TxOK, Ask, TypeOK, Transaction
  <2>1. /\ tx'[g] = tx[g] /\ a \in Accessory /\ t.qty \in Nat /\ t.seen \in Nat /\ x \in Row
        /\ Held(row, a) - Share(row, x, a) + t.seen + t.qty <= quantity[a]
    BY <1>5, <2>6, <2>7 DEF RoomOK
  <2>2. Share(row, x, a) \in Nat /\ Share(row', x, a) \in Nat
    BY <1>1, <2>1 DEF Share, TypeOK, Assignment
  <2>3. Held(row', a) - Share(row', x, a) <= Held(row, a) - Share(row, x, a)
    <3>1. CASE x = r
      BY <1>2, <2>1, <2>2, <3>1
    <3>2. CASE x # r
      <4>1. Share(row', x, a) = Share(row, x, a)
        BY <2>1, <3>2 DEF Share
      <4>2. Held(row', a) <= Held(row, a) /\ Held(row', a) \in Nat /\ Held(row, a) \in Nat
        BY <1>2, <2>1
      <4> HIDE DEF a, x
      <4> QED BY <2>2, <4>1, <4>2
    <3> QED BY <3>1, <3>2
  <2>4. quantity[a] \in Nat /\ Held(row, a) \in Nat /\ Held(row', a) \in Nat
    BY <1>2, <2>1
  <2>5. Held(row', a) - Share(row', x, a) + t.seen + t.qty <= quantity[a]
    <3> HIDE DEF a, x, t
    <3> QED BY <2>1, <2>2, <2>3, <2>4
  <2> QED BY <2>1, <2>5
<1> QED BY <1>3, <1>4, <1>5 DEF RoomOK

\* So does an assignment that was promised the room it takes.
LEMMA RoomTaken ==
  ASSUME StockInv, StockInv', RoomOK, quantity' = quantity, NEW h \in Handler,
         tx[h].at = "write", tx'[h] = Idle, \A g \in Handler : g # h => tx'[g] = tx[g],
         NEW r \in Row, \A s \in Row \ {r} : row'[s] = row[s],
         \A g \in Handler : g # h /\ tx[g].at = "write" => tx[g].row # r,
         \A a \in Accessory : a # tx[h].accessory => Share(row', r, a) = Share(row, r, a),
         Held(row, tx[h].accessory) - Share(row, r, tx[h].accessory)
           + Share(row', r, tx[h].accessory) <= quantity[tx[h].accessory]
  PROVE  RoomOK' /\ FitsOn
<1>1. TypeOK /\ TypeOK' /\ TxOK /\ LockOK
  BY DEF StockInv
<1>2. ASSUME NEW a \in Accessory
      PROVE  /\ Held(row, a) \in Nat /\ Held(row', a) \in Nat /\ quantity[a] \in Nat
             /\ Share(row, r, a) \in Nat /\ Share(row', r, a) \in Nat
             /\ Held(row', a) - Share(row', r, a) = Held(row, a) - Share(row, r, a)
  BY <1>1, HeldChange, HeldNat
<1>3. ASSUME NEW a \in Accessory, a # tx[h].accessory
      PROVE  Held(row', a) = Held(row, a)
  BY <1>2, <1>3
<1>4. FitsOn
  BY <1>2, <1>3 DEF FitsOn, Fits
<1>5. ASSUME NEW g \in Handler, tx'[g].at \in {"get", "write"}
      PROVE  /\ g # h /\ tx'[g] = tx[g] /\ tx[g].accessory \in Accessory
             /\ Held(row', tx[g].accessory) = Held(row, tx[g].accessory)
  <2>1. g # h /\ tx'[g] = tx[g]
    BY <1>5 DEF Idle
  <2>2. tx[g].accessory \in Accessory
    BY <1>1, <1>5, <2>1 DEF TxOK
  <2>3. tx[g].accessory # tx[h].accessory
    BY <1>1, <1>5, <2>1 DEF LockOK
  <2> QED BY <1>3, <2>1, <2>2, <2>3
<1>6. ASSUME NEW g \in Handler, tx'[g].at = "get" \/ (tx'[g].at = "write" /\ tx'[g].row = None)
      PROVE  Held(row', tx'[g].accessory) + tx'[g].qty <= quantity'[tx'[g].accessory]
  BY <1>5, <1>6 DEF RoomOK
<1>7. ASSUME NEW g \in Handler, tx'[g].at = "write", tx'[g].row # None
      PROVE  (Held(row, tx[g].accessory) - Share(row, tx[g].row, tx[g].accessory) + tx[g].seen + tx[g].qty
               <= quantity[tx[g].accessory])'
  <2>1. tx[g].row \in Row \ {r} /\ tx'[g] = tx[g]
    BY <1>1, <1>5, <1>7 DEF TypeOK, Transaction
  <2>2. Share(row', tx[g].row, tx[g].accessory) = Share(row, tx[g].row, tx[g].accessory)
    BY <2>1 DEF Share
  <2>3. Held(row, tx[g].accessory) - Share(row, tx[g].row, tx[g].accessory) + tx[g].seen + tx[g].qty
          <= quantity[tx[g].accessory]
    BY <1>7, <2>1 DEF RoomOK
  <2>4. Held(row', tx[g].accessory) = Held(row, tx[g].accessory)
    BY <1>5, <1>7
  <2> QED BY <2>1, <2>2, <2>3, <2>4
<1> QED BY <1>4, <1>6, <1>7 DEF RoomOK

\* Steps that write no row.
LEMMA RoomIdle ==
  ASSUME StockInv, RoomOK, UNCHANGED row,
         \/ quantity' = quantity /\ (UNCHANGED tx \/ \E h \in Handler : End(h) \/ AssignLock(h)
                                     \/ AssignGet(h) \/ ReturnLock(h)
                                     \/ \E at \in {"accessory", "own", "row"} : \E a, u, r, q : Begin(h, at, a, u, r, q))
         \/ \E a \in Accessory, n \in Nat :
              SetQuantity(a, n) /\ ("edit" \in Endpoints \/ quantity[a] <= n \/ Held(row, a) <= n)
  PROVE  RoomOK' /\ FitsOn
<1>1. TypeOK /\ TxOK /\ LockOK
  BY DEF StockInv
<1>10. quantity' = quantity => FitsOn
  BY DEF FitsOn, Fits
<1>2. ASSUME NEW h \in Handler, quantity' = quantity,
             \A g \in Handler : g # h => tx'[g] = tx[g], tx'[h].at \notin {"get", "write"}
      PROVE  RoomOK' /\ FitsOn
  BY <1>2, <1>10 DEF RoomOK
<1>3. CASE quantity' = quantity /\ UNCHANGED tx
  BY <1>3, <1>10 DEF RoomOK
<1>4. ASSUME NEW h \in Handler, End(h), quantity' = quantity PROVE RoomOK' /\ FitsOn
  BY <1>1, <1>2, <1>4, TxEnds DEF Idle
<1>5. ASSUME NEW h \in Handler, NEW at \in {"accessory", "own", "row"}, NEW a, NEW u, NEW r, NEW q,
             Begin(h, at, a, u, r, q)
      PROVE  RoomOK' /\ FitsOn
  <2>1. (\A g \in Handler : g # h => tx'[g] = tx[g]) /\ tx'[h].at = at /\ quantity' = quantity
    BY <1>1, <1>5 DEF Begin, TypeOK
  <2> QED BY <1>2, <2>1
<1>6. ASSUME NEW h \in Handler, ReturnLock(h) PROVE RoomOK' /\ FitsOn
  <2>1. quantity' = quantity
    BY <1>6 DEF ReturnLock
  <2> QED BY <1>1, <1>2, <1>6, <2>1, TxMoves
<1>7. ASSUME NEW h \in Handler, AssignLock(h) PROVE RoomOK' /\ FitsOn
  <2>1. /\ quantity' = quantity /\ tx[h].at = "accessory"
        /\ Held(row, tx[h].accessory) + tx[h].qty <= quantity[tx[h].accessory]
    BY <1>7 DEF AssignLock, IsAvailable, Units, Held, UnitsIn
  <2>2. /\ \A g \in Handler : g # h => tx'[g] = tx[g]
        /\ tx'[h].at = "get" /\ tx'[h].accessory = tx[h].accessory /\ tx'[h].qty = tx[h].qty
    BY <1>1, <1>7, TxMoves
  <2> QED BY <2>1, <2>2, <1>10 DEF RoomOK
<1>8. ASSUME NEW h \in Handler, AssignGet(h) PROVE RoomOK' /\ FitsOn
  <2>1. quantity' = quantity
    BY <1>8 DEF AssignGet
  <2>2. /\ \A g \in Handler : g # h => tx'[g] = tx[g]
        /\ tx'[h].at = "write" /\ tx'[h].accessory = tx[h].accessory /\ tx'[h].qty = tx[h].qty
        /\ tx[h].at = "get"
        /\ \/ /\ tx'[h].row \in OpenRows(tx[h].accessory, tx[h].user)
              /\ tx'[h].seen = row[tx'[h].row].quantity
           \/ tx'[h].row = tx[h].row
    BY <1>1, <1>8, TxMoves
  <2>3. /\ tx[h].row = None /\ tx[h].accessory \in Accessory /\ tx[h].qty \in Nat
        /\ Held(row, tx[h].accessory) + tx[h].qty <= quantity[tx[h].accessory]
    BY <1>1, <2>2 DEF TxOK, RoomOK, Ask
  <2>4. ASSUME tx'[h].row # None
        PROVE  Held(row, tx[h].accessory) - Share(row, tx'[h].row, tx[h].accessory)
                 + tx'[h].seen + tx[h].qty <= quantity[tx[h].accessory]
    <3>1. tx'[h].row \in OpenRows(tx[h].accessory, tx[h].user)
      BY <2>2, <2>3, <2>4
    <3>2. Share(row, tx'[h].row, tx[h].accessory) = tx'[h].seen
      <4>1. tx'[h].row # tx[h].row
        BY <2>3, <2>4
      <4> QED BY <2>2, <3>1, <4>1 DEF OpenRows, Share
    <3>3. Share(row, tx'[h].row, tx[h].accessory) \in Nat /\ Held(row, tx[h].accessory) \in Nat
          /\ quantity[tx[h].accessory] \in Nat
      BY <1>1, <2>3, <3>1, HeldNat DEF OpenRows
    <3> QED BY <2>3, <3>2, <3>3
  <2> QED BY <2>1, <2>2, <2>3, <2>4, <1>10 DEF RoomOK
<1>9. ASSUME NEW a \in Accessory, NEW n \in Nat, SetQuantity(a, n),
             "edit" \in Endpoints \/ quantity[a] <= n \/ Held(row, a) <= n
      PROVE  RoomOK' /\ FitsOn
  <2>1. /\ UNCHANGED tx /\ owner[a] = None /\ quantity'[a] = n
        /\ \A b \in Accessory : b # a => quantity'[b] = quantity[b]
    BY <1>1, <1>9 DEF SetQuantity, TypeOK
  <2>2. \A h \in Handler : tx[h].at \in {"get", "write"} =>
          tx[h].accessory \in Accessory /\ tx[h].accessory # a
    BY <1>1, <2>1, StockAssumption DEF TxOK, LockOK
  <2>3. RoomOK'
    BY <2>1, <2>2 DEF RoomOK
  <2>4. ASSUME Fits(a) PROVE Held(row', a) <= quantity'[a] \/ Lowered(a)
    <3>1. Held(row, a) \in Nat /\ quantity[a] \in Nat
      BY <1>1, HeldNat
    <3> QED BY <1>9, <2>1, <2>4, <3>1 DEF Fits, Lowered
  <2> QED BY <2>1, <2>3, <2>4 DEF FitsOn, Fits
<1> QED BY <1>3, <1>4, <1>5, <1>6, <1>7, <1>8, <1>9

LEMMA RoomStep ==
  ASSUME StockInv, StockInv', RoomOK, [Next]_vars
  PROVE  RoomOK' /\ FitsOn
<1> USE StockAssumption
<1>1. TypeOK /\ TypeOK' /\ TxOK
  BY DEF StockInv
<1>2. ASSUME NEW h \in Handler, AssignMore(h) PROVE RoomOK' /\ FitsOn
  <2> DEFINE t == tx[h]
             r == t.row
             n == t.seen + t.qty
  <2>1. /\ t.at = "write" /\ r # None /\ r \in Row /\ t.accessory \in Accessory
        /\ t.seen \in Nat /\ t.qty \in Nat
    BY <1>1, <1>2 DEF AssignMore, TypeOK, Transaction, TxOK, Ask
  <2>2. (\A g \in Handler : g # h => tx'[g] = tx[g]) /\ tx'[h] = Idle /\ quantity' = quantity
    BY <1>1, <1>2, TxEnds DEF AssignMore
  <2>3. row' = [row EXCEPT ![r] = [row[r] EXCEPT !.quantity = n]]
    BY <1>2 DEF AssignMore
  <2>4. row[r].accessory = t.accessory
    BY <1>1, <2>1 DEF TxOK
  <2>5. /\ \A s \in Row \ {r} : row'[s] = row[s]
        /\ row'[r].accessory = row[r].accessory /\ row'[r].quantity = n
    <3> HIDE DEF n
    <3>1. row[r] \in Assignment
      BY <1>1, <2>1 DEF TypeOK
    <3>2. row'[r] = [row[r] EXCEPT !.quantity = n]
      BY <1>1, <2>1, <2>3 DEF TypeOK
    <3>3. row'[r].accessory = row[r].accessory /\ row'[r].quantity = n
      BY <3>1, <3>2 DEF Assignment
    <3> QED BY <1>1, <2>1, <2>3, <3>3 DEF TypeOK
  <2>6. ASSUME NEW g \in Handler, g # h, tx[g].at = "write" PROVE tx[g].row # r
    <3>1. tx[g].accessory # t.accessory
      BY <2>1, <2>6 DEF StockInv, LockOK
    <3> QED BY <1>1, <2>1, <2>4, <2>6, <3>1 DEF TxOK
  <2>7. \A a \in Accessory : a # t.accessory => Share(row', r, a) = Share(row, r, a)
    BY <2>4, <2>5 DEF Share
  <2>8. Held(row, t.accessory) - Share(row, r, t.accessory) + Share(row', r, t.accessory)
          <= quantity[t.accessory]
    <3>1. Held(row, t.accessory) - Share(row, r, t.accessory) + t.seen + t.qty <= quantity[t.accessory]
      BY <2>1 DEF RoomOK
    <3>2. Share(row', r, t.accessory) <= n /\ Share(row', r, t.accessory) \in Nat
      BY <2>1, <2>4, <2>5 DEF Share
    <3>3. Held(row, t.accessory) \in Nat /\ Share(row, r, t.accessory) \in Nat
          /\ quantity[t.accessory] \in Nat
      BY <1>1, <2>1, HeldNat
    <3> QED BY <2>1, <3>1, <3>2, <3>3
  <2> HIDE DEF r, n
  <2> QED BY <2>1, <2>2, <2>5, <2>6, <2>7, <2>8, RoomTaken
<1>3. ASSUME NEW h \in Handler, AssignNew(h) PROVE RoomOK' /\ FitsOn
  <2> DEFINE t == tx[h]
  <2>1. /\ t.at = "write" /\ t.row = None /\ t.accessory \in Accessory /\ t.qty \in Nat
    BY <1>1, <1>3 DEF AssignNew, TxOK, Ask
  <2>2. (\A g \in Handler : g # h => tx'[g] = tx[g]) /\ tx'[h] = Idle /\ quantity' = quantity
    BY <1>1, <1>3, TxEnds DEF AssignNew
  <2>3. PICK r \in Row : /\ IsSpare(r)
                         /\ row' = [row EXCEPT ![r] = [accessory |-> t.accessory, user |-> t.user,
                                                       quantity |-> t.qty, open |-> TRUE]]
    BY <1>3 DEF AssignNew
  <2>4. /\ \A s \in Row \ {r} : row'[s] = row[s]
        /\ row'[r].accessory = t.accessory /\ row'[r].quantity = t.qty /\ ~row[r].open
    BY <1>1, <2>3 DEF TypeOK, IsSpare
  <2>5. \A g \in Handler : g # h /\ tx[g].at = "write" => tx[g].row # r
    BY <2>3 DEF IsSpare
  <2>6. \A a \in Accessory : a # t.accessory => Share(row', r, a) = Share(row, r, a)
    BY <2>4 DEF Share
  <2>7. Held(row, t.accessory) - Share(row, r, t.accessory) + Share(row', r, t.accessory)
          <= quantity[t.accessory]
    <3>1. Held(row, t.accessory) + t.qty <= quantity[t.accessory]
      BY <2>1 DEF RoomOK
    <3>2. /\ Share(row, r, t.accessory) = 0 /\ Share(row', r, t.accessory) \in Nat
          /\ Share(row', r, t.accessory) <= t.qty
      BY <2>1, <2>4 DEF Share
    <3>3. Held(row, t.accessory) \in Nat /\ quantity[t.accessory] \in Nat
      BY <1>1, <2>1, HeldNat
    <3> QED BY <2>1, <3>1, <3>2, <3>3
  <2> QED BY <2>1, <2>2, <2>4, <2>5, <2>6, <2>7, RoomTaken
<1>4. ASSUME NEW r \in Row, NEW q \in Ask, quantity' = quantity,
             \A g \in Handler : tx'[g] = tx[g] \/ tx'[g].at = "idle",
             row[r].open, q <= row[r].quantity, row' = [row EXCEPT ![r] = Reduced(row[r], q)]
      PROVE  RoomOK' /\ FitsOn
  <2>1. /\ \A s \in Row \ {r} : row'[s] = row[s]
        /\ row'[r] = Reduced(row[r], q)
    BY <1>1, <1>4 DEF TypeOK
  <2>2. row[r] \in Assignment /\ row[r].quantity \in Nat /\ q \in Nat
    BY <1>1 DEF TypeOK, Assignment, Ask
  <2>3. row'[r].accessory = row[r].accessory /\ row'[r].quantity = row[r].quantity - q
    BY <2>1, <2>2 DEF Reduced, Assignment
  <2>4. \A a \in Accessory : Share(row', r, a) <= Share(row, r, a)
    BY <1>4, <2>2, <2>3 DEF Share
  <2> QED BY <1>4, <2>1, <2>4, RoomShrinks
<1>5. ASSUME NEW h \in Handler, Return(h) PROVE RoomOK' /\ FitsOn
  <2>1. /\ tx[h].row \in Row /\ row[tx[h].row].open /\ tx[h].qty \in Ask
        /\ tx[h].qty <= row[tx[h].row].quantity
    BY <1>1, <1>5 DEF Return, MayClose, TxOK, TypeOK, Transaction
  <2>2. (\A g \in Handler : g # h => tx'[g] = tx[g]) /\ tx'[h] = Idle /\ quantity' = quantity
    BY <1>1, <1>5, TxEnds DEF Return
  <2>3. row' = [row EXCEPT ![tx[h].row] = Reduced(row[tx[h].row], tx[h].qty)]
    BY <1>5 DEF Return
  <2>4. \A g \in Handler : tx'[g] = tx[g] \/ tx'[g].at = "idle"
    BY <2>2 DEF Idle
  <2> QED BY <1>4, <2>1, <2>2, <2>3, <2>4
<1>7. CASE UNCHANGED vars
  BY <1>7, RoomIdle DEF vars
<1>8. CASE \E h \in Handler : Rollback(h)
  BY <1>8, RoomIdle DEF Rollback
<1>9. ASSUME NEW h \in Handler, NEW at \in {"accessory", "own", "row"}, NEW a, NEW u, NEW r, NEW q,
             Begin(h, at, a, u, r, q)
      PROVE  RoomOK' /\ FitsOn
  BY <1>9, RoomIdle DEF Begin
<1>10. CASE \E h \in Handler : AssignLock(h) \/ AssignGet(h) \/ ReturnLock(h)
  BY <1>10, RoomIdle DEF AssignLock, AssignGet, ReturnLock
<1>11. CASE \E a \in Accessory, n \in Nat :
              SetQuantity(a, n) /\ ("edit" \in Endpoints \/ quantity[a] <= n \/ Held(row, a) <= n)
  BY <1>11, RoomIdle DEF SetQuantity
<1>12. CASE \E h \in Handler, at \in {"accessory", "own"}, a \in Accessory, u \in User, q \in Ask :
              Begin(h, at, a, u, None, q)
  BY <1>9, <1>12
<1>13. CASE \E h \in Handler, r \in Row, q \in Ask : Begin(h, "row", row[r].accessory, row[r].user, r, q)
  BY <1>9, <1>13
<1> QED BY <1>1, <1>2, <1>3, <1>5, <1>7, <1>8, <1>10, <1>11, <1>12, <1>13, StepKinds

LEMMA RoomSafe == Spec => []RoomInv
<1>1. Init => RoomInv
  BY StockInvInit, RoomInit DEF RoomInv
<1>2. RoomInv /\ [Next]_vars => RoomInv'
  <2> SUFFICES ASSUME RoomInv, [Next]_vars PROVE RoomInv'
    OBVIOUS
  <2>1. StockInv'
    BY TypeStep, TxStep, LockStep, NoneFoundStep, OneOpenStep DEF RoomInv, StockInv
  <2> QED BY <2>1, RoomStep DEF RoomInv
<1> QED BY <1>1, <1>2, PTL DEF Spec

LEMMA FitsMeans ==
  ASSUME TypeOK, NEW a \in Accessory
  PROVE  Fits(a) <=> IsAvailable(a, 0)
<1>1. Held(row, a) \in Nat
  BY HeldNat
<1> QED BY <1>1 DEF Fits, IsAvailable, Held, Units, UnitsIn

\* The check in AssignAccessoryView holds until the write, whatever edits do in
\* between, and uses and returns only make room: the units of an accessory are
\* exceeded by what is assigned only through an edit that saves fewer units.
THEOREM EditsAloneOverAssign == Spec => OnlyEditsOverAssign
<1> DEFINE Bounded ==
      \A a \in Accessory :
        IsAvailable(a, 0) /\ ~IsAvailable(a, 0)' =>
          "edit" \in Endpoints /\ quantity'[a] < quantity[a] /\ UNCHANGED <<row, tx>>
<1>1. RoomInv /\ RoomInv' /\ [Next]_vars => [Bounded]_vars
  <2> SUFFICES ASSUME RoomInv, RoomInv', [Next]_vars, NEW a \in Accessory,
                      IsAvailable(a, 0), ~IsAvailable(a, 0)'
               PROVE  Lowered(a)
    BY DEF Lowered
  <2>1. StockInv /\ StockInv' /\ TypeOK /\ TypeOK' /\ RoomOK
    BY DEF RoomInv, StockInv
  <2>2. Fits(a)
    BY <2>1, FitsMeans
  <2>3. (Fits(a) <=> IsAvailable(a, 0))'
    BY <2>1, FitsMeans, PTL
  <2>4. ~(Held(row', a) <= quantity'[a])
    BY <2>3 DEF Fits
  <2>5. FitsOn
    BY <2>1, RoomStep
  <2> QED BY <2>2, <2>4, <2>5 DEF FitsOn
<1> QED BY <1>1, RoomSafe, PTL DEF Spec, OnlyEditsOverAssign

\* As long as nobody edits an accessory's quantity, its open assignments never
\* hold more units than are owned.
THEOREM NeverOverAssigned ==
  ASSUME "edit" \notin Endpoints
  PROVE  Spec => []NoOverAssignment
<1> DEFINE AllFit == \A a \in Accessory : Fits(a)
<1>1. Init => AllFit
  BY RoomInit
<1>2. RoomInv /\ RoomInv' /\ AllFit /\ [Next]_vars => AllFit'
  <2> SUFFICES ASSUME RoomInv, RoomInv', AllFit, [Next]_vars PROVE AllFit'
    OBVIOUS
  <2>1. FitsOn
    BY RoomStep DEF RoomInv
  <2>2. \A a \in Accessory : Held(row', a) <= quantity'[a]
    BY <2>1 DEF FitsOn, Lowered
  <2> QED BY <2>2 DEF Fits
<1>3. RoomInv /\ AllFit => NoOverAssignment
  BY FitsMeans DEF RoomInv, StockInv, NoOverAssignment
<1> HIDE DEF AllFit
<1> QED BY <1>1, <1>2, <1>3, RoomSafe, PTL DEF Spec
-----------------------------------------------------------------------------
(* Holdings and events.                                                    *)

\* What get_or_create found stays as it was read until it is written.
SeenOK ==
  \A h \in Handler : tx[h].at = "write" /\ tx[h].row # None =>
    row[tx[h].row].open /\ row[tx[h].row].quantity = tx[h].seen

HoldingsInv == StockInv /\ SeenOK /\ HoldingsMatchEvents

LEMMA HoldingsInit ==
  ASSUME Init
  PROVE  SeenOK /\ HoldingsMatchEvents
BY DEF Init, Idle, SeenOK, HoldingsMatchEvents

\* The steps that leave rows and events alone.
LEMMA HoldingsIdle ==
  ASSUME StockInv, SeenOK, HoldingsMatchEvents, UNCHANGED <<row, ledger>>,
         \/ UNCHANGED tx
         \/ \E h \in Handler : End(h) \/ AssignLock(h) \/ AssignGet(h) \/ ReturnLock(h)
         \/ \E h \in Handler, at \in {"accessory", "own", "row"} :
              \E a, u, r, q : Begin(h, at, a, u, r, q)
  PROVE  SeenOK' /\ HoldingsMatchEvents'
<1>1. TypeOK /\ TxOK
  BY DEF StockInv
<1>2. HoldingsMatchEvents'
  BY DEF HoldingsMatchEvents, OpenRows
<1>3. ASSUME NEW h \in Handler, \A g \in Handler : g # h => tx'[g] = tx[g],
             tx'[h].at = "write" /\ tx'[h].row # None =>
               row[tx'[h].row].open /\ row[tx'[h].row].quantity = tx'[h].seen
      PROVE  SeenOK'
  BY <1>3 DEF SeenOK
<1>4. CASE UNCHANGED tx
  BY <1>2, <1>4 DEF SeenOK
<1>5. ASSUME NEW h \in Handler, End(h) PROVE SeenOK'
  BY <1>1, <1>3, <1>5, TxEnds DEF Idle
<1>6. ASSUME NEW h \in Handler, NEW at \in {"accessory", "own", "row"}, NEW a, NEW u, NEW r, NEW q,
             Begin(h, at, a, u, r, q)
      PROVE  SeenOK'
  <2>1. (\A g \in Handler : g # h => tx'[g] = tx[g]) /\ tx'[h].at = at
    BY <1>1, <1>6 DEF Begin, TypeOK
  <2> QED BY <1>3, <2>1
<1>7. ASSUME NEW h \in Handler, AssignLock(h) \/ ReturnLock(h) PROVE SeenOK'
  <2>1. (\A g \in Handler : g # h => tx'[g] = tx[g]) /\ tx'[h].at \in {"get", "close"}
    BY <1>1, <1>7, TxMoves
  <2> QED BY <1>3, <2>1
<1>8. ASSUME NEW h \in Handler, AssignGet(h) PROVE SeenOK'
  <2>1. /\ \A g \in Handler : g # h => tx'[g] = tx[g]
        /\ tx[h].at = "get"
        /\ \/ /\ tx'[h].row \in OpenRows(tx[h].accessory, tx[h].user)
              /\ tx'[h].seen = row[tx'[h].row].quantity
           \/ tx'[h].row = tx[h].row
    BY <1>1, <1>8, TxMoves
  <2>2. tx[h].row = None
    BY <1>1, <2>1 DEF TxOK
  <2> QED BY <1>3, <2>1, <2>2 DEF OpenRows
<1> QED BY <1>2, <1>4, <1>5, <1>6, <1>7, <1>8

\* A request that sets one row, and the balance of its user to what the row
\* then holds, and no other open row is theirs.
LEMMA HoldingsSet ==
  ASSUME StockInv, SeenOK, HoldingsMatchEvents, NEW h \in Handler, tx'[h] = Idle,
         \A g \in Handler : g # h => tx'[g] = tx[g],
         NEW r \in Row, \A s \in Row \ {r} : row'[s] = row[s],
         \A g \in Handler : g # h /\ tx[g].at = "write" => tx[g].row # r,
         NEW a \in Accessory, NEW u \in User,
         row'[r].accessory = a, row'[r].user = u,
         row[r].open => row[r].accessory = a /\ row[r].user = u,
         \A s \in OpenRows(a, u) : s = r,
         ledger' = [ledger EXCEPT ![a][u] = row'[r].quantity],
         row'[r].open \/ row'[r].quantity = 0
  PROVE  SeenOK' /\ HoldingsMatchEvents'
<1>1. TypeOK
  BY DEF StockInv
<1>2. SeenOK'
  <2> SUFFICES ASSUME NEW g \in Handler, tx'[g].at = "write", tx'[g].row # None
               PROVE  row'[tx'[g].row].open /\ row'[tx'[g].row].quantity = tx'[g].seen
    BY DEF SeenOK
  <2>1. g # h /\ tx'[g] = tx[g]
    BY DEF Idle
  <2>2. tx[g].row \in Row \ {r}
    BY <1>1, <2>1 DEF TypeOK, Transaction
  <2> QED BY <2>1, <2>2 DEF SeenOK
<1>3. ledger'[a][u] = row'[r].quantity
  BY <1>1 DEF TypeOK
<1>4. \A b \in Accessory, v \in User : b # a \/ v # u => ledger'[b][v] = ledger[b][v]
  BY <1>1 DEF TypeOK
<1>5. ASSUME NEW s \in Row
      PROVE  IF row'[s].open THEN row'[s].quantity = ledger'[row'[s].accessory][row'[s].user]
                             ELSE row'[s].quantity = 0
  <2>1. CASE s = r
    BY <1>3, <2>1
  <2>2. CASE s # r
    <3>1. row'[s] = row[s] /\ row[s].accessory \in Accessory /\ row[s].user \in User
      BY <1>1, <2>2 DEF TypeOK, Assignment
    <3>2. row[s].open => row[s].accessory # a \/ row[s].user # u
      BY <2>2 DEF OpenRows
    <3> QED BY <1>4, <3>1, <3>2 DEF HoldingsMatchEvents
  <2> QED BY <2>1, <2>2
<1>6. ASSUME NEW b \in Accessory, NEW v \in User,
             \A s \in Row : ~(row'[s].open /\ row'[s].accessory = b /\ row'[s].user = v)
      PROVE  ledger'[b][v] = 0
  <2>1. CASE b = a /\ v = u
    BY <1>3, <1>6, <2>1
  <2>2. CASE b # a \/ v # u
    <3>1. OpenRows(b, v) = {}
      BY <1>6, <2>2 DEF OpenRows
    <3> QED BY <1>4, <2>2, <3>1 DEF HoldingsMatchEvents
  <2> QED BY <2>1, <2>2
<1>7. HoldingsMatchEvents'
  BY <1>5, <1>6 DEF HoldingsMatchEvents, OpenRows
<1> QED BY <1>2, <1>7

LEMMA HoldingsStep ==
  ASSUME StockInv, SeenOK, HoldingsMatchEvents, [Next]_vars
  PROVE  SeenOK' /\ HoldingsMatchEvents'
<1> USE StockAssumption
<1>1. TypeOK /\ TxOK /\ LockOK /\ NoneFound /\ OneOpenAssignment
  BY DEF StockInv
<1>2. ASSUME NEW h \in Handler, AssignMore(h) PROVE SeenOK' /\ HoldingsMatchEvents'
  <2> DEFINE t == tx[h]
             r == t.row
             n == t.seen + t.qty
  <2>1. /\ t.at = "write" /\ r \in Row /\ t.accessory \in Accessory /\ t.user \in User
        /\ r # None
    BY <1>1, <1>2 DEF AssignMore, TypeOK, Transaction, TxOK
  <2>2. (\A g \in Handler : g # h => tx'[g] = tx[g]) /\ tx'[h] = Idle
    BY <1>1, <1>2, TxEnds DEF AssignMore
  <2>3. /\ row' = [row EXCEPT ![r] = [row[r] EXCEPT !.quantity = n]]
        /\ ledger' = [ledger EXCEPT ![t.accessory][t.user] = ledger[t.accessory][t.user] + t.qty]
    BY <1>2 DEF AssignMore, Record
  <2>4. /\ row[r].accessory = t.accessory /\ row[r].user = t.user
        /\ row[r].open /\ row[r].quantity = t.seen
    BY <1>1, <2>1 DEF TxOK, SeenOK
  <2>5. /\ \A s \in Row \ {r} : row'[s] = row[s]
        /\ row'[r].accessory = row[r].accessory /\ row'[r].user = row[r].user
        /\ row'[r].quantity = n /\ row'[r].open = row[r].open
    <3> HIDE DEF n
    <3>1. row[r] \in Assignment
      BY <1>1, <2>1 DEF TypeOK
    <3>2. row'[r] = [row[r] EXCEPT !.quantity = n]
      BY <1>1, <2>1, <2>3 DEF TypeOK
    <3>3. /\ row'[r].accessory = row[r].accessory /\ row'[r].user = row[r].user
          /\ row'[r].quantity = n /\ row'[r].open = row[r].open
      BY <3>1, <3>2 DEF Assignment
    <3> QED BY <1>1, <2>1, <2>3, <3>3 DEF TypeOK
  <2>6. ASSUME NEW g \in Handler, g # h, tx[g].at = "write" PROVE tx[g].row # r
    <3>1. tx[g].accessory # t.accessory
      BY <1>1, <2>1, <2>6 DEF LockOK
    <3> QED BY <1>1, <2>1, <2>4, <2>6, <3>1 DEF TxOK
  <2>7. ledger[t.accessory][t.user] + t.qty = n
    BY <2>1, <2>4 DEF HoldingsMatchEvents
  <2>8. \A s \in OpenRows(t.accessory, t.user) : s = r
    BY <1>1, <2>1, <2>4 DEF OneOpenAssignment, OpenRows
  <2>9. ledger' = [ledger EXCEPT ![t.accessory][t.user] = row'[r].quantity]
    BY <2>3, <2>5, <2>7
  <2>10. row'[r].accessory = t.accessory /\ row'[r].user = t.user /\ row'[r].open
    BY <2>4, <2>5
  <2> HIDE DEF r, n
  <2> QED BY <2>1, <2>2, <2>4, <2>5, <2>6, <2>8, <2>9, <2>10, HoldingsSet
<1>3. ASSUME NEW h \in Handler, AssignNew(h) PROVE SeenOK' /\ HoldingsMatchEvents'
  <2> DEFINE t == tx[h]
  <2>1. /\ t.at = "write" /\ t.row = None /\ t.accessory \in Accessory /\ t.user \in User
        /\ t.qty \in Nat
    BY <1>1, <1>3 DEF AssignNew, TxOK, Ask
  <2>2. (\A g \in Handler : g # h => tx'[g] = tx[g]) /\ tx'[h] = Idle
    BY <1>1, <1>3, TxEnds DEF AssignNew
  <2>3. PICK r \in Row : /\ IsSpare(r)
                         /\ row' = [row EXCEPT ![r] = [accessory |-> t.accessory, user |-> t.user,
                                                       quantity |-> t.qty, open |-> TRUE]]
    BY <1>3 DEF AssignNew
  <2>4. /\ \A s \in Row \ {r} : row'[s] = row[s]
        /\ row'[r].accessory = t.accessory /\ row'[r].user = t.user
        /\ row'[r].quantity = t.qty /\ row'[r].open /\ ~row[r].open
    BY <1>1, <2>3 DEF TypeOK, IsSpare
  <2>5. \A g \in Handler : g # h /\ tx[g].at = "write" => tx[g].row # r
    BY <2>3 DEF IsSpare
  <2>6. OpenRows(t.accessory, t.user) = {}
    BY <1>1, <2>1 DEF NoneFound
  <2>7. ledger[t.accessory][t.user] = 0
    BY <2>1, <2>6 DEF HoldingsMatchEvents
  <2>8. ledger' = [ledger EXCEPT ![t.accessory][t.user] = row'[r].quantity]
    <3>1. ledger[t.accessory][t.user] + t.qty = row'[r].quantity
      BY <2>1, <2>4, <2>7
    <3>2. ledger' = [ledger EXCEPT ![t.accessory][t.user] = ledger[t.accessory][t.user] + t.qty]
      BY <1>3 DEF AssignNew, Record
    <3> QED BY <3>1, <3>2
  <2> QED BY <2>1, <2>2, <2>4, <2>5, <2>6, <2>8, HoldingsSet
<1>4. ASSUME NEW h \in Handler, Return(h) PROVE SeenOK' /\ HoldingsMatchEvents'
  <2> DEFINE t == tx[h]
             r == t.row
  <2>1. /\ t.at = "close" /\ r \in Row /\ t.accessory \in Accessory /\ t.user \in User
        /\ t.qty \in Nat /\ row[r].open /\ t.qty <= row[r].quantity /\ r # None
        /\ owner[t.accessory] \in {None, h}
    BY <1>1, <1>4 DEF Return, MayClose, Free, TypeOK, Transaction, TxOK, Ask
  <2>2. (\A g \in Handler : g # h => tx'[g] = tx[g]) /\ tx'[h] = Idle
    BY <1>1, <1>4, TxEnds DEF Return
  <2>3. /\ row' = [row EXCEPT ![r] = Reduced(row[r], t.qty)]
        /\ ledger' = [ledger EXCEPT ![t.accessory][t.user] = ledger[t.accessory][t.user] - t.qty]
    BY <1>4 DEF Return, Record
  <2>4. row[r].accessory = t.accessory /\ row[r].user = t.user
    BY <1>1, <2>1 DEF TxOK
  <2>5. row[r] \in Assignment /\ row[r].quantity \in Nat
    BY <1>1, <2>1 DEF TypeOK, Assignment
  <2>6. /\ \A s \in Row \ {r} : row'[s] = row[s]
        /\ row'[r] = Reduced(row[r], t.qty)
    BY <1>1, <2>1, <2>3 DEF TypeOK
  <2>7. /\ row'[r].accessory = t.accessory /\ row'[r].user = t.user
        /\ row'[r].quantity = row[r].quantity - t.qty
        /\ row'[r].open = (row[r].quantity # t.qty)
    <3> DEFINE b == row[r].quantity # t.qty
               m == row[r].quantity - t.qty
    <3>1. row'[r] = [row[r] EXCEPT !.quantity = m, !.open = b]
      BY <2>6 DEF Reduced
    <3> HIDE DEF b, m
    <3>2. row'[r].accessory = row[r].accessory /\ row'[r].user = row[r].user
          /\ row'[r].quantity = m /\ row'[r].open = b
      BY <2>5, <3>1 DEF Assignment
    <3> QED BY <2>4, <3>2 DEF b, m
  <2>8. ASSUME NEW g \in Handler, g # h, tx[g].at = "write" PROVE tx[g].row # r
    <3>1. tx[g].accessory # t.accessory
      BY <1>1, <2>1, <2>8 DEF LockOK
    <3> QED BY <1>1, <2>1, <2>4, <2>8, <3>1 DEF TxOK
  <2>9. \A s \in OpenRows(t.accessory, t.user) : s = r
    BY <1>1, <2>1, <2>4 DEF OneOpenAssignment, OpenRows
  <2>10. ledger' = [ledger EXCEPT ![t.accessory][t.user] = row'[r].quantity]
    <3>1. ledger[t.accessory][t.user] - t.qty = row'[r].quantity
      BY <2>1, <2>4, <2>7 DEF HoldingsMatchEvents
    <3> QED BY <2>3, <3>1
  <2>11. row'[r].open \/ row'[r].quantity = 0
    <3>1. CASE row[r].quantity = t.qty
      BY <2>1, <2>5, <2>7, <3>1
    <3>2. CASE row[r].quantity # t.qty
      <4>1. row'[r].open = TRUE
        BY <2>7, <3>2, Zenon
      <4> QED BY <4>1
    <3> QED BY <3>1, <3>2
  <2> HIDE DEF r
  <2> QED BY <2>1, <2>2, <2>4, <2>6, <2>7, <2>8, <2>9, <2>10, <2>11, HoldingsSet
<1>5. CASE UNCHANGED vars
  BY <1>5, HoldingsIdle DEF vars
<1>6. CASE \E h \in Handler : Rollback(h)
  BY <1>6, HoldingsIdle DEF Rollback
<1>7. ASSUME NEW h \in Handler, NEW at \in {"accessory", "own", "row"}, NEW a, NEW u, NEW r, NEW q,
             Begin(h, at, a, u, r, q)
      PROVE  SeenOK' /\ HoldingsMatchEvents'
  BY <1>7, HoldingsIdle DEF Begin
<1>8. CASE \E h \in Handler : AssignLock(h) \/ AssignGet(h) \/ ReturnLock(h)
  BY <1>8, HoldingsIdle DEF AssignLock, AssignGet, ReturnLock
<1>9. CASE \E a \in Accessory, n \in Nat : SetQuantity(a, n)
  BY <1>9, HoldingsIdle DEF SetQuantity
<1>10. CASE \E h \in Handler, at \in {"accessory", "own"}, a \in Accessory, u \in User, q \in Ask :
              Begin(h, at, a, u, None, q)
  BY <1>7, <1>10
<1>11. CASE \E h \in Handler, r \in Row, q \in Ask : Begin(h, "row", row[r].accessory, row[r].user, r, q)
  BY <1>7, <1>11
<1> QED BY <1>1, <1>2, <1>3, <1>4, <1>5, <1>6, <1>8, <1>9, <1>10, <1>11, StepKinds

\* What a user holds is what the events say: assigning, returning and using
\* meet at the accessory's lock, so none of them is lost.
THEOREM EventsExplainHoldings == Spec => []HoldingsMatchEvents
<1>1. Init => HoldingsInv
  BY StockInvInit, HoldingsInit DEF HoldingsInv
<1>2. HoldingsInv /\ [Next]_vars => HoldingsInv'
  <2> SUFFICES ASSUME HoldingsInv, [Next]_vars PROVE HoldingsInv'
    OBVIOUS
  <2>1. StockInv'
    BY TypeStep, TxStep, LockStep, NoneFoundStep, OneOpenStep DEF HoldingsInv, StockInv
  <2> QED BY <2>1, HoldingsStep DEF HoldingsInv
<1>3. HoldingsInv => HoldingsMatchEvents
  BY DEF HoldingsInv
<1> QED BY <1>1, <1>2, <1>3, PTL DEF Spec
=============================================================================
