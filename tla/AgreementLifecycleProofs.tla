----------------------- MODULE AgreementLifecycleProofs -----------------------
(***************************************************************************)
(* Proofs about AgreementLifecycle, for every number of agreements and     *)
(* callers and every calendar: types, that an agreement is what its        *)
(* history tells, and how an ended agreement comes back.                   *)
(***************************************************************************)
EXTENDS AgreementLifecycle, TLAPS

-----------------------------------------------------------------------------
(* The inductive invariant.                                                *)

\* The fields of an agreement, and the events whose history row tells each.
Field == {"status", "expiry", "renewal"}

Tellers(f) ==
  CASE f = "status" -> {"TERMINATED", "EXPIRED", "RENEWED"}
    [] f = "expiry" -> {"EXTENDED", "RENEWED"}
    [] OTHER -> {"RENEWED"}

\* Agreement a has field f as its history tells it.
Tells(a, f) == \A h \in Told(history[a], Tellers(f)) : agreement[a][f] = h[f]

\* An agreement nothing but the service functions has changed.
Kept(a) == Exists(a) /\ a \notin edited

\* No history row tells field f of a yet, but that of its creation.
Untold(a, f) == \A i \in DOMAIN history[a] : history[a][i].event \notin Tellers(f)

\* A caller between create's two saves: what its CREATED row is going to say
\* of a field is true of the row as long as no other history row tells it.
Stands(p) ==
  client[p].op = "record" =>
    /\ agreement[client[p].id] # Unborn
    /\ Kept(client[p].id) =>
         \A f \in Field : Untold(client[p].id, f) => agreement[client[p].id][f] = client[p].copy[f]

CreationStands == \A p \in Client : Stands(p)

\* The expiry task works on copies of agreements that were active.
SweepKnows == \A c \in sweep : c.copy.status = "ACTIVE"

AgreementInv ==
  /\ TypeOK /\ CreationStands /\ SweepKnows
  /\ \A a \in Agreement : Kept(a) => \A f \in Field : Tells(a, f)
-----------------------------------------------------------------------------
(* What a history tells.                                                   *)

\* The rows of a history that tell about events, and the last of them.
Telling(h, events) ==
  LET saved == {i \in DOMAIN h : h[i].event \in events}
  IN IF saved # {} THEN saved ELSE {i \in DOMAIN h : h[i].event = "CREATED"}

LastOf(S) == {j \in S : \A k \in S : k <= j}

LEMMA ToldIsLast ==
  ASSUME NEW h, NEW events
  PROVE  Told(h, events) = {h[i] : i \in LastOf(Telling(h, events))}
BY DEF Told, Telling, LastOf

\* One more row: it is what is told when it is of the events, or when it is
\* the creation's and nothing else tells; in any other case it changes nothing.
LEMMA ToldAppend ==
  ASSUME NEW h \in Seq(History), NEW e \in History, NEW events, "CREATED" \notin events
  PROVE  /\ e.event \in events => Told(Append(h, e), events) = {e}
         /\ e.event \notin events =>
              \/ Told(Append(h, e), events) = Told(h, events)
              \/ /\ Told(Append(h, e), events) = {e} /\ e.event = "CREATED"
                 /\ \A i \in DOMAIN h : h[i].event \notin events
<1> DEFINE g == Append(h, e)
           n == Len(h) + 1
           saved(s) == {i \in DOMAIN s : s[i].event \in events}
           created(s) == {i \in DOMAIN s : s[i].event = "CREATED"}
<1>1. /\ n \in Nat /\ DOMAIN h = 1 .. Len(h) /\ DOMAIN g = 1 .. n /\ Len(h) \in Nat
      /\ g[n] = e /\ \A i \in DOMAIN h : g[i] = h[i] /\ i \in Int /\ i < n
      /\ DOMAIN g = DOMAIN h \cup {n} /\ n \notin DOMAIN h
  OBVIOUS
<1>2. saved(g) = IF e.event \in events THEN saved(h) \cup {n} ELSE saved(h)
  BY <1>1
<1>3. created(g) = IF e.event = "CREATED" THEN created(h) \cup {n} ELSE created(h)
  BY <1>1
<1>4. saved(h) \subseteq DOMAIN h /\ created(h) \subseteq DOMAIN h
  OBVIOUS
<1> HIDE DEF g, n
<1>5. ASSUME NEW S \in SUBSET DOMAIN h, Telling(g, events) = S \cup {n}
      PROVE  Told(g, events) = {e}
  <2>1. LastOf(S \cup {n}) = {n}
    BY <1>1 DEF LastOf
  <2> QED BY <1>1, <1>5, <2>1, ToldIsLast
<1>6. ASSUME Telling(g, events) = Telling(h, events)
      PROVE  Told(g, events) = Told(h, events)
  <2> DEFINE S == Telling(h, events)
  <2>1. LastOf(S) \subseteq DOMAIN h
    BY DEF LastOf, Telling
  <2>2. \A i \in LastOf(S) : g[i] = h[i]
    BY <1>1, <2>1
  <2>3. {g[i] : i \in LastOf(S)} = {h[i] : i \in LastOf(S)}
    BY <2>2
  <2> QED BY <1>6, <2>3, ToldIsLast
<1>7. Telling(g, events) = (IF saved(g) # {} THEN saved(g) ELSE created(g))
      /\ Telling(h, events) = (IF saved(h) # {} THEN saved(h) ELSE created(h))
  BY DEF Telling
<1> HIDE DEF saved, created
<1>8. CASE e.event \in events
  <2>1. Telling(g, events) = saved(h) \cup {n}
    BY <1>2, <1>7, <1>8
  <2> QED BY <1>4, <1>5, <1>8, <2>1 DEF g
<1>9. CASE e.event \notin events /\ (e.event # "CREATED" \/ saved(h) # {})
  <2>1. Telling(g, events) = Telling(h, events)
    BY <1>2, <1>3, <1>7, <1>9
  <2> QED BY <1>6, <1>9, <2>1 DEF g
<1>10. CASE e.event \notin events /\ e.event = "CREATED" /\ saved(h) = {}
  <2>1. Telling(g, events) = created(h) \cup {n}
    BY <1>2, <1>3, <1>7, <1>10
  <2>2. \A i \in DOMAIN h : h[i].event \notin events
    BY <1>10 DEF saved
  <2> QED BY <1>4, <1>5, <1>10, <2>1, <2>2 DEF g
<1> QED BY <1>8, <1>9, <1>10
-----------------------------------------------------------------------------
(* Types.                                                                  *)

LEMMA RowTypes ==
  /\ \A e \in Event, row \in Row : HistoryRow(e, row) \in History
  /\ \A row \in Row, z \in Status : [row EXCEPT !.status = z] \in Row
  /\ \A row \in Row, d \in Date : [row EXCEPT !.expiry = d] \in Row
BY DEF HistoryRow, History, Row

LEMMA ClientTypes ==
  ASSUME TypeOK, NEW p \in Client, client[p].op # "idle"
  PROVE  client[p].op \in Operation /\ client[p].id \in Agreement /\ client[p].copy \in Row
BY DEF TypeOK, Idle

LEMMA AgreementInit == Init => AgreementInv
<1> SUFFICES ASSUME Init PROVE AgreementInv
  OBVIOUS
<1>1. TypeOK
  BY AgreementAssumption DEF Init, TypeOK, Gone, Date, Exists
<1>2. CreationStands /\ SweepKnows
  BY DEF Init, CreationStands, Stands, SweepKnows, Idle
<1>3. \A a \in Agreement : ~Exists(a)
  BY DEF Init, Exists, Gone
<1> QED BY <1>1, <1>2, <1>3 DEF AgreementInv, Kept

\* What Store keeps of the types.
LEMMA StoreTypes ==
  ASSUME TypeOK, NEW a \in Agreement, NEW stored \in Row, NEW event \in Event, NEW told \in Row,
         Store(a, stored, event, told)
  PROVE  /\ agreement' \in [Agreement -> Row \cup Gone] /\ DOMAIN history' = Agreement
         /\ \A b \in Agreement : history'[b] \in Seq(History) /\ Len(history'[b]) <= MaxHistory
         /\ \A b \in Agreement : ~Exists(b)' => history'[b] = <<>>
<1>1. HistoryRow(event, told) \in History
  BY RowTypes
<1>2. agreement' \in [Agreement -> Row \cup Gone]
  BY DEF Store, TypeOK
<1>3. /\ history[a] \in Seq(History) /\ Len(history[a]) < MaxHistory
      /\ history' = [history EXCEPT ![a] = Append(history[a], HistoryRow(event, told))]
  BY DEF Store, TypeOK
<1>4. /\ Append(history[a], HistoryRow(event, told)) \in Seq(History)
      /\ Len(Append(history[a], HistoryRow(event, told))) <= MaxHistory
  BY <1>1, <1>3, AgreementAssumption
<1>5. /\ DOMAIN history' = Agreement
      /\ \A b \in Agreement : b # a => history'[b] = history[b]
      /\ history'[a] = Append(history[a], HistoryRow(event, told))
  BY <1>3 DEF TypeOK
<1>6. \A b \in Agreement : history'[b] \in Seq(History) /\ Len(history'[b]) <= MaxHistory
  BY <1>4, <1>5 DEF TypeOK
<1>7. \A b \in Agreement : b # a => agreement'[b] = agreement[b]
  BY DEF Store, TypeOK
<1>8. agreement'[a] \notin Gone
  BY RowAssumption DEF Store, TypeOK
<1> QED BY <1>2, <1>5, <1>6, <1>7, <1>8 DEF TypeOK, Exists

LEMMA TypeStep ==
  ASSUME TypeOK, [Next]_vars
  PROVE  TypeOK'
<1> USE AgreementAssumption, RowAssumption
<1> DEFINE Op == [op: Operation, id: Agreement, copy: Row]
           RowsOK == /\ agreement' \in [Agreement -> Row \cup Gone] /\ DOMAIN history' = Agreement
                     /\ \A b \in Agreement : history'[b] \in Seq(History) /\ Len(history'[b]) <= MaxHistory
                     /\ \A b \in Agreement : ~Exists(b)' => history'[b] = <<>>
           ClientOK == client' \in [Client -> {Idle} \cup Op]
<1>1. UNCHANGED <<agreement, history>> => RowsOK
  BY DEF TypeOK, Exists
<1>2. /\ UNCHANGED client => ClientOK
      /\ \A p \in Client : Finish(p) => ClientOK
      /\ \A p \in Client, o \in Op : client' = [client EXCEPT ![p] = o] => ClientOK
  BY DEF TypeOK, Finish
<1>3. ASSUME RowsOK, ClientOK, UNCHANGED <<edited, edits, today, sweep>> PROVE TypeOK'
  BY <1>3 DEF TypeOK
<1> HIDE DEF RowsOK, ClientOK
<1>4. CASE UNCHANGED vars
  BY <1>1, <1>2, <1>3, <1>4 DEF vars
<1>5. ASSUME NEW p \in Client, NEW a \in Agreement, NEW row \in Sent, Create(p, a, row) PROVE TypeOK'
  <2>1. row \in Row
    OBVIOUS
  <2>2. RowsOK
    BY <1>5, <2>1 DEF Create, RowsOK, TypeOK, Exists, Gone
  <2>3. [op |-> "record", id |-> a, copy |-> row] \in Op
    BY <2>1 DEF Operation
  <2> QED BY <1>2, <1>3, <1>5, <2>2, <2>3 DEF Create
<1>6. ASSUME NEW p \in Client, NEW a \in Agreement, NEW op \in Operation, Load(p, a, op) PROVE TypeOK'
  <2>1. agreement[a] \in Row
    BY <1>6 DEF Load, Exists, TypeOK
  <2>2. [op |-> op, id |-> a, copy |-> agreement[a]] \in Op
    BY <2>1
  <2> QED BY <1>1, <1>2, <1>3, <1>6, <2>2 DEF Load
<1>7. ASSUME NEW p \in Client, Refused(p) PROVE TypeOK'
  BY <1>1, <1>2, <1>3, <1>7 DEF Refused
<1>8. ASSUME NEW p \in Client, RecordCreation(p) PROVE TypeOK'
  <2> DEFINE a == client[p].id
             e == HistoryRow("CREATED", client[p].copy)
  <2>1. a \in Agreement /\ client[p].copy \in Row
    BY <1>8, ClientTypes DEF RecordCreation, Doing
  <2>2. e \in History
    BY <2>1, RowTypes DEF Event
  <2>3. Exists(a) /\ Len(history[a]) < MaxHistory /\ history' = [history EXCEPT ![a] = Append(history[a], e)]
    BY <1>8 DEF RecordCreation
  <2> HIDE DEF a, e
  <2>4. Append(history[a], e) \in Seq(History) /\ Len(Append(history[a], e)) <= MaxHistory
    BY <2>1, <2>2, <2>3 DEF TypeOK
  <2>5. RowsOK
    BY <1>8, <2>1, <2>3, <2>4 DEF RecordCreation, RowsOK, TypeOK, Exists
  <2> QED BY <1>2, <1>3, <1>8, <2>5 DEF RecordCreation
<1>9. ASSUME NEW p \in Client, Terminate(p) PROVE TypeOK'
  <2> DEFINE c == client[p]
             copy == [c.copy EXCEPT !.status = "TERMINATED"]
  <2>1. c.id \in Agreement /\ c.copy \in Row
    BY <1>9, ClientTypes DEF Terminate, Doing
  <2>2. copy \in Row
    BY <2>1, RowTypes DEF Status
  <2>3. agreement[c.id] \in Row /\ copy.status \in Status
    BY <1>9, <2>1, <2>2 DEF Terminate, Store, Exists, TypeOK, Row
  <2>4. TerminateSaves(c.id, copy) \in Row
    BY <2>3, RowTypes DEF TerminateSaves
  <2>5. RowsOK
    BY <1>9, <2>1, <2>2, <2>4, StoreTypes DEF Terminate, Event, RowsOK
  <2> QED BY <1>2, <1>3, <1>9, <2>5 DEF Terminate
<1>10. ASSUME NEW p \in Client, NEW d \in Date, Extend(p, d) PROVE TypeOK'
  <2> DEFINE c == client[p]
             copy == [c.copy EXCEPT !.expiry = d]
  <2>1. c.id \in Agreement /\ c.copy \in Row
    BY <1>10, ClientTypes DEF Extend, Doing
  <2>2. agreement[c.id] \in Row
    BY <1>10, <2>1 DEF Extend, Store, Exists, TypeOK
  <2>3. copy \in Row /\ [agreement[c.id] EXCEPT !.expiry = d] \in Row
    BY <2>1, <2>2, RowTypes
  <2>4. RowsOK
    BY <1>10, <2>1, <2>3, StoreTypes DEF Extend, Event, RowsOK
  <2> QED BY <1>2, <1>3, <1>10, <2>4 DEF Extend
<1>11. ASSUME NEW p \in Client, NEW d \in Date, NEW r \in Date, Renew(p, d, r) PROVE TypeOK'
  <2> DEFINE c == client[p]
             copy == [status |-> IF c.copy.status = "EXPIRED" THEN "ACTIVE" ELSE c.copy.status,
                      expiry |-> d, renewal |-> r]
  <2>1. c.id \in Agreement /\ c.copy \in Row
    BY <1>11, ClientTypes DEF Renew, Doing
  <2>2. copy \in Row
    BY <2>1 DEF Row, Status
  <2>3. RowsOK
    BY <1>11, <2>1, <2>2, StoreTypes DEF Renew, Event, RowsOK
  <2> QED BY <1>2, <1>3, <1>11, <2>3 DEF Renew
<1>12. ASSUME NEW p \in Client, NEW fields, NEW sent \in Sent, Edit(p, fields, sent) PROVE TypeOK'
  <2> DEFINE c == client[p]
             row == [f \in DOMAIN sent |-> IF f \in fields THEN sent[f] ELSE c.copy[f]]
  <2>1. c.id \in Agreement /\ c.copy \in Row /\ sent \in Row
    BY <1>12, ClientTypes DEF Edit, Doing
  <2>2. row \in Row
    BY <2>1 DEF Row
  <2>3. agreement' = [agreement EXCEPT ![c.id] = row] /\ UNCHANGED history
    BY <1>12 DEF Edit
  <2> HIDE DEF row
  <2>4. RowsOK
    BY <2>1, <2>2, <2>3 DEF RowsOK, TypeOK, Exists
  <2>5. edited' \subseteq Agreement /\ edits' \in 0 .. MaxEdits
    BY <1>12, <2>1 DEF Edit, TypeOK
  <2> QED BY <1>2, <1>12, <2>4, <2>5 DEF Edit, TypeOK, RowsOK, ClientOK
<1>13. ASSUME NEW a \in Agreement, Delete(a) PROVE TypeOK'
  <2>1. RowsOK
    <3>1. <<>> \in Seq(History) /\ Len(<<>>) = 0
      OBVIOUS
    <3> QED BY <1>13, <3>1 DEF Delete, RowsOK, TypeOK, Exists, Gone
  <2> QED BY <1>2, <1>3, <1>13, <2>1 DEF Delete
<1>14. CASE SweepQuery
  <2>1. sweep' \subseteq [id: Agreement, copy: Row]
    BY <1>14 DEF SweepQuery, Exists, TypeOK
  <2> QED BY <1>1, <1>2, <1>14, <2>1 DEF SweepQuery, TypeOK, RowsOK, ClientOK
<1>15. CASE SweepFails
  BY <1>1, <1>2, <1>15 DEF SweepFails, TypeOK, RowsOK, ClientOK
<1>16. ASSUME NEW c \in sweep, ExpireNext(c) PROVE TypeOK'
  <2> DEFINE copy == [c.copy EXCEPT !.status = "EXPIRED"]
  <2>1. c.id \in Agreement /\ c.copy \in Row
    BY DEF TypeOK
  <2>2. RowsOK
    <3>1. CASE UNCHANGED <<agreement, history>>
      BY <1>1, <3>1
    <3>2. CASE Store(c.id, [agreement[c.id] EXCEPT !.status = "EXPIRED"], "EXPIRED", copy)
      <4>1. agreement[c.id] \in Row
        BY <2>1, <3>2 DEF Store, Exists, TypeOK
      <4>2. copy \in Row /\ [agreement[c.id] EXCEPT !.status = "EXPIRED"] \in Row
        BY <2>1, <4>1, RowTypes DEF Status
      <4> QED BY <2>1, <3>2, <4>2, StoreTypes DEF Event, RowsOK
    <3> QED BY <1>16, <3>1, <3>2 DEF ExpireNext
  <2> QED BY <1>2, <1>16, <2>2 DEF ExpireNext, TypeOK, RowsOK, ClientOK
<1>17. CASE NextDay
  <2>1. today' \in Date
    BY <1>17 DEF NextDay, TypeOK, Date
  <2> QED BY <1>1, <1>2, <1>17, <2>1 DEF NextDay, TypeOK, RowsOK, ClientOK
<1> QED
  BY <1>4, <1>5, <1>6, <1>7, <1>8, <1>9, <1>10, <1>11, <1>12, <1>13, <1>14, <1>15, <1>16, <1>17 DEF Next
-----------------------------------------------------------------------------
(* The row and its history.                                                *)

\* What the steps preserve besides the types.
Faithful == CreationStands /\ \A a \in Agreement : Kept(a) => \A f \in Field : Tells(a, f)

LEMMA TellersTold ==
  /\ \A f \in Field : "CREATED" \notin Tellers(f) /\ Tellers(f) \subseteq Event
  /\ \A f \in Field : f = "status" <=> {"TERMINATED", "EXPIRED"} \cap Tellers(f) # {}
  /\ \A f \in Field : f = "expiry" <=> "EXTENDED" \in Tellers(f)
  /\ \A f \in Field : "RENEWED" \in Tellers(f)
BY DEF Field, Tellers, Event

\* An agreement whose row and history a step leaves alone is still told.
LEMMA Untouched ==
  ASSUME NEW b \in Agreement, NEW f \in Field, Tells(b, f),
         agreement'[b] = agreement[b], history'[b] = history[b]
  PROVE  Tells(b, f)'
BY DEF Tells

\* So are the fields a CREATED row is going to say.
LEMMA UntouchedCreation ==
  ASSUME NEW q \in Client, Stands(q), NEW b, b = client[q].id,
         client'[q].op = "record" => client'[q] = client[q],
         client'[q].op = "record" => agreement'[b] # Unborn,
         Kept(b)' => Kept(b) /\ agreement'[b] = agreement[b],
         \A f \in Field : Untold(b, f)' => Untold(b, f)
  PROVE  Stands(q)'
BY DEF Stands

\* Callers that stand between create's saves after a step did before it.
NoNewCreations ==
  \A p \in Client : client'[p].op = "record" => client'[p] = client[p]

\* Storing a row with its history row: each field the event is about has what
\* the history row says, the other fields are not saved.
LEMMA StoreFaithful ==
  ASSUME TypeOK, Faithful, NEW a \in Agreement, NEW stored \in Row, NEW event \in Event, NEW told \in Row,
         Store(a, stored, event, told), event # "CREATED", UNCHANGED edited, NoNewCreations,
         \A f \in Field : stored[f] = IF event \in Tellers(f) THEN told[f] ELSE agreement[a][f]
  PROVE  Faithful'
<1> USE RowAssumption
<1> DEFINE e == HistoryRow(event, told)
<1>1. /\ agreement' = [agreement EXCEPT ![a] = stored] /\ Exists(a)
      /\ history' = [history EXCEPT ![a] = Append(history[a], e)]
      /\ history[a] \in Seq(History)
  BY DEF Store, TypeOK
<1>2. e \in History /\ e.event = event /\ \A f \in Field : e[f] = told[f]
  BY RowTypes DEF HistoryRow, Field
<1> HIDE DEF e
<1>3. /\ \A b \in Agreement : b # a => agreement'[b] = agreement[b] /\ history'[b] = history[b]
      /\ agreement'[a] = stored /\ history'[a] = Append(history[a], e)
  BY <1>1 DEF TypeOK
<1>4. \A b \in Agreement : Kept(b)' <=> Kept(b)
  BY <1>1, <1>3 DEF Kept, Exists
<1>5. ASSUME NEW f \in Field, Kept(a) PROVE Tells(a, f)'
  <2>1. CASE event \in Tellers(f)
    <3>1. Told(history'[a], Tellers(f)) = {e}
      BY <1>1, <1>2, <1>3, <2>1, ToldAppend, TellersTold
    <3>2. agreement'[a][f] = e[f]
      BY <1>2, <1>3, <2>1
    <3> QED BY <3>1, <3>2 DEF Tells
  <2>2. CASE event \notin Tellers(f)
    <3>1. Told(history'[a], Tellers(f)) = Told(history[a], Tellers(f))
      BY <1>1, <1>2, <1>3, <2>2, ToldAppend, TellersTold
    <3>2. agreement'[a][f] = agreement[a][f]
      BY <1>3, <2>2
    <3> QED BY <1>5, <3>1, <3>2 DEF Tells, Faithful
  <2> QED BY <2>1, <2>2
<1>6. \A b \in Agreement : Kept(b)' => \A f \in Field : Tells(b, f)'
  BY <1>3, <1>4, <1>5, Untouched DEF Faithful
<1>7. ASSUME NEW p \in Client PROVE Stands(p)'
  <2> SUFFICES ASSUME client'[p].op = "record" PROVE Stands(p)'
    BY DEF Stands
  <2>1. client'[p] = client[p] /\ client[p].op = "record"
    BY DEF NoNewCreations
  <2> PICK b \in Agreement : b = client[p].id
    BY <2>1, ClientTypes
  <2>2. Stands(p)
    BY DEF Faithful, CreationStands
  <2>3. CASE b # a
    <3>1. agreement'[b] = agreement[b] /\ \A f \in Field : Untold(b, f)' => Untold(b, f)
      BY <1>3, <2>2, <2>3 DEF Untold
    <3>2. agreement[b] # Unborn
      BY <2>1, <2>2 DEF Stands
    <3> QED BY <1>4, <2>1, <2>2, <3>1, <3>2, UntouchedCreation
  <2>4. CASE b = a
    <3>1. ASSUME NEW f \in Field, Untold(a, f)' PROVE Untold(a, f) /\ event \notin Tellers(f)
      <4>1. /\ Len(history'[a]) = Len(history[a]) + 1 /\ Len(history[a]) \in Nat
            /\ DOMAIN history[a] = 1 .. Len(history[a]) /\ DOMAIN history'[a] = 1 .. (Len(history[a]) + 1)
            /\ history'[a][Len(history[a]) + 1] = e
            /\ \A i \in 1 .. Len(history[a]) : history'[a][i] = history[a][i]
        BY <1>1, <1>2, <1>3
      <4>2. Len(history[a]) + 1 \in 1 .. (Len(history[a]) + 1)
            /\ \A i \in 1 .. Len(history[a]) : i \in 1 .. (Len(history[a]) + 1)
        BY <4>1
      <4> QED BY <1>2, <3>1, <4>1, <4>2 DEF Untold
    <3>2. agreement'[a] # Unborn
      BY <1>1, <1>3 DEF Gone
    <3>3. ASSUME NEW f \in Field, Kept(a)', Untold(a, f)' PROVE agreement'[a][f] = client[p].copy[f]
      <4>1. Untold(a, f) /\ event \notin Tellers(f) /\ Kept(a)
        BY <1>4, <3>1, <3>3
      <4>2. agreement[a][f] = client[p].copy[f]
        BY <2>1, <2>2, <2>4, <4>1 DEF Stands
      <4>3. agreement'[a][f] = agreement[a][f]
        BY <1>3, <4>1
      <4> QED BY <4>2, <4>3
    <3> QED BY <2>1, <2>4, <3>2, <3>3 DEF Stands
  <2> QED BY <2>3, <2>4
<1> QED BY <1>6, <1>7 DEF Faithful, CreationStands

\* Steps that change neither rows nor histories, and start no creation.
LEMMA StillFaithful ==
  ASSUME Faithful, UNCHANGED <<agreement, history, edited>>, NoNewCreations
  PROVE  Faithful'
<1>1. \A a \in Agreement : Kept(a)' => \A f \in Field : Tells(a, f)'
  BY DEF Faithful, Kept, Exists, Tells
<1>2. CreationStands'
  BY DEF Faithful, CreationStands, NoNewCreations, Stands, Kept, Exists, Untold
<1> QED BY <1>1, <1>2 DEF Faithful

LEMMA FaithfulStep ==
  ASSUME AgreementInv, [Next]_vars
  PROVE  Faithful'
<1> USE RowAssumption
<1>0. TypeOK /\ Faithful /\ SweepKnows
  BY DEF AgreementInv, Faithful
<1>1. \A p \in Client : Finish(p) => NoNewCreations
  BY <1>0 DEF Finish, NoNewCreations, TypeOK, Idle
<1>2. UNCHANGED client => NoNewCreations
  BY DEF NoNewCreations
<1>3. CASE UNCHANGED vars
  BY <1>0, <1>2, <1>3, StillFaithful DEF vars
<1>4. ASSUME NEW p \in Client, NEW a \in Agreement, NEW row \in Sent, Create(p, a, row) PROVE Faithful'
  <2>1. agreement' = [agreement EXCEPT ![a] = row] /\ UNCHANGED <<history, edited>> /\ agreement[a] = Unborn
    BY <1>4 DEF Create
  <2>2. \A b \in Agreement : b # a => agreement'[b] = agreement[b]
    BY <1>0, <2>1 DEF TypeOK
  <2>3. agreement'[a] = row /\ row \notin Gone /\ history[a] = <<>>
    BY <1>0, <2>1 DEF TypeOK, Exists, Gone
  <2>4. ASSUME NEW b \in Agreement, Kept(b)', NEW f \in Field PROVE Tells(b, f)'
    <3>1. CASE b = a
      BY <2>1, <2>3, <3>1 DEF Tells, Told
    <3>2. CASE b # a
      BY <1>0, <2>1, <2>2, <2>4, <3>2, Untouched DEF Faithful, Kept, Exists
    <3> QED BY <3>1, <3>2
  <2>5. ASSUME NEW q \in Client PROVE Stands(q)'
    <3>1. CASE q = p
      <4>1. client'[p] = [op |-> "record", id |-> a, copy |-> row]
        BY <1>0, <1>4 DEF Create, TypeOK
      <4> QED BY <2>3, <3>1, <4>1 DEF Stands, Gone
    <3>2. CASE q # p /\ client[q].op = "record"
      <4> PICK b \in Agreement : b = client[q].id
        BY <1>0, <3>2, ClientTypes
      <4>1. client'[q] = client[q]
        BY <1>0, <1>4, <3>2 DEF Create, TypeOK
      <4>2. Stands(q) /\ agreement[b] # Unborn
        BY <1>0, <3>2 DEF Faithful, CreationStands, Stands
      <4>3. agreement'[b] = agreement[b]
        BY <2>1, <2>2, <4>2
      <4>4. (Kept(b)' => Kept(b)) /\ \A f \in Field : Untold(b, f)' => Untold(b, f)
        BY <2>1, <4>3 DEF Kept, Exists, Untold
      <4> QED BY <4>1, <4>2, <4>3, <4>4, UntouchedCreation
    <3>3. CASE q # p /\ client[q].op # "record"
      BY <1>0, <1>4, <3>3 DEF Create, TypeOK, Stands
    <3> QED BY <3>1, <3>2, <3>3
  <2> QED BY <2>4, <2>5 DEF Faithful, CreationStands
<1>5. ASSUME NEW p \in Client, NEW a \in Agreement, NEW op \in Operation \ {"record"}, Load(p, a, op)
      PROVE  Faithful'
  <2>1. NoNewCreations
    BY <1>0, <1>5 DEF Load, NoNewCreations, TypeOK
  <2> QED BY <1>0, <1>5, <2>1, StillFaithful DEF Load
<1>6. ASSUME NEW p \in Client, Refused(p) PROVE Faithful'
  BY <1>0, <1>1, <1>6, StillFaithful DEF Refused
<1>7. ASSUME NEW p \in Client, RecordCreation(p) PROVE Faithful'
  <2>1. client[p].id \in Agreement /\ client[p].copy \in Row /\ client[p].op = "record"
    BY <1>0, <1>7, ClientTypes DEF RecordCreation, Doing
  <2> PICK a \in Agreement : a = client[p].id
    BY <2>1
  <2> PICK e : e = HistoryRow("CREATED", client[p].copy)
    OBVIOUS
  <2>2. e \in History /\ e.event = "CREATED" /\ \A f \in Field : e[f] = client[p].copy[f]
    BY <2>1, RowTypes DEF Event, HistoryRow, Field
  <2>3. /\ history' = [history EXCEPT ![a] = Append(history[a], e)]
        /\ UNCHANGED <<agreement, edited>>
    BY <1>7 DEF RecordCreation
  <2>4. history'[a] = Append(history[a], e) /\ history[a] \in Seq(History)
        /\ \A b \in Agreement : b # a => history'[b] = history[b]
    BY <1>0, <2>1, <2>3 DEF TypeOK
  <2>5. Kept(a) => \A f \in Field : Untold(a, f) => agreement[a][f] = client[p].copy[f]
    BY <1>0, <2>1 DEF Faithful, CreationStands, Stands
  <2>6. ASSUME NEW f \in Field, Kept(a) PROVE Tells(a, f)'
    <3>1. e.event \notin Tellers(f)
      BY <2>2, TellersTold
    <3>2. \/ Told(history'[a], Tellers(f)) = Told(history[a], Tellers(f))
          \/ Told(history'[a], Tellers(f)) = {e} /\ \A i \in DOMAIN history[a] : history[a][i].event \notin Tellers(f)
      BY <2>2, <2>4, <3>1, ToldAppend, TellersTold
    <3>3. CASE Told(history'[a], Tellers(f)) = Told(history[a], Tellers(f))
      BY <1>0, <2>1, <2>3, <2>6, <3>3 DEF Faithful, Tells
    <3>4. CASE /\ Told(history'[a], Tellers(f)) = {e}
               /\ \A i \in DOMAIN history[a] : history[a][i].event \notin Tellers(f)
      <4>1. agreement[a][f] = e[f]
        BY <2>2, <2>5, <2>6, <3>4 DEF Untold
      <4> QED BY <2>3, <3>4, <4>1 DEF Tells
    <3> QED BY <3>2, <3>3, <3>4
  <2>7. \A b \in Agreement : Kept(b)' <=> Kept(b)
    BY <2>3 DEF Kept, Exists
  <2>8. \A b \in Agreement : Kept(b)' => \A f \in Field : Tells(b, f)'
    BY <1>0, <2>3, <2>4, <2>6, <2>7, Untouched DEF Faithful
  <2>9. ASSUME NEW q \in Client PROVE Stands(q)'
    <3> SUFFICES ASSUME client'[q].op = "record" PROVE Stands(q)'
      BY DEF Stands
    <3>1. client'[q] = client[q]
      BY <1>1, <1>7 DEF RecordCreation, NoNewCreations
    <3> PICK b \in Agreement : b = client[q].id
      BY <1>0, <3>1, ClientTypes
    <3>2. Stands(q) /\ agreement[b] # Unborn
      BY <1>0, <3>1 DEF Faithful, CreationStands, Stands
    <3>3. \A f \in Field : Untold(b, f)' => Untold(b, f)
      <4>1. CASE b = a
        <5>1. /\ DOMAIN history[a] \subseteq DOMAIN history'[a]
              /\ \A i \in DOMAIN history[a] : history'[a][i] = history[a][i]
          BY <2>2, <2>4
        <5> QED BY <4>1, <5>1 DEF Untold
      <4>2. CASE b # a
        BY <2>4, <3>2, <4>2 DEF Untold
      <4> QED BY <4>1, <4>2
    <3> QED BY <2>3, <2>7, <3>1, <3>2, <3>3, UntouchedCreation
  <2> QED BY <2>8, <2>9 DEF Faithful, CreationStands
<1>8. ASSUME NEW p \in Client, Terminate(p) PROVE Faithful'
  <2> DEFINE c == client[p]
             copy == [c.copy EXCEPT !.status = "TERMINATED"]
             stored == TerminateSaves(c.id, copy)
  <2>1. c.id \in Agreement /\ c.copy \in Row
    BY <1>0, <1>8, ClientTypes DEF Terminate, Doing
  <2>2. copy \in Row /\ copy.status = "TERMINATED"
    BY <2>1 DEF Row, Status
  <2>3. agreement[c.id] \in Row
    BY <1>0, <1>8, <2>1 DEF Terminate, Store, Exists, TypeOK
  <2>4. /\ stored \in Row /\ stored.status = "TERMINATED"
        /\ stored.expiry = agreement[c.id].expiry /\ stored.renewal = agreement[c.id].renewal
    BY <2>2, <2>3 DEF TerminateSaves, Row, Status
  <2>5. Store(c.id, stored, "TERMINATED", copy) /\ UNCHANGED edited /\ NoNewCreations
    BY <1>1, <1>8 DEF Terminate
  <2> HIDE DEF copy, stored
  <2>6. \A f \in Field : stored[f] = IF "TERMINATED" \in Tellers(f) THEN copy[f] ELSE agreement[c.id][f]
    BY <2>2, <2>4 DEF Field, Tellers
  <2> QED BY <1>0, <2>1, <2>2, <2>4, <2>5, <2>6, StoreFaithful DEF Event
<1>9. ASSUME NEW p \in Client, NEW d \in Date, Extend(p, d) PROVE Faithful'
  <2> DEFINE c == client[p]
             copy == [c.copy EXCEPT !.expiry = d]
             stored == [agreement[c.id] EXCEPT !.expiry = d]
  <2>1. c.id \in Agreement /\ c.copy \in Row
    BY <1>0, <1>9, ClientTypes DEF Extend, Doing
  <2>2. copy \in Row /\ copy.expiry = d
    BY <2>1 DEF Row
  <2>3. agreement[c.id] \in Row
    BY <1>0, <1>9, <2>1 DEF Extend, Store, Exists, TypeOK
  <2>4. /\ stored \in Row /\ stored.expiry = d
        /\ stored.status = agreement[c.id].status /\ stored.renewal = agreement[c.id].renewal
    BY <2>3 DEF Row
  <2>5. Store(c.id, stored, "EXTENDED", copy) /\ UNCHANGED edited /\ NoNewCreations
    BY <1>1, <1>9 DEF Extend
  <2> HIDE DEF copy, stored
  <2>6. \A f \in Field : stored[f] = IF "EXTENDED" \in Tellers(f) THEN copy[f] ELSE agreement[c.id][f]
    BY <2>2, <2>4 DEF Field, Tellers
  <2> QED BY <1>0, <2>1, <2>2, <2>4, <2>5, <2>6, StoreFaithful DEF Event
<1>10. ASSUME NEW p \in Client, NEW d \in Date, NEW r \in Date, Renew(p, d, r) PROVE Faithful'
  <2> DEFINE c == client[p]
             copy == [status |-> IF c.copy.status = "EXPIRED" THEN "ACTIVE" ELSE c.copy.status,
                      expiry |-> d, renewal |-> r]
  <2>1. c.id \in Agreement /\ c.copy \in Row
    BY <1>0, <1>10, ClientTypes DEF Renew, Doing
  <2>2. copy \in Row
    BY <2>1 DEF Row, Status
  <2>3. Store(c.id, copy, "RENEWED", copy) /\ UNCHANGED edited /\ NoNewCreations
    BY <1>1, <1>10 DEF Renew
  <2> HIDE DEF copy
  <2> QED BY <1>0, <2>1, <2>2, <2>3, TellersTold, StoreFaithful DEF Event
<1>11. ASSUME NEW p \in Client, NEW fields, NEW sent \in Sent, Edit(p, fields, sent) PROVE Faithful'
  <2> DEFINE c == client[p]
             row == [f \in DOMAIN sent |-> IF f \in fields THEN sent[f] ELSE c.copy[f]]
  <2>1. c.id \in Agreement /\ c.copy \in Row /\ sent \in Row
    BY <1>0, <1>11, ClientTypes DEF Edit, Doing
  <2>2. row \in Row
    BY <2>1 DEF Row
  <2>3. /\ agreement' = [agreement EXCEPT ![c.id] = row] /\ UNCHANGED history
        /\ edited' = edited \cup {c.id} /\ NoNewCreations
    BY <1>1, <1>11 DEF Edit
  <2> HIDE DEF row
  <2>4. /\ \A b \in Agreement : b # c.id => agreement'[b] = agreement[b]
        /\ agreement'[c.id] # Unborn
    BY <1>0, <2>1, <2>2, <2>3 DEF TypeOK, Gone
  <2>5. \A b \in Agreement : Kept(b)' => Kept(b) /\ b # c.id
    BY <2>3, <2>4 DEF Kept, Exists
  <2>6. \A b \in Agreement : Kept(b)' => \A f \in Field : Tells(b, f)'
    BY <1>0, <2>3, <2>4, <2>5, Untouched DEF Faithful
  <2>7. ASSUME NEW q \in Client PROVE Stands(q)'
    <3> SUFFICES ASSUME client'[q].op = "record" PROVE Stands(q)'
      BY DEF Stands
    <3>1. client'[q] = client[q]
      BY <2>3 DEF NoNewCreations
    <3> PICK b \in Agreement : b = client[q].id
      BY <1>0, <3>1, ClientTypes
    <3>2. Stands(q) /\ agreement[b] # Unborn
      BY <1>0, <3>1 DEF Faithful, CreationStands, Stands
    <3>3. agreement'[b] # Unborn /\ \A f \in Field : Untold(b, f)' => Untold(b, f)
      BY <2>3, <2>4, <3>2 DEF Untold
    <3>4. Kept(b)' => Kept(b) /\ agreement'[b] = agreement[b]
      BY <2>4, <2>5, <3>2
    <3> QED BY <3>1, <3>2, <3>3, <3>4, UntouchedCreation
  <2> QED BY <2>6, <2>7 DEF Faithful, CreationStands
<1>12. ASSUME NEW a \in Agreement, Delete(a) PROVE Faithful'
  <2>1. /\ \A b \in Agreement : b # a => agreement'[b] = agreement[b] /\ history'[b] = history[b]
        /\ agreement'[a] = Deleted /\ UNCHANGED <<client, edited>>
    BY <1>0, <1>12 DEF Delete, TypeOK
  <2>2. \A b \in Agreement : Kept(b)' => Kept(b) /\ b # a
    BY <2>1 DEF Kept, Exists, Gone
  <2>3. \A b \in Agreement : Kept(b)' => \A f \in Field : Tells(b, f)'
    BY <1>0, <2>1, <2>2, Untouched DEF Faithful
  <2>4. ASSUME NEW q \in Client PROVE Stands(q)'
    <3> SUFFICES ASSUME client[q].op = "record" PROVE Stands(q)'
      BY <2>1 DEF Stands
    <3> PICK b \in Agreement : b = client[q].id
      BY <1>0, ClientTypes
    <3>1. Stands(q) /\ agreement[b] # Unborn
      BY <1>0 DEF Faithful, CreationStands, Stands
    <3>2. agreement'[b] # Unborn
      BY <2>1, <3>1, RowAssumption
    <3>3. b # a => \A f \in Field : Untold(b, f)' => Untold(b, f)
      BY <2>1, <3>1 DEF Untold
    <3>4. Kept(b)' => Kept(b) /\ agreement'[b] = agreement[b] /\ b # a
      BY <2>1, <2>2, <3>1
    <3>5. CASE b = a
      BY <2>1, <2>2, <3>1, <3>2, <3>5 DEF Stands
    <3>6. CASE b # a
      BY <2>1, <3>1, <3>2, <3>3, <3>4, <3>6, UntouchedCreation
    <3> QED BY <3>5, <3>6
  <2> QED BY <2>3, <2>4 DEF Faithful, CreationStands
<1>13. CASE SweepQuery \/ SweepFails \/ NextDay
  BY <1>0, <1>2, <1>13, StillFaithful DEF SweepQuery, SweepFails, NextDay
<1>14. ASSUME NEW c \in sweep, ExpireNext(c) PROVE Faithful'
  <2> DEFINE copy == [c.copy EXCEPT !.status = "EXPIRED"]
             stored == [agreement[c.id] EXCEPT !.status = "EXPIRED"]
  <2>1. c.id \in Agreement /\ c.copy \in Row /\ UNCHANGED <<edited, client>>
    BY <1>0, <1>14 DEF ExpireNext, TypeOK
  <2>2. CASE UNCHANGED <<agreement, history>>
    BY <1>0, <1>2, <2>1, <2>2, StillFaithful
  <2>3. CASE Store(c.id, stored, "EXPIRED", copy)
    <3>1. copy \in Row /\ copy.status = "EXPIRED"
      BY <2>1 DEF Row, Status
    <3>2. agreement[c.id] \in Row
      BY <1>0, <2>1, <2>3 DEF Store, Exists, TypeOK
    <3>3. /\ stored \in Row /\ stored.status = "EXPIRED"
          /\ stored.expiry = agreement[c.id].expiry /\ stored.renewal = agreement[c.id].renewal
      BY <3>2 DEF Row, Status
    <3> HIDE DEF copy, stored
    <3>4. \A f \in Field : stored[f] = IF "EXPIRED" \in Tellers(f) THEN copy[f] ELSE agreement[c.id][f]
      BY <3>1, <3>3 DEF Field, Tellers
    <3> QED BY <1>0, <1>2, <2>1, <2>3, <3>1, <3>3, <3>4, StoreFaithful DEF Event
  <2> QED BY <1>14, <2>2, <2>3 DEF ExpireNext
<1> QED
  BY <1>3, <1>4, <1>5, <1>6, <1>7, <1>8, <1>9, <1>10, <1>11, <1>12, <1>13, <1>14 DEF Next
-----------------------------------------------------------------------------
(* The theorems.                                                           *)

LEMMA SweepStep ==
  ASSUME SweepKnows, [Next]_vars
  PROVE  SweepKnows'
<1>1. CASE SweepQuery
  BY <1>1 DEF SweepQuery, SweepKnows, Overdue
<1>2. CASE UNCHANGED sweep
  BY <1>2 DEF SweepKnows
<1>3. CASE sweep' \subseteq sweep
  BY <1>3 DEF SweepKnows
<1>4. SweepQuery \/ UNCHANGED sweep \/ sweep' \subseteq sweep
  BY DEF Next, vars, Create, Load, RecordCreation, Terminate, Refused, Extend, Renew, Edit, Delete,
         SweepFails, ExpireNext, NextDay
<1> QED BY <1>1, <1>2, <1>3, <1>4

LEMMA AgreementInvariant == Spec => []AgreementInv
<1>1. AgreementInv /\ [Next]_vars => AgreementInv'
  BY TypeStep, FaithfulStep, SweepStep DEF AgreementInv, Faithful
<1> QED BY AgreementInit, <1>1, PTL DEF Spec

\* Type correctness of AgreementLifecycle; an agreement that is not there has
\* no history.
THEOREM AgreementTypes == Spec => []TypeOK
BY AgreementInvariant, PTL DEF AgreementInv

\* The service functions save a stale copy's fields without a lock: still, an
\* agreement no plain update has touched is what its last history rows say.
THEOREM HistoryIsTrue == Spec => []HistoryTellsRow
<1>1. AgreementInv => HistoryTellsRow
  <2> SUFFICES ASSUME AgreementInv, NEW a \in Agreement, Exists(a), a \notin edited
               PROVE  /\ \A h \in Told(history[a], {"TERMINATED", "EXPIRED", "RENEWED"}) :
                           agreement[a].status = h.status
                      /\ \A h \in Told(history[a], {"EXTENDED", "RENEWED"}) : agreement[a].expiry = h.expiry
                      /\ \A h \in Told(history[a], {"RENEWED"}) : agreement[a].renewal = h.renewal
    BY DEF HistoryTellsRow
  <2>1. Tells(a, "status") /\ Tells(a, "expiry") /\ Tells(a, "renewal")
    BY DEF AgreementInv, Kept, Field
  <2>2. /\ Tellers("status") = {"TERMINATED", "EXPIRED", "RENEWED"}
        /\ Tellers("expiry") = {"EXTENDED", "RENEWED"}
        /\ Tellers("renewal") = {"RENEWED"}
    BY DEF Tellers
  <2> QED BY <2>1, <2>2 DEF Tells
<1> QED BY AgreementInvariant, <1>1, PTL

\* terminate_, extend_ and renew_agreement refuse a terminated copy: only a plain
\* update, or a caller or sweep that loaded the agreement before its end, brings
\* it back.
THEOREM EndIsFinal == Spec => EndsUnlessStale
<1> DEFINE Back(a) == Ended(agreement[a]) /\ ~Ended(agreement'[a])
           Excuse(a) == \/ edits' # edits
                        \/ \E p \in Client : /\ client[p] # Idle /\ client'[p] = Idle
                                             /\ client[p].id = a /\ client[p].copy.status # "TERMINATED"
                        \/ \E c \in sweep \ sweep' : c.id = a /\ c.copy.status # "TERMINATED"
           Stays == \A a \in Agreement : Back(a) => Excuse(a)
<1>1. ASSUME AgreementInv, [Next]_vars PROVE Stays
  <2> USE RowAssumption
  <2> SUFFICES ASSUME NEW a \in Agreement, Back(a) PROVE Excuse(a)
    OBVIOUS
  <2>0. TypeOK /\ SweepKnows
    BY <1>1 DEF AgreementInv
  <2>1. agreement'[a] # agreement[a]
    OBVIOUS
  <2>2. ASSUME NEW stored, NEW b \in Agreement, agreement' = [agreement EXCEPT ![b] = stored], Exists(b)
        PROVE  b = a /\ agreement[a] \in Row /\ agreement[a].status = "TERMINATED"
               /\ stored # Deleted /\ (stored \in Row => stored.status # "TERMINATED")
    <3>1. b = a /\ agreement'[a] = stored
      BY <2>0, <2>1, <2>2 DEF TypeOK
    <3>2. agreement[a] \in Row /\ agreement[a] # Deleted
      BY <2>0, <2>2, <3>1 DEF TypeOK, Exists, Gone
    <3> QED BY <3>1, <3>2 DEF Ended, Gone
  <2>3. ASSUME NEW p \in Client, NEW b \in Agreement, NEW row \in Sent, Create(p, b, row) PROVE Excuse(a)
    <3>1. b = a /\ agreement[a] = Unborn
      BY <2>0, <2>1, <2>3 DEF Create, TypeOK
    <3> QED BY <3>1 DEF Ended, Gone
  <2>4. ASSUME NEW p \in Client, Terminate(p) PROVE Excuse(a)
    <3> DEFINE c == client[p]
               copy == [c.copy EXCEPT !.status = "TERMINATED"]
               stored == TerminateSaves(c.id, copy)
    <3>1. c.id \in Agreement /\ c.copy \in Row
      BY <2>0, <2>4, ClientTypes DEF Terminate, Doing
    <3>2. agreement' = [agreement EXCEPT ![c.id] = stored] /\ Exists(c.id)
      BY <2>4 DEF Terminate, Store
    <3>3. copy.status = "TERMINATED" /\ agreement[c.id] \in Row
      BY <2>0, <3>1, <3>2 DEF Row, Exists, TypeOK
    <3>4. stored \in Row /\ stored.status = "TERMINATED"
      BY <3>3 DEF TerminateSaves, Row, Status
    <3> QED BY <2>2, <3>1, <3>2, <3>4
  <2>5. ASSUME NEW p \in Client, NEW d \in Date, Extend(p, d) PROVE Excuse(a)
    <3> DEFINE c == client[p]
               stored == [agreement[c.id] EXCEPT !.expiry = d]
    <3>1. c.id \in Agreement
      BY <2>0, <2>5, ClientTypes DEF Extend, Doing
    <3>2. agreement' = [agreement EXCEPT ![c.id] = stored] /\ Exists(c.id)
      BY <2>5 DEF Extend, Store
    <3>3. agreement[c.id] \in Row
      BY <2>0, <3>1, <3>2 DEF Exists, TypeOK
    <3>4. stored \in Row /\ stored.status = agreement[c.id].status
      BY <3>3 DEF Row
    <3> QED BY <2>2, <3>1, <3>2, <3>4
  <2>6. ASSUME NEW p \in Client, NEW d \in Date, NEW r \in Date, Renew(p, d, r) PROVE Excuse(a)
    <3> DEFINE c == client[p]
               copy == [status |-> IF c.copy.status = "EXPIRED" THEN "ACTIVE" ELSE c.copy.status,
                        expiry |-> d, renewal |-> r]
    <3>1. c.id \in Agreement /\ c.copy \in Row /\ c # Idle
      BY <2>0, <2>6, ClientTypes DEF Renew, Doing, Idle
    <3>2. agreement' = [agreement EXCEPT ![c.id] = copy] /\ Exists(c.id)
      BY <2>6 DEF Renew, Store
    <3>3. c.id = a
      BY <2>2, <3>1, <3>2
    <3>4. client'[p] = Idle /\ c.copy.status # "TERMINATED"
      BY <2>0, <2>6 DEF Renew, Finish, MayRenew, TypeOK
    <3> QED BY <3>1, <3>3, <3>4
  <2>7. ASSUME NEW p \in Client, NEW fields, NEW sent \in Sent, Edit(p, fields, sent) PROVE Excuse(a)
    <3>1. edits' = edits + 1 /\ edits \in Int
      BY <2>0, <2>7 DEF Edit, TypeOK
    <3> QED BY <3>1
  <2>8. ASSUME NEW b \in Agreement, Delete(b) PROVE Excuse(a)
    BY <2>2, <2>8 DEF Delete
  <2>9. ASSUME NEW c \in sweep, ExpireNext(c) PROVE Excuse(a)
    <3>1. c.id \in Agreement /\ c.copy.status = "ACTIVE" /\ c \in sweep \ sweep'
      BY <2>0, <2>9 DEF ExpireNext, TypeOK, SweepKnows
    <3>2. c.id = a
      BY <2>0, <2>1, <2>9, <3>1 DEF ExpireNext, Store, TypeOK
    <3> QED BY <3>1, <3>2
  <2> QED
    BY <1>1, <2>1, <2>3, <2>4, <2>5, <2>6, <2>7, <2>8, <2>9
       DEF Next, vars, Load, RecordCreation, Refused, SweepQuery, SweepFails, NextDay
<1>2. AgreementInv /\ [Next]_vars => [Stays]_vars
  BY <1>1
<1> QED BY AgreementInvariant, <1>2, PTL DEF Spec, EndsUnlessStale
=============================================================================
