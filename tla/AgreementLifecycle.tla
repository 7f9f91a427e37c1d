------------------------- MODULE AgreementLifecycle -------------------------
(***************************************************************************)
(* Agreements, their history rows and the task that expires them.          *)
(* AgreementLifecycleService works on an AssetAgreement object its caller  *)
(* loaded earlier: it validates that copy and saves some of its fields,    *)
(* without a row lock, together with a history row in one transaction.     *)
(* The plain update of the view set saves the whole copy and writes no     *)
(* history.  A "client" is a caller between its load and its save; the      *)
(* sweep is the expiry task between its query and its last agreement.      *)
(***************************************************************************)
EXTENDS Integers, Sequences, FiniteSets

CONSTANTS
  Agreement, Client,
  Sent,         \* the rows that create and update requests describe
  MaxDay,       \* bound: dates are the days 0 .. MaxDay
  MaxHistory,   \* bound: history rows of one agreement
  MaxEdits,     \* bound: plain updates
  NoDate, Unborn, Deleted

ASSUME AgreementAssumption ==
  /\ IsFiniteSet(Agreement) /\ IsFiniteSet(Client)
  /\ MaxDay \in Nat /\ MaxHistory \in Nat /\ MaxEdits \in Nat /\ NoDate \notin Int

VARIABLES
  agreement,   \* the AssetAgreement rows
  history,     \* the AgreementHistory rows of each agreement, oldest first
  edited,      \* the agreements a plain update has changed
  edits,       \* plain updates so far
  today,
  client,      \* what each caller is doing, with the copy it loaded
  sweep        \* the copies the expiry task has still to work through

vars == <<agreement, history, edited, edits, today, client, sweep>>

Date == 0 .. MaxDay
Status == {"ACTIVE", "EXPIRED", "PENDING", "TERMINATED"}
Row == [status: Status, expiry: Date \cup {NoDate}, renewal: Date \cup {NoDate}]
Gone == {Unborn, Deleted}
Event == {"CREATED", "RENEWED", "EXTENDED", "TERMINATED", "EXPIRED"}
History == [event: Event, status: Status, expiry: Date \cup {NoDate}, renewal: Date \cup {NoDate}]
Operation == {"record", "terminate", "extend", "renew", "edit"}
Idle == [op |-> "idle"]
Exists(a) == agreement[a] \notin Gone

ASSUME RowAssumption == Sent \subseteq Row /\ Gone \cap Row = {} /\ Unborn # Deleted

\* The check constraint of the table; start dates are day 0.
Storable(row) ==
  row.renewal # NoDate /\ row.expiry # NoDate => row.renewal <= row.expiry

HistoryRow(event, row) ==
  [event |-> event, status |-> row.status, expiry |-> row.expiry, renewal |-> row.renewal]

TypeOK ==
  /\ agreement \in [Agreement -> Row \cup Gone]
  /\ DOMAIN history = Agreement
  /\ \A a \in Agreement : history[a] \in Seq(History) /\ Len(history[a]) <= MaxHistory
  /\ \A a \in Agreement : ~Exists(a) => history[a] = <<>>
  /\ edited \subseteq Agreement /\ edits \in 0 .. MaxEdits /\ today \in Date
  /\ client \in [Client -> {Idle} \cup [op: Operation, id: Agreement, copy: Row]]
  /\ sweep \subseteq [id: Agreement, copy: Row]

Init ==
  /\ agreement = [a \in Agreement |-> Unborn] /\ history = [a \in Agreement |-> <<>>]
  /\ edited = {} /\ edits = 0 /\ today = 0
  /\ client = [p \in Client |-> Idle] /\ sweep = {}

-----------------------------------------------------------------------------
(* The requests *)

\* create: the row and its CREATED history row are saved one after the other,
\* each by itself; other callers may find the row in between.
Create(p, a, row) ==
  /\ client[p] = Idle /\ agreement[a] = Unborn /\ Storable(row)
  /\ agreement' = [agreement EXCEPT ![a] = row]
  /\ client' = [client EXCEPT ![p] = [op |-> "record", id |-> a, copy |-> row]]
  /\ UNCHANGED <<history, edited, edits, today, sweep>>

\* get_object.
Load(p, a, op) ==
  /\ client[p] = Idle /\ Exists(a) /\ (op = "edit" => edits < MaxEdits)
  /\ client' = [client EXCEPT ![p] = [op |-> op, id |-> a, copy |-> agreement[a]]]
  /\ UNCHANGED <<agreement, history, edited, edits, today, sweep>>

Doing(p, op) == client[p].op = op
Finish(p) == client' = [client EXCEPT ![p] = Idle]

\* save(update_fields=...) and the history row, in one transaction.  A row that
\* is gone, or a result the table refuses, raises and nothing is stored.
Store(a, stored, event, told) ==
  /\ Exists(a) /\ Storable(stored) /\ Len(history[a]) < MaxHistory
  /\ agreement' = [agreement EXCEPT ![a] = stored]
  /\ history' = [history EXCEPT ![a] = Append(@, HistoryRow(event, told))]

RecordCreation(p) ==
  LET c == client[p] IN
  /\ Doing(p, "record") /\ Exists(c.id) /\ Len(history[c.id]) < MaxHistory
  /\ history' = [history EXCEPT ![c.id] = Append(@, HistoryRow("CREATED", c.copy))]
  /\ Finish(p) /\ UNCHANGED <<agreement, edited, edits, today, sweep>>

BugTerminateSavesAll(a, copy) == copy

\* terminate_agreement saves the status only.
TerminateSaves(a, copy) == [agreement[a] EXCEPT !.status = copy.status]

Terminate(p) ==
  LET c == client[p]
      copy == [c.copy EXCEPT !.status = "TERMINATED"] IN
  /\ Doing(p, "terminate") /\ c.copy.status # "TERMINATED"
  /\ Store(c.id, TerminateSaves(c.id, copy), "TERMINATED", copy)
  /\ Finish(p) /\ UNCHANGED <<edited, edits, today, sweep>>

\* extend_agreement saves the expiry date only.
MayExtend(copy, expiry) ==
  /\ copy.status \notin {"TERMINATED", "EXPIRED"}
  /\ copy.expiry # NoDate /\ expiry > copy.expiry

Extend(p, expiry) ==
  LET c == client[p]
      copy == [c.copy EXCEPT !.expiry = expiry] IN
  /\ Doing(p, "extend") /\ MayExtend(c.copy, expiry)
  /\ Store(c.id, [agreement[c.id] EXCEPT !.expiry = expiry], "EXTENDED", copy)
  /\ Finish(p) /\ UNCHANGED <<edited, edits, today, sweep>>

\* renew_agreement saves both dates and the status of its copy.
MayRenew(copy, expiry, renewal) ==
  /\ copy.status # "TERMINATED"
  /\ copy.expiry # NoDate => expiry > copy.expiry
  /\ today <= renewal /\ renewal < expiry

Renew(p, expiry, renewal) ==
  LET c == client[p]
      copy == [status |-> IF c.copy.status = "EXPIRED" THEN "ACTIVE" ELSE c.copy.status,
               expiry |-> expiry, renewal |-> renewal] IN
  /\ Doing(p, "renew") /\ MayRenew(c.copy, expiry, renewal)
  /\ Store(c.id, copy, "RENEWED", copy)
  /\ Finish(p) /\ UNCHANGED <<edited, edits, today, sweep>>

\* update and partial_update: the fields the request names replace those of the
\* copy, and the whole copy is saved, an INSERT when the row is gone by then.
Edit(p, fields, sent) ==
  LET c == client[p]
      row == [f \in DOMAIN sent |-> IF f \in fields THEN sent[f] ELSE c.copy[f]] IN
  /\ Doing(p, "edit") /\ Storable(row) /\ edits < MaxEdits
  /\ agreement' = [agreement EXCEPT ![c.id] = row]
  /\ edited' = edited \cup {c.id} /\ edits' = edits + 1
  /\ Finish(p) /\ UNCHANGED <<history, today, sweep>>

\* destroy: the history goes with the row.
Delete(a) ==
  /\ Exists(a)
  /\ agreement' = [agreement EXCEPT ![a] = Deleted]
  /\ history' = [history EXCEPT ![a] = <<>>]
  /\ UNCHANGED <<edited, edits, today, client, sweep>>

\* A request that is refused or raises; it has stored nothing.
Refused(p) ==
  /\ client[p] # Idle
  /\ Finish(p) /\ UNCHANGED <<agreement, history, edited, edits, today, sweep>>

-----------------------------------------------------------------------------
(* sync_expired_agreements *)

BugOverdueAnyStatus(row) == row.expiry # NoDate /\ row.expiry < today

Overdue(row) == row.status = "ACTIVE" /\ row.expiry # NoDate /\ row.expiry < today

SweepQuery ==
  /\ sweep = {}
  /\ sweep' = {[id |-> a, copy |-> agreement[a]] :
                 a \in {b \in Agreement : Exists(b) /\ Overdue(agreement[b])}}
  /\ sweep' # {}
  /\ UNCHANGED <<agreement, history, edited, edits, today, client>>

\* expire_agreement, on one of the copies.
ExpireNext(c) ==
  LET copy == [c.copy EXCEPT !.status = "EXPIRED"] IN
  /\ c \in sweep
  /\ IF c.copy.status = "EXPIRED"
     THEN UNCHANGED <<agreement, history>>
     ELSE Store(c.id, [agreement[c.id] EXCEPT !.status = "EXPIRED"], "EXPIRED", copy)
  /\ sweep' = sweep \ {c} /\ UNCHANGED <<edited, edits, today, client>>

\* An exception ends the run (a deleted agreement raises one); Celery runs the
\* task again, which queries anew.
SweepFails ==
  /\ sweep # {} /\ sweep' = {}
  /\ UNCHANGED <<agreement, history, edited, edits, today, client>>

NextDay ==
  /\ today < MaxDay /\ today' = today + 1
  /\ UNCHANGED <<agreement, history, edited, edits, client, sweep>>

Next ==
  \/ \E p \in Client, a \in Agreement, row \in Sent : Create(p, a, row)
  \/ \E p \in Client, a \in Agreement, op \in Operation \ {"record"} : Load(p, a, op)
  \/ \E p \in Client : RecordCreation(p) \/ Terminate(p) \/ Refused(p)
  \/ \E p \in Client, d \in Date : Extend(p, d)
  \/ \E p \in Client, d, r \in Date : Renew(p, d, r)
  \/ \E p \in Client, fields \in SUBSET {"status", "expiry", "renewal"}, sent \in Sent :
       Edit(p, fields, sent)
  \/ \E a \in Agreement : Delete(a)
  \/ SweepQuery \/ SweepFails \/ \E c \in sweep : ExpireNext(c)
  \/ NextDay

Spec == Init /\ [][Next]_vars

-----------------------------------------------------------------------------
(* Properties *)

\* What the history tells of a field: its value in the last row of the events
\* that save it, or in the CREATED row.
Told(h, events) ==
  LET saved == {i \in DOMAIN h : h[i].event \in events}
      rows == IF saved # {} THEN saved ELSE {i \in DOMAIN h : h[i].event = "CREATED"}
  IN {h[i] : i \in {j \in rows : \A k \in rows : k <= j}}

\* Unless a plain update came in between, the row is what its history says it
\* is, whatever copies the callers worked on: each service function saves only
\* the fields its history row is about.
HistoryTellsRow ==
  \A a \in {b \in Agreement : Exists(b)} \ edited :
    /\ \A h \in Told(history[a], {"TERMINATED", "EXPIRED", "RENEWED"}) : agreement[a].status = h.status
    /\ \A h \in Told(history[a], {"EXTENDED", "RENEWED"}) : agreement[a].expiry = h.expiry
    /\ \A h \in Told(history[a], {"RENEWED"}) : agreement[a].renewal = h.renewal

\* A terminated or deleted agreement is brought back only by a plain update,
\* or by a caller or a sweep that loaded it before it ended.
Ended(row) == row = Deleted \/ (row \notin Gone /\ row.status = "TERMINATED")
EndsUnlessStale ==
  [][\A a \in Agreement : Ended(agreement[a]) /\ ~Ended(agreement'[a]) =>
       \/ edits' # edits
       \/ \E p \in Client : /\ client[p] # Idle /\ client'[p] = Idle
                            /\ client[p].id = a /\ client[p].copy.status # "TERMINATED"
       \/ \E c \in sweep \ sweep' : c.id = a /\ c.copy.status # "TERMINATED"]_vars
=============================================================================
