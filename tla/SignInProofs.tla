---------------------------- MODULE SignInProofs ----------------------------
(***************************************************************************)
(* Proofs about SessionRefresh and Accounts.                               *)
(*                                                                         *)
(* A session, for any number of tabs and tokens and every delay that the   *)
(* assumption allows: tokens are exchanged once, the browser keeps the     *)
(* session's credential, who is signed out has no active session, and a    *)
(* sibling tab raises no alarm.  Liveness stays with TLC.                  *)
(*                                                                         *)
(* An account, for any number of requests and tasks that work on it at a   *)
(* time and every limit: its sessions follow its password, a lock stands,  *)
(* a login alone keeps the limit of sessions, and the lockout comes.       *)
(***************************************************************************)
EXTENDS SessionRefresh, Accounts, FiniteSetTheorems, WellFoundedInduction, TLAPS

-----------------------------------------------------------------------------
(* The inductive invariant.                                                *)

\* Requests that are not answered yet.
Asking(t) == tab[t].pc \in {"sent", "lock", "write"}

\* Who is about to write has the row, and what it has read of it is true.
Locked ==
  \A t \in Tab :
    /\ tab[t].pc = "write" <=> owner = t
    /\ tab[t].pc = "write" =>
         /\ tab[t].seen.status = row.status
         /\ tab[t].seen.current = row.current
         /\ tab[t].seen.previous = row.previous

\* A request has an answer when it is answered, and takes the lock with a token.
Phases ==
  \A t \in Tab :
    /\ tab[t].answer # "none" <=> tab[t].pc = "answered"
    /\ tab[t].pc \in {"lock", "write"} => tab[t].sent # None
    /\ tab[t].pc = "ready" => tab[t].op = "refresh"

\* An answer with a token carries the current one; nobody else has that token,
\* so that nobody exchanges it before the answer arrives.
Winner ==
  \A t \in Tab : tab[t].answer = "ok" =>
    /\ tab[t].op = "refresh" /\ tab[t].new = row.current
    /\ jar # row.current
    /\ \A u \in Tab : Asking(u) => tab[u].sent # row.current
    /\ \A u \in Tab : tab[u].answer = "ok" => u = t

\* The browser has one of the row's two tokens or none.  If it has the previous
\* one the current token was sent to it and nobody uses it yet, or it was lost.
Cookie ==
  /\ jar \in {row.current, row.previous, None}
  /\ jar = row.previous /\ jar # None =>
       /\ \A u \in Tab : Asking(u) => tab[u].sent # row.current
       /\ "answer" \in lost \/ \E t \in Tab : tab[t].answer = "ok"

\* A request that was not overtaken has one of the row's tokens or none.
Known ==
  "request" \notin lost =>
    \A t \in Tab : Asking(t) => tab[t].sent \in {row.current, row.previous, None}

\* The tab was, or will be, told that it has no session.
SignedOut(t) ==
  \/ tab[t].pc = "out" \/ tab[t].answer \in {"invalid", "loggedout"}
  \/ Asking(t) /\ tab[t].sent = None

\* The browser gives up its cookie only for a session that has ended.
Spent ==
  jar = None \/ (\E t \in Tab : SignedOut(t)) => row.status \in Ended \/ "request" \in lost

\* A request read the clock after it was sent, at most Latency ago.  The token of
\* a winner was made, and a row whose previous token is in use was last used, so
\* recently that the token is within its grace.
Timely ==
  /\ \A t \in Tab : Out(t) => tab[t].age <= Latency /\ tab[t].now <= tab[t].age
  /\ row.status # "gone" /\ row.previous # None => row.touched
  /\ \A t \in Tab : tab[t].answer = "ok" => row.used <= tab[t].age + Latency
  /\ \A t \in Tab :
       Asking(t) /\ tab[t].sent = row.previous /\ row.previous # None /\ "answer" \notin lost =>
         row.used <= tab[t].age + 2 * Latency

\* Of two tabs, one that has the previous token is slower than the other, which
\* has refreshed and has no reason to do so again, or is logging out.
Slower ==
  TwoTabs /\ row.status = "active" /\ jar = row.current =>
    \A t, u \in Tab :
      Asking(u) /\ tab[u].sent = row.previous /\ row.previous # None /\ t # u =>
        tab[t].op = "logout" \/ (tab[t].pc = "ready" /\ tab[t].age <= tab[u].age)

\* What the properties say of the history.
Fair ==
  /\ TwoTabs => "request" \notin lost
  /\ NoFalseAlarm

SessionInv ==
  /\ TypeOK /\ Locked /\ Phases /\ Winner /\ Cookie
  /\ Known /\ Spent /\ Timely /\ Slower /\ Fair

LEMMA Durations ==
  /\ Latency \in Nat /\ Grace \in Nat /\ Idle \in Nat /\ AccessLife \in Nat /\ MaxFaults \in Nat
  /\ 3 * Latency <= Grace /\ Latency < AccessLife
BY SessionAssumption

LEMMA Nobody == None \notin Tab /\ None \notin Token /\ None \notin Nat
BY SessionAssumption

LEMMA ReadyType == Ready \in TabState
BY Durations DEF Ready, TabState, Tokens

LEMMA SessionInit == Init => SessionInv
<1> SUFFICES ASSUME Init PROVE SessionInv
  OBVIOUS
<1>1. PICK k \in Token : jar = k
  BY SessionAssumption DEF Init
<1>3. TypeOK
  <2>1. row \in Row /\ jar \in Tokens
    BY <1>1, Durations, Nobody DEF Init, Row, Status, Tokens, Age, AgeCap
  <2>2. tab \in [Tab -> TabState] /\ owner \in Tab \cup {None} /\ ping \in 0 .. Latency \cup {None}
    BY ReadyType DEF Init
  <2>3. faults \in 0 .. MaxFaults /\ lost \subseteq {"answer", "request"}
    BY Durations DEF Init
  <2>4. alarm \in BOOLEAN
    BY DEF Init
  <2> QED BY <2>1, <2>2, <2>3, <2>4 DEF TypeOK
<1>4. Locked /\ Phases /\ Winner /\ Known /\ Timely /\ Slower
  BY <1>1, Nobody, Durations DEF Init, Locked, Phases, Winner, Known, Timely, Slower, Ready,
                              Asking, Out
<1>5. Cookie /\ Spent /\ Fair
  BY <1>1, Nobody DEF Init, Cookie, Spent, SignedOut, Asking, Fair, NoFalseAlarm, Ready
<1> QED BY <1>3, <1>4, <1>5 DEF SessionInv
-----------------------------------------------------------------------------
(* The steps, by what they do to the tab, the row and the cookie.          *)

\* Only tab t moves.
Only(t) == tab' = [tab EXCEPT ![t] = tab'[t]]

\* A tab leaves its answer, or its access token, and will send a request.
Quits(t) ==
  /\ Only(t) /\ tab'[t].pc \in {"need", "backoff"} /\ tab'[t].answer = "none"
  /\ tab[t].pc \in {"ready", "sent", "answered"}
  /\ tab[t].pc = "ready" => tab[t].age >= AccessLife \/ row.status \in Ended
  /\ tab[t].pc # "ready" => tab'[t].op = tab[t].op
  /\ lost' \in {lost, lost \cup {"answer"}}
  /\ tab[t].answer = "ok" => "answer" \in lost'
  /\ UNCHANGED <<row, owner, jar, alarm>>

Sends(t) ==
  /\ Only(t) /\ tab[t].pc \in {"ready", "need"}
  /\ tab'[t].pc = "sent" /\ tab'[t].sent = jar /\ tab'[t].answer = "none"
  /\ tab'[t].age = 0 /\ tab'[t].now = 0
  /\ tab'[t].op \in {tab[t].op, "logout"} /\ (tab[t].pc = "ready" => tab'[t].op = "logout")
  /\ UNCHANGED <<row, owner, jar, lost, alarm>>

\* The request keeps what it has been sent with.
SameRequest(t) ==
  /\ tab'[t].op = tab[t].op /\ tab'[t].age = tab[t].age /\ tab'[t].sent = tab[t].sent

Waits(t) ==
  /\ Only(t) /\ SameRequest(t) /\ tab'[t].now = tab[t].now /\ tab'[t].answer = "none"
  /\ tab[t].sent # None
  /\ \/ tab[t].pc = "sent" /\ tab'[t].pc = "lock" /\ owner' = owner
     \/ /\ tab[t].pc = "lock" /\ tab'[t].pc = "write" /\ owner = None /\ owner' = t
        /\ tab'[t].seen = [status |-> row.status, current |-> row.current,
                           previous |-> row.previous]
  /\ UNCHANGED <<row, jar, lost, alarm>>

\* The row keeps its tokens, and an ended session stays ended.
RowFades ==
  /\ row'.current = row.current /\ row'.previous = row.previous
  /\ row'.status = row.status \/ row'.status \in Ended
  /\ row'.used <= row.used \/ row'.used <= Latency
  /\ row'.status # "gone" => row.status # "gone" /\ (row.touched => row'.touched)

\* A request ends, with any answer but a new token.
Refuses(t) ==
  /\ Only(t) /\ SameRequest(t) /\ tab'[t].now = 0 /\ tab[t].pc \in {"sent", "write"}
  /\ tab'[t].pc = "answered" /\ tab'[t].answer \in {"invalid", "loggedout", "conflict", "error"}
  /\ tab'[t].answer \in {"invalid", "loggedout"} => row'.status \in Ended \/ "request" \in lost
  /\ owner' = (IF tab[t].pc = "write" THEN None ELSE owner)
  /\ RowFades /\ (row' = row \/ tab[t].pc = "write")
  /\ alarm' => alarm \/ "answer" \in lost
  /\ UNCHANGED <<jar, lost>>

Rotates(t) ==
  /\ Only(t) /\ SameRequest(t) /\ tab'[t].now = 0
  /\ tab[t].pc = "write" /\ tab[t].op = "refresh" /\ tab[t].sent = row.current
  /\ row.status = "active" /\ row'.status = "active"
  /\ tab'[t].pc = "answered" /\ tab'[t].answer = "ok" /\ tab'[t].new = row'.current
  /\ row'.previous = row.current /\ row'.used = tab[t].now /\ row'.touched
  /\ row'.current # jar /\ \A u \in Tab : row'.current # tab[u].sent
  /\ owner' = None
  /\ lost' = IF Overtakes(t) THEN lost \cup {"request"} ELSE lost
  /\ UNCHANGED <<jar, alarm>>

\* The answer arrives: with a token, or with none.
Receives(t) ==
  /\ Only(t) /\ tab[t].pc = "answered" /\ tab'[t].answer = "none"
  /\ \/ /\ tab[t].answer = "ok" /\ jar' = row.current
        /\ tab'[t].pc = "ready" /\ tab'[t].op = "refresh" /\ tab'[t].age = 0
     \/ /\ tab[t].answer \in {"invalid", "loggedout"} /\ jar' = None
        /\ tab'[t].pc = "out" /\ tab'[t].op = tab[t].op
  /\ UNCHANGED <<row, owner, lost, alarm>>

RowMoves ==
  /\ RowFades /\ (row' = row \/ owner = None)
  /\ UNCHANGED <<owner, jar, tab, lost, alarm>>

Moves ==
  \/ \E t \in Tab : Quits(t) \/ Sends(t) \/ Waits(t) \/ Refuses(t) \/ Rotates(t) \/ Receives(t)
  \/ RowMoves \/ Tick \/ UNCHANGED vars
-----------------------------------------------------------------------------
(* Types.                                                                  *)

LEMMA AnsweredType ==
  ASSUME TypeOK, NEW t \in Tab, NEW k \in Tokens,
         NEW a \in {"ok", "conflict", "invalid", "loggedout", "error"}, Answered(t, a, k)
  PROVE  tab' \in [Tab -> TabState]
<1>1. tab[t] \in TabState
  BY DEF TypeOK
<1>2. [Ready EXCEPT !.pc = "answered", !.op = tab[t].op, !.age = tab[t].age,
                    !.sent = tab[t].sent, !.answer = a, !.new = k] \in TabState
  BY <1>1, Durations DEF Ready, TabState, Tokens
<1> QED BY <1>2 DEF Answered, TypeOK

LEMMA BackOffType ==
  ASSUME TypeOK, NEW t \in Tab, BackOff(t)
  PROVE  tab' \in [Tab -> TabState]
<1>1. tab[t] \in TabState
  BY DEF TypeOK
<1>2. [Ready EXCEPT !.pc = "backoff", !.op = tab[t].op] \in TabState
  BY <1>1, ReadyType DEF TabState
<1> QED BY <1>2 DEF BackOff, TypeOK

LEMMA SendType ==
  ASSUME TypeOK, NEW t \in Tab, NEW op \in {"refresh", "logout"}, SendAs(t, op)
  PROVE  tab' \in [Tab -> TabState]
<1>1. [Ready EXCEPT !.pc = "sent", !.op = op, !.sent = jar] \in TabState
  BY ReadyType DEF TabState, TypeOK
<1> QED BY <1>1 DEF SendAs, TypeOK

LEMMA StatusType ==
  ASSUME row \in Row, NEW s \in Status, SetStatus(s)
  PROVE  row' \in Row
BY DEF Row, SetStatus

LEMMA FinishType ==
  ASSUME TypeOK, NEW t \in Tab, NEW k \in Tokens,
         NEW a \in {"ok", "conflict", "invalid", "loggedout", "error"}, Finish(t, a, k)
  PROVE  /\ tab' \in [Tab -> TabState] /\ owner' \in Tab \cup {None}
         /\ jar' \in Tokens /\ ping' \in 0 .. Latency \cup {None}
BY AnsweredType DEF Finish, TypeOK

LEMMA TypeStep ==
  ASSUME TypeOK, Locked, Timely, [Next]_vars
  PROVE  TypeOK'
<1> USE DEF Status, Ended
<1>1. ASSUME NEW t \in Tab, Reject(t) \/ Conflict(t) \/ Fail(t) PROVE TypeOK'
  <2>1. PICK a \in {"invalid", "conflict", "error"} : Finish(t, a, None)
    BY <1>1 DEF Reject, Conflict, Fail
  <2>2. /\ tab' \in [Tab -> TabState] /\ owner' \in Tab \cup {None}
        /\ jar' \in Tokens /\ ping' \in 0 .. Latency \cup {None}
    BY <2>1, FinishType DEF Tokens
  <2>3. faults' \in 0 .. MaxFaults
    BY <1>1, Durations DEF Reject, Conflict, Fail, TypeOK
  <2> QED BY <1>1, <2>2, <2>3 DEF Reject, Conflict, Fail, TypeOK
<1>2. ASSUME NEW t \in Tab, Reuse(t) PROVE TypeOK'
  <2>1. row' \in Row
    BY <1>2, StatusType DEF Reuse, TypeOK
  <2>2. alarm' \in BOOLEAN
    BY <1>2 DEF Reuse
  <2> QED BY <1>2, <2>1, <2>2, FinishType DEF Reuse, TypeOK, Tokens
<1>3. ASSUME NEW t \in Tab, Refuse(t) \/ Logout(t) PROVE TypeOK'
  <2>1. row' \in Row
    BY <1>3, StatusType DEF Refuse, Logout, TypeOK
  <2> QED BY <1>3, <2>1, FinishType DEF Refuse, Logout, TypeOK, Tokens
<1>4. ASSUME NEW t \in Tab, Rotate(t) PROVE TypeOK'
  <2>1. PICK k \in Fresh : row' = Rotated(t, k) /\ Finish(t, "ok", k)
    BY <1>4 DEF Rotate
  <2>2. k \in Token /\ k # row.current
    BY DEF Fresh
  <2>3. tab[t] \in TabState /\ tab[t].seen.current = row.current /\ row.current \in Token
    BY <1>4 DEF Rotate, Refreshing, Locked, TypeOK, Row
  <2>4. tab[t].now \in Age
    BY <1>4, <2>3, Durations DEF Rotate, Refreshing, Timely, Out, TabState, Age, AgeCap
  <2>5. row' \in Row
    BY <2>1, <2>2, <2>3, <2>4 DEF Rotated, TypeOK, Row, Tokens
  <2> QED BY <1>4, <2>1, <2>2, <2>5, FinishType DEF Rotate, TypeOK, Tokens
<1>5. ASSUME NEW t \in Tab, NoCookie(t) PROVE TypeOK'
  BY <1>5, AnsweredType DEF NoCookie, TypeOK, Tokens
<1>6. ASSUME NEW t \in Tab, Start(t) PROVE TypeOK'
  BY <1>6 DEF Start, TypeOK, TabState
<1>7. ASSUME NEW t \in Tab, Lock(t) PROVE TypeOK'
  <2>1. [status |-> row.status, current |-> row.current, previous |-> row.previous]
          \in [status: Status, current: Token, previous: Tokens]
    BY DEF TypeOK, Row
  <2>2. tab[t] \in TabState /\ owner' \in Tab \cup {None}
    BY <1>7 DEF Lock, TypeOK
  <2>3. tab'[t] \in TabState
    BY <1>7, <2>1, <2>2 DEF Lock, Load, TypeOK, TabState
  <2>4. tab' \in [Tab -> TabState]
    BY <1>7, <2>3 DEF Lock, Load, TypeOK
  <2> QED BY <1>7, <2>2, <2>4 DEF Lock, TypeOK
<1>8. ASSUME NEW t \in Tab, Lapse(t) PROVE TypeOK'
  <2>1. [Ready EXCEPT !.pc = "need"] \in TabState
    BY ReadyType DEF TabState
  <2> QED BY <1>8, <2>1 DEF Lapse, TypeOK
<1>9. ASSUME NEW t \in Tab, Send(t) \/ Leave(t) PROVE TypeOK'
  <2>1. tab[t].op \in {"refresh", "logout"}
    BY DEF TypeOK, TabState
  <2>2. PICK op \in {"refresh", "logout"} : SendAs(t, op)
    BY <1>9, <2>1 DEF Send, Leave
  <2> QED BY <2>2, SendType DEF SendAs, TypeOK
<1>10. ASSUME NEW t \in Tab, Receive(t) PROVE TypeOK'
  <2>1. CASE tab[t].answer = "ok"
    <3>1. jar' \in Tokens /\ tab' = [tab EXCEPT ![t] = Ready]
      BY <1>10, <2>1 DEF Receive, TypeOK, TabState
    <3> QED BY <1>10, <3>1, ReadyType DEF Receive, TypeOK
  <2>2. CASE tab[t].answer \in {"conflict", "error"}
    BY <1>10, <2>2, BackOffType DEF Receive, TypeOK
  <2>3. CASE tab[t].answer \notin {"ok", "conflict", "error"}
    <3>1. [Ready EXCEPT !.pc = "out", !.op = tab[t].op] \in TabState
      BY ReadyType DEF TabState, TypeOK
    <3>2. jar' \in Tokens /\ tab' = [tab EXCEPT ![t] = [Ready EXCEPT !.pc = "out", !.op = tab[t].op]]
      BY <1>10, <2>3 DEF Receive, Tokens
    <3> QED BY <1>10, <3>1, <3>2 DEF Receive, TypeOK
  <2> QED BY <2>1, <2>2, <2>3
<1>11. ASSUME NEW t \in Tab, Lose(t) PROVE TypeOK'
  BY <1>11, BackOffType, Durations DEF Lose, TypeOK
<1>12. CASE Ping \/ Pinged
  <2>1. ping' \in 0 .. Latency \cup {None}
    BY <1>12, Durations DEF Ping, Pinged
  <2>2. ping # None => ping \in Age
    BY Durations DEF TypeOK, Age, AgeCap
  <2>3. row' \in Row
    <3>1. CASE row' = row
      BY <3>1 DEF TypeOK
    <3>2. CASE row' = [row EXCEPT !.used = ping, !.touched = TRUE] /\ ping \in Age
      BY <3>2 DEF TypeOK, Row
    <3> QED BY <1>12, <2>2, <3>1, <3>2 DEF Ping, Pinged
  <2> QED BY <1>12, <2>1, <2>3 DEF Ping, Pinged, TypeOK
<1>13. CASE End("revoked") \/ End("expired") \/ Expire
  <2>1. row' \in Row
    BY <1>13, StatusType DEF End, Expire, TypeOK
  <2> QED BY <1>13, <2>1 DEF End, Expire, TypeOK
<1>14. CASE Cleanup
  <2>1. 0 \in Age
    BY Durations DEF Age, AgeCap
  <2>2. row' \in Row
    BY <1>14, <2>1 DEF Cleanup, TypeOK, Row
  <2> QED BY <1>14, <2>2 DEF Cleanup, TypeOK
<1>15. CASE Tick
  <2>1. tab' \in [Tab -> TabState]
    <3> SUFFICES ASSUME NEW t \in Tab PROVE tab'[t] \in TabState
      BY <1>15 DEF Tick
    <3>1. tab[t] \in TabState /\ (Out(t) => tab[t].age < Latency)
      BY <1>15 DEF Tick, TypeOK
    <3> DEFINE pc == IF tab[t].pc = "backoff" THEN "need" ELSE tab[t].pc
               age == IF Out(t) \/ (tab[t].pc = "ready" /\ tab[t].age < AccessLife)
                      THEN tab[t].age + 1 ELSE tab[t].age
               now == IF tab[t].pc \in {"lock", "write"} THEN tab[t].now + 1 ELSE tab[t].now
    <3>2. tab'[t] = [tab[t] EXCEPT !.pc = pc, !.age = age, !.now = now]
      BY <1>15 DEF Tick
    <3>3. age \in 0 .. AccessLife /\ now \in Nat
      BY <3>1, Durations DEF TabState
    <3>4. pc \in {"ready", "need", "sent", "lock", "write", "answered", "backoff", "out"}
      BY <3>1 DEF TabState
    <3> HIDE DEF pc, age, now
    <3> QED BY <3>1, <3>2, <3>3, <3>4 DEF TabState
  <2>2. row' \in Row
    <3>1. row.used \in Age => Older(row.used) \in Age
      BY Durations DEF Older, Age, AgeCap
    <3> QED BY <1>15, <3>1 DEF Tick, TypeOK, Row
  <2>3. ping' \in 0 .. Latency \cup {None}
    <3>1. CASE ping = None
      BY <1>15, <3>1 DEF Tick
    <3>2. CASE ping # None
      <4>1. ping \in 0 .. Latency /\ ping < Latency /\ ping' = ping + 1
        BY <1>15, <3>2 DEF Tick, TypeOK
      <4> QED BY <4>1, Durations
    <3> QED BY <3>1, <3>2
  <2> QED BY <1>15, <2>1, <2>2, <2>3 DEF Tick, TypeOK
<1>16. CASE UNCHANGED vars
  BY <1>16 DEF vars, TypeOK
<1> QED
  BY <1>1, <1>2, <1>3, <1>4, <1>5, <1>6, <1>7, <1>8, <1>9, <1>10, <1>11, <1>12, <1>13, <1>14,
     <1>15, <1>16 DEF Next, Serve

\* What a tab's answer is worth when it ends the session or drops the cookie.
LEMMA StatusFades ==
  ASSUME TypeOK, NEW s \in {"revoked", "expired"}, SetStatus(s)
  PROVE  RowFades /\ row'.status \in Ended
BY Durations DEF SetStatus, RowFades, TypeOK, Row, Status, Ended, Age

LEMMA FinishRefuses ==
  ASSUME TypeOK, Locked, NEW t \in Tab, RowFades,
         NEW a \in {"conflict", "invalid", "loggedout", "error"}, Finish(t, a, None),
         a \in {"invalid", "loggedout"} => row'.status \in Ended \/ "request" \in lost,
         alarm' => alarm \/ "answer" \in lost, UNCHANGED lost
  PROVE  Refuses(t)
<1>1. tab'[t] = [Ready EXCEPT !.pc = "answered", !.op = tab[t].op, !.age = tab[t].age,
                              !.sent = tab[t].sent, !.answer = a, !.new = None]
  BY DEF Finish, Answered, TypeOK
<1>2. Only(t)
  BY <1>1 DEF Finish, Answered, Only
<1> QED BY <1>1, <1>2 DEF Refuses, SameRequest, Finish, Ready

LEMMA StepKinds ==
  ASSUME SessionInv, [Next]_vars
  PROVE  Moves
<1> USE DEF SessionInv
<1>0. row.used \in Nat /\ (row' = row => RowFades)
  BY Durations DEF TypeOK, Row, Age, AgeCap, RowFades
<1>1. ASSUME NEW t \in Tab, Reject(t) PROVE Refuses(t)
  <2>1. tab[t].seen.status = row.status /\ Asking(t) /\ tab[t].sent # None
    BY <1>1 DEF Reject, Locked, Asking, Phases
  <2>2. tab[t].seen.status # "active" => row.status \in Ended
    BY <2>1 DEF TypeOK, Row, Status
  <2>3. ~(IsCurrent(t) \/ IsPrevious(t)) => row.status \in Ended \/ "request" \in lost
    BY <1>1, <2>1 DEF Reject, IsCurrent, IsPrevious, Known, Locked
  <2> QED BY <1>0, <1>1, <2>2, <2>3, FinishRefuses DEF Reject
<1>2. ASSUME NEW t \in Tab, Conflict(t) \/ Fail(t) PROVE Refuses(t)
  <2>1. PICK a \in {"conflict", "error"} : Finish(t, a, None)
    BY <1>2 DEF Conflict, Fail
  <2> QED BY <1>0, <1>2, <2>1, FinishRefuses DEF Conflict, Fail
<1>3. ASSUME NEW t \in Tab, Reuse(t) PROVE Refuses(t)
  <2>1. Asking(t) /\ Out(t) /\ tab[t].sent # None /\ tab[t].sent = row.previous /\ row.status = "active"
    BY <1>3 DEF Reuse, Refreshing, Asking, Out, Locked, Phases, IsPrevious
  <2>2. row.touched /\ ("answer" \notin lost => row.used <= tab[t].age + 2 * Latency)
        /\ tab[t].age <= Latency
    BY <2>1 DEF Timely
  <2>3. tab[t].age \in Nat /\ tab[t].now \in Nat
    BY Durations DEF TypeOK, TabState
  <2>4. "answer" \in lost
    BY <1>0, <1>3, <2>2, <2>3, Durations DEF Reuse, WithinGrace
  <2>5. RowFades /\ row'.status \in Ended
    BY <1>3, StatusFades DEF Reuse
  <2> QED BY <1>3, <2>4, <2>5, FinishRefuses DEF Reuse
<1>4. ASSUME NEW t \in Tab, Refuse(t) PROVE Refuses(t)
  <2>1. RowFades /\ row'.status \in Ended
    BY <1>4, StatusFades DEF Refuse
  <2> QED BY <1>4, <2>1, FinishRefuses DEF Refuse
<1>5. ASSUME NEW t \in Tab, Logout(t) PROVE Refuses(t)
  <2>1. CASE MayLogOut(t) /\ tab[t].seen.status = "active"
    <3>1. RowFades /\ row'.status \in Ended
      BY <1>5, <2>1, StatusFades DEF Logout
    <3> QED BY <1>5, <3>1, FinishRefuses DEF Logout
  <2>2. CASE ~(MayLogOut(t) /\ tab[t].seen.status = "active")
    <3>1. tab[t].seen.status = row.status /\ Asking(t) /\ tab[t].sent # None
      BY <1>5 DEF Logout, Locked, Asking, Phases
    <3>2. tab[t].seen.status # "active" => row.status \in Ended
      BY <3>1 DEF TypeOK, Row, Status
    <3>3. ~MayLogOut(t) => "request" \in lost
      BY <1>5, <3>1 DEF Logout, MayLogOut, IsCurrent, IsPrevious, Known, Locked
    <3>4. row' = row
      BY <1>5, <2>2 DEF Logout
    <3> QED BY <1>0, <1>5, <2>2, <3>2, <3>3, <3>4, FinishRefuses DEF Logout
  <2> QED BY <2>1, <2>2
<1>6. ASSUME NEW t \in Tab, NoCookie(t) PROVE Refuses(t)
  <2>1. row.status \in Ended \/ "request" \in lost
    BY <1>6 DEF NoCookie, Spent, SignedOut, Asking
  <2>2. PICK a \in {"invalid", "loggedout"} : Answered(t, a, None)
    BY <1>6 DEF NoCookie
  <2>3. tab'[t] = [Ready EXCEPT !.pc = "answered", !.op = tab[t].op, !.age = tab[t].age,
                                !.sent = tab[t].sent, !.answer = a, !.new = None]
    BY <2>2 DEF Answered, TypeOK
  <2>4. Only(t)
    BY <2>2, <2>3 DEF Answered, Only
  <2> QED BY <1>0, <1>6, <2>1, <2>3, <2>4 DEF NoCookie, Refuses, SameRequest, Ready
<1>7. ASSUME NEW t \in Tab, Start(t) \/ Lock(t) PROVE Waits(t)
  <2>1. tab[t].answer = "none" /\ (tab[t].pc = "lock" => tab[t].sent # None)
    BY <1>7 DEF Start, Lock, Phases
  <2>2. Only(t)
    BY <1>7 DEF Start, Lock, Load, Only, TypeOK
  <2>3. SameRequest(t) /\ tab'[t].now = tab[t].now /\ tab'[t].answer = "none"
    BY <1>7, <2>1 DEF Start, Lock, Load, TypeOK, TabState, SameRequest
  <2> QED BY <1>7, <2>1, <2>2, <2>3 DEF Start, Lock, Load, TypeOK, TabState, Waits
<1>8. ASSUME NEW t \in Tab, Rotate(t) PROVE Rotates(t)
  <2>1. PICK k \in Fresh : row' = Rotated(t, k) /\ Finish(t, "ok", k)
    BY <1>8 DEF Rotate
  <2>2. tab'[t] = [Ready EXCEPT !.pc = "answered", !.op = tab[t].op, !.age = tab[t].age,
                                !.sent = tab[t].sent, !.answer = "ok", !.new = k]
    BY <2>1 DEF Finish, Answered, TypeOK
  <2>3. Only(t)
    BY <2>1, <2>2 DEF Finish, Answered, Only
  <2>4. /\ tab[t].pc = "write" /\ tab[t].op = "refresh" /\ tab[t].sent = row.current
        /\ row.status = "active" /\ tab[t].seen.current = row.current
    BY <1>8 DEF Rotate, Refreshing, IsCurrent, Locked
  <2>5. /\ row'.current = k /\ row'.previous = row.current /\ row'.status = "active"
        /\ row'.used = tab[t].now /\ row'.touched
    BY <2>1, <2>4 DEF Rotated, TypeOK, Row
  <2>6. k # jar /\ \A u \in Tab : k # tab[u].sent
    BY DEF Fresh
  <2> QED BY <1>8, <2>1, <2>2, <2>3, <2>4, <2>5, <2>6 DEF Rotate, Finish, Rotates, SameRequest, Ready
<1>9. ASSUME NEW t \in Tab, Lapse(t) PROVE Quits(t)
  BY <1>9 DEF Lapse, Quits, Only, TypeOK, Ready, Phases
<1>10. ASSUME NEW t \in Tab, Send(t) \/ Leave(t) PROVE Sends(t)
  <2>1. PICK op \in {tab[t].op, "logout"} : SendAs(t, op) /\ (tab[t].pc = "ready" => op = "logout")
    BY <1>10 DEF Send, Leave
  <2> QED BY <1>10, <2>1 DEF Send, Leave, SendAs, Sends, Only, TypeOK, Ready
<1>11. ASSUME NEW t \in Tab, Receive(t) PROVE Quits(t) \/ Receives(t)
  <2>1. tab[t].answer \in {"ok", "conflict", "invalid", "loggedout", "error"} /\ tab[t].pc = "answered"
    BY <1>11 DEF Receive, Phases, TypeOK, TabState
  <2>2. CASE tab[t].answer = "ok"
    <3>1. jar' = row.current /\ tab' = [tab EXCEPT ![t] = Ready]
      BY <1>11, <2>2 DEF Receive, Winner
    <3> QED BY <1>11, <2>1, <2>2, <3>1 DEF Receive, Receives, Only, TypeOK, Ready
  <2>3. CASE tab[t].answer \in {"conflict", "error"}
    <3>1. tab' = [tab EXCEPT ![t] = [Ready EXCEPT !.pc = "backoff", !.op = tab[t].op]] /\ jar' = jar
      BY <1>11, <2>3 DEF Receive, BackOff
    <3> QED BY <1>11, <2>1, <2>3, <3>1 DEF Receive, Quits, Only, TypeOK, Ready
  <2>4. CASE tab[t].answer \in {"invalid", "loggedout"}
    <3>1. tab' = [tab EXCEPT ![t] = [Ready EXCEPT !.pc = "out", !.op = tab[t].op]] /\ jar' = None
      BY <1>11, <2>4 DEF Receive
    <3> QED BY <1>11, <2>1, <2>4, <3>1 DEF Receive, Receives, Only, TypeOK, Ready
  <2> QED BY <2>1, <2>2, <2>3, <2>4
<1>12. ASSUME NEW t \in Tab, Lose(t) PROVE Quits(t)
  BY <1>12 DEF Lose, BackOff, Quits, Only, TypeOK, Ready
<1>13. CASE Ping \/ Pinged
  <2>1. CASE row' = row
    BY <1>0, <1>13, <2>1 DEF Ping, Pinged, RowMoves, Moves
  <2>2. CASE row' # row
    <3>1. ping \in 0 .. Latency /\ row' = [row EXCEPT !.used = ping, !.touched = TRUE] /\ row.status # "gone"
      BY <1>13, <2>2 DEF Ping, Pinged, TypeOK
    <3>2. RowFades
      BY <3>1, Durations DEF RowFades, TypeOK, Row
    <3> QED BY <1>13, <2>2, <3>2 DEF Ping, Pinged, RowMoves, Moves
  <2> QED BY <2>1, <2>2
<1>14. CASE End("revoked") \/ End("expired") \/ Expire
  <2>1. RowFades
    BY <1>14, StatusFades DEF End, Expire
  <2> QED BY <1>14, <2>1 DEF End, Expire, RowMoves, Moves
<1>15. CASE Cleanup
  <2>1. RowFades
    BY <1>15, <1>0 DEF Cleanup, RowFades, TypeOK, Row, Ended
  <2> QED BY <1>15, <2>1 DEF Cleanup, RowMoves, Moves
<1> QED
  BY <1>1, <1>2, <1>3, <1>4, <1>5, <1>6, <1>7, <1>8, <1>9, <1>10, <1>11, <1>12, <1>13, <1>14,
     <1>15 DEF Next, Serve, Moves
-----------------------------------------------------------------------------
(* The parts of the invariant, one lemma each.                             *)

LEMMA Others ==
  ASSUME TypeOK, NEW t \in Tab, Only(t), NEW u \in Tab, u # t
  PROVE  tab'[u] = tab[u]
BY DEF Only, TypeOK

\* What a tick changes in a tab.
LEMMA TickTab ==
  ASSUME TypeOK, Tick, NEW t \in Tab
  PROVE  /\ tab[t].pc # "need" /\ (tab'[t].pc = tab[t].pc \/ (tab[t].pc = "backoff" /\ tab'[t].pc = "need"))
         /\ Out(t) => tab'[t].age = tab[t].age + 1 /\ tab'[t].age <= Latency
         /\ tab[t].pc = "ready" => tab'[t].age <= tab[t].age + 1
         /\ tab'[t].now \in {tab[t].now, tab[t].now + 1}
         /\ tab'[t].op = tab[t].op /\ tab'[t].sent = tab[t].sent /\ tab'[t].seen = tab[t].seen
         /\ tab'[t].answer = tab[t].answer /\ tab'[t].new = tab[t].new
<1>1. tab[t] \in TabState
  BY DEF TypeOK
<1>2. /\ tab[t].pc # "need" /\ (Out(t) => tab[t].age < Latency)
      /\ tab[t].age \in Nat /\ tab[t].now \in Nat
  <2>1. \A n \in 0 .. AccessLife : n \in Nat
    BY Durations
  <2> QED BY <1>1, <2>1 DEF Tick, TabState
<1> DEFINE pc == IF tab[t].pc = "backoff" THEN "need" ELSE tab[t].pc
           age == IF Out(t) \/ (tab[t].pc = "ready" /\ tab[t].age < AccessLife)
                  THEN tab[t].age + 1 ELSE tab[t].age
           now == IF tab[t].pc \in {"lock", "write"} THEN tab[t].now + 1 ELSE tab[t].now
<1>3. tab'[t] = [tab[t] EXCEPT !.pc = pc, !.age = age, !.now = now]
  BY DEF Tick
<1>4. /\ tab'[t].pc = pc /\ tab'[t].age = age /\ tab'[t].now = now
      /\ tab'[t].op = tab[t].op /\ tab'[t].sent = tab[t].sent /\ tab'[t].seen = tab[t].seen
      /\ tab'[t].answer = tab[t].answer /\ tab'[t].new = tab[t].new
  BY <1>1, <1>3 DEF TabState
<1> QED BY <1>2, <1>4, Durations

LEMMA TickRow ==
  ASSUME TypeOK, Tick
  PROVE  /\ row'.status = row.status /\ row'.current = row.current /\ row'.previous = row.previous
         /\ row'.touched = row.touched /\ row'.used <= row.used + 1
         /\ UNCHANGED <<owner, jar, lost, alarm>>
<1>1. row \in Row /\ row.used \in Nat
  BY Durations DEF TypeOK, Row, Age, AgeCap
<1>2. Older(row.used) <= row.used + 1
  BY <1>1 DEF Older
<1>3. row' = row \/ row' = [row EXCEPT !.used = Older(row.used)]
  BY DEF Tick
<1>4. row'.used <= row.used + 1
  BY <1>1, <1>2, <1>3 DEF Row
<1> QED BY <1>1, <1>3, <1>4 DEF Tick, Row

LEMMA LockedStep ==
  ASSUME SessionInv, TypeOK', Moves
  PROVE  Locked'
<1> USE DEF SessionInv
<1>1. ASSUME NEW t \in Tab, Quits(t) \/ Sends(t) \/ Receives(t) PROVE Locked'
  BY <1>1, Others, Nobody DEF Quits, Sends, Receives, Locked
<1>2. ASSUME NEW t \in Tab, Waits(t) PROVE Locked'
  BY <1>2, Others, Nobody DEF Waits, Locked, TypeOK
<1>3. ASSUME NEW t \in Tab, Refuses(t) PROVE Locked'
  BY <1>3, Others, Nobody DEF Refuses, Locked, RowFades
<1>4. ASSUME NEW t \in Tab, Rotates(t) PROVE Locked'
  BY <1>4, Others, Nobody DEF Rotates, Locked
<1>5. CASE RowMoves
  BY <1>5, Nobody DEF RowMoves, Locked
<1>6. CASE Tick
  BY <1>6, TickTab, TickRow DEF Locked
<1>7. CASE UNCHANGED vars
  BY <1>7 DEF vars, Locked
<1> QED BY <1>1, <1>2, <1>3, <1>4, <1>5, <1>6, <1>7 DEF Moves

LEMMA PhasesStep ==
  ASSUME SessionInv, TypeOK', Moves
  PROVE  Phases'
<1> USE DEF SessionInv
<1>1. ASSUME NEW t \in Tab, Quits(t) \/ Sends(t) \/ Receives(t) PROVE Phases'
  BY <1>1, Others DEF Quits, Sends, Receives, Phases
<1>2. ASSUME NEW t \in Tab, Waits(t) PROVE Phases'
  BY <1>2, Others DEF Waits, SameRequest, Phases
<1>3. ASSUME NEW t \in Tab, Refuses(t) \/ Rotates(t) PROVE Phases'
  BY <1>3, Others DEF Refuses, Rotates, Phases
<1>4. CASE RowMoves
  BY <1>4 DEF RowMoves, Phases
<1>5. CASE Tick
  BY <1>5, TickTab DEF Phases
<1>6. CASE UNCHANGED vars
  BY <1>6 DEF vars, Phases
<1> QED BY <1>1, <1>2, <1>3, <1>4, <1>5, <1>6 DEF Moves

LEMMA WinnerStep ==
  ASSUME SessionInv, TypeOK', Moves
  PROVE  Winner'
<1> USE DEF SessionInv
<1>0. row.current \in Token /\ row.current # row.previous
  BY DEF TypeOK, Row
<1>1. ASSUME NEW t \in Tab, Quits(t) PROVE Winner'
  BY <1>1, Others DEF Quits, Winner, Asking
<1>2. ASSUME NEW t \in Tab, Sends(t) PROVE Winner'
  BY <1>2, Others DEF Sends, Winner, Asking
<1>3. ASSUME NEW t \in Tab, Waits(t) PROVE Winner'
  BY <1>3, Others DEF Waits, SameRequest, Winner, Asking
<1>4. ASSUME NEW t \in Tab, Refuses(t) PROVE Winner'
  BY <1>4, Others DEF Refuses, RowFades, Winner, Asking
<1>5. ASSUME NEW t \in Tab, Rotates(t) PROVE Winner'
  <2>1. \A u \in Tab : tab[u].answer # "ok"
    BY <1>5 DEF Rotates, Winner, Asking
  <2> QED BY <1>5, <2>1, Others DEF Rotates, SameRequest, Winner, Asking
<1>6. ASSUME NEW t \in Tab, Receives(t) PROVE Winner'
  <2>1. CASE tab[t].answer = "ok"
    <3>1. \A u \in Tab : tab'[u].answer # "ok"
      BY <1>6, <2>1, Others DEF Receives, Winner
    <3> QED BY <3>1 DEF Winner
  <2>2. CASE tab[t].answer # "ok"
    BY <1>0, <1>6, <2>2, Others, Nobody DEF Receives, Winner, Asking
  <2> QED BY <2>1, <2>2
<1>7. CASE RowMoves
  BY <1>7 DEF RowMoves, RowFades, Winner, Asking
<1>8. CASE Tick
  BY <1>8, TickTab, TickRow DEF Winner, Asking
<1>9. CASE UNCHANGED vars
  BY <1>9 DEF vars, Winner, Asking
<1> QED BY <1>1, <1>2, <1>3, <1>4, <1>5, <1>6, <1>7, <1>8, <1>9 DEF Moves

LEMMA CookieStep ==
  ASSUME SessionInv, TypeOK', Moves
  PROVE  Cookie'
<1> USE DEF SessionInv
<1>0. row.current \in Token /\ row.current # row.previous
  BY DEF TypeOK, Row
<1>1. ASSUME NEW t \in Tab, Quits(t) PROVE Cookie'
  BY <1>1, Others DEF Quits, Cookie, Asking
<1>2. ASSUME NEW t \in Tab, Sends(t) PROVE Cookie'
  <2>1. tab'[t].answer = tab[t].answer
    BY <1>2 DEF Sends, Phases, TypeOK, TabState
  <2> QED BY <1>0, <1>2, <2>1, Others DEF Sends, Cookie, Asking
<1>3. ASSUME NEW t \in Tab, Waits(t) PROVE Cookie'
  <2>1. tab[t].answer # "ok"
    BY <1>3 DEF Waits, Phases
  <2> QED BY <1>3, <2>1, Others DEF Waits, SameRequest, Cookie, Asking
<1>4. ASSUME NEW t \in Tab, Refuses(t) PROVE Cookie'
  <2>1. tab[t].answer # "ok"
    BY <1>4 DEF Refuses, Phases
  <2> QED BY <1>4, <2>1, Others DEF Refuses, RowFades, Cookie, Asking
<1>5. ASSUME NEW t \in Tab, Rotates(t) PROVE Cookie'
  <2>1. jar \in {row.current, None}
    BY <1>5 DEF Rotates, Cookie, Asking
  <2> QED BY <1>5, <2>1, Others DEF Rotates, SameRequest, Cookie, Asking
<1>6. ASSUME NEW t \in Tab, Receives(t) PROVE Cookie'
  BY <1>0, <1>6, Others, Nobody DEF Receives, Cookie, Asking
<1>7. CASE RowMoves
  BY <1>7 DEF RowMoves, RowFades, Cookie, Asking
<1>8. CASE Tick
  BY <1>8, TickTab, TickRow DEF Cookie, Asking
<1>9. CASE UNCHANGED vars
  BY <1>9 DEF vars, Cookie, Asking
<1> QED BY <1>1, <1>2, <1>3, <1>4, <1>5, <1>6, <1>7, <1>8, <1>9 DEF Moves

LEMMA KnownStep ==
  ASSUME SessionInv, TypeOK', Moves
  PROVE  Known'
<1> USE DEF SessionInv
<1>1. ASSUME NEW t \in Tab, Quits(t) \/ Receives(t) PROVE Known'
  BY <1>1, Others DEF Quits, Receives, Known, Asking
<1>2. ASSUME NEW t \in Tab, Sends(t) PROVE Known'
  BY <1>2, Others DEF Sends, Known, Asking, Cookie
<1>3. ASSUME NEW t \in Tab, Waits(t) PROVE Known'
  BY <1>3, Others DEF Waits, SameRequest, Known, Asking
<1>4. ASSUME NEW t \in Tab, Refuses(t) PROVE Known'
  BY <1>4, Others DEF Refuses, RowFades, Known, Asking
<1>5. ASSUME NEW t \in Tab, Rotates(t) PROVE Known'
  <2> SUFFICES ASSUME "request" \notin lost', NEW u \in Tab, Asking(u)'
               PROVE  tab'[u].sent \in {row'.current, row'.previous, None}
    BY DEF Known
  <2>1. u # t /\ tab'[u] = tab[u] /\ Asking(u)
    BY <1>5, Others DEF Rotates, Asking
  <2>2. tab[u].pc # "write"
    BY <1>5, <2>1 DEF Rotates, Locked
  <2>3. "request" \notin lost /\ ~Overtakes(t)
    BY <1>5 DEF Rotates
  <2>4. tab[u].sent \in {row.current, None}
    BY <2>1, <2>2, <2>3 DEF Known, Overtakes, Asking
  <2> QED BY <1>5, <2>1, <2>4 DEF Rotates
<1>6. CASE RowMoves
  BY <1>6 DEF RowMoves, RowFades, Known, Asking
<1>7. CASE Tick
  BY <1>7, TickTab, TickRow DEF Known, Asking
<1>8. CASE UNCHANGED vars
  BY <1>8 DEF vars, Known, Asking
<1> QED BY <1>1, <1>2, <1>3, <1>4, <1>5, <1>6, <1>7, <1>8 DEF Moves

LEMMA SpentStep ==
  ASSUME SessionInv, TypeOK', Moves
  PROVE  Spent'
<1> USE DEF SessionInv
<1> DEFINE Over == row.status \in Ended \/ "request" \in lost
           Signs == jar = None \/ \E t \in Tab : SignedOut(t)
<1>1. ASSUME NEW t \in Tab, Quits(t) PROVE Signs' => Signs
  BY <1>1, Others DEF Quits, SignedOut, Asking
<1>2. ASSUME NEW t \in Tab, Sends(t) PROVE Signs' => Signs
  BY <1>2, Others DEF Sends, SignedOut, Asking
<1>3. ASSUME NEW t \in Tab, Waits(t) PROVE Signs' => Signs
  BY <1>3, Others DEF Waits, SameRequest, SignedOut, Asking
<1>4. ASSUME NEW t \in Tab, Refuses(t) PROVE Signs' => Signs \/ Over'
  BY <1>4, Others DEF Refuses, SignedOut, Asking
<1>5. ASSUME NEW t \in Tab, Rotates(t) PROVE Signs' => Signs
  BY <1>5, Others DEF Rotates, SignedOut, Asking
<1>6. ASSUME NEW t \in Tab, Receives(t) PROVE Signs' => Signs
  <2>1. row.current # None
    BY Nobody DEF TypeOK, Row
  <2> QED BY <1>6, <2>1, Others DEF Receives, SignedOut, Asking
<1>7. CASE RowMoves \/ UNCHANGED vars
  <2>1. Signs' <=> Signs
    BY <1>7 DEF RowMoves, vars, SignedOut, Asking
  <2> QED BY <1>7, <2>1 DEF RowMoves, RowFades, vars, Spent
<1>8. CASE Tick
  <2>1. Signs' => Signs
    BY <1>8, TickTab, TickRow DEF SignedOut, Asking
  <2> QED BY <1>8, <2>1, TickRow DEF Spent
<1>9. ASSUME NEW t \in Tab,
             Quits(t) \/ Sends(t) \/ Waits(t) \/ Refuses(t) \/ Rotates(t) \/ Receives(t)
      PROVE  Over => Over'
  BY <1>9 DEF Quits, Sends, Waits, Refuses, RowFades, Rotates, Receives, Ended
<1>10. Spent <=> (Signs => Over)
  BY DEF Spent
<1>11. Spent' <=> (Signs' => Over')
  BY DEF Spent
<1> HIDE DEF Over, Signs
<1> QED
  BY <1>1, <1>2, <1>3, <1>4, <1>5, <1>6, <1>7, <1>8, <1>9, <1>10, <1>11 DEF Moves

LEMMA TimelyStep ==
  ASSUME SessionInv, TypeOK', Moves
  PROVE  Timely'
<1> USE DEF SessionInv
<1>0. /\ Latency \in Nat /\ row.used \in Nat /\ row'.used \in Nat /\ row.current # row.previous
      /\ \A u \in Tab : /\ tab[u].age \in Nat /\ tab[u].now \in Nat
                       /\ tab'[u].age \in Nat /\ tab'[u].now \in Nat
  <2>1. \A n \in 0 .. AccessLife : n \in Nat
    BY Durations
  <2>2. \A n \in Age : n \in Nat
    BY Durations DEF Age, AgeCap
  <2> QED BY <2>1, <2>2, Durations DEF TypeOK, Row, TabState
<1>1. ASSUME NEW t \in Tab, Quits(t) \/ Receives(t) PROVE Timely'
  BY <1>1, Others DEF Quits, Receives, Timely, Asking, Out
<1>2. ASSUME NEW t \in Tab, Sends(t) PROVE Timely'
  <2>1. jar = row.previous /\ row.previous # None /\ "answer" \notin lost =>
          \E u \in Tab : tab[u].answer = "ok" /\ Out(u) /\ row.used <= tab[u].age + Latency
    BY DEF Cookie, Timely, Phases, Out
  <2>2. jar = row.previous /\ row.previous # None /\ "answer" \notin lost => row.used <= 2 * Latency
    BY <1>0, <2>1 DEF Timely
  <2> QED BY <1>0, <1>2, <2>2, Others DEF Sends, Timely, Asking, Out
<1>3. ASSUME NEW t \in Tab, Waits(t) PROVE Timely'
  BY <1>3, Others DEF Waits, SameRequest, Timely, Asking, Out
<1>4. ASSUME NEW t \in Tab, Refuses(t) PROVE Timely'
  <2>1. Out(t)
    BY <1>4 DEF Refuses, Out
  <2> QED BY <1>0, <1>4, <2>1, Others DEF Refuses, SameRequest, RowFades, Timely, Asking, Out
<1>5. ASSUME NEW t \in Tab, Rotates(t) PROVE Timely'
  <2>1. Out(t) /\ row'.used <= Latency /\ row'.used <= tab[t].age
    BY <1>0, <1>5 DEF Rotates, Out, Timely
  <2>2. \A u \in Tab : tab'[u].answer = "ok" => u = t
    BY <1>5, Others DEF Rotates, Winner, Asking
  <2> QED BY <1>0, <1>5, <2>1, <2>2, Others DEF Rotates, SameRequest, Timely, Asking, Out
<1>6. CASE RowMoves
  BY <1>0, <1>6 DEF RowMoves, RowFades, Timely, Asking, Out
<1>7. CASE Tick
  <2>1. \A u \in Tab : (Out(u)' <=> Out(u)) /\ (Asking(u)' <=> Asking(u)) /\ (Asking(u) => Out(u))
    BY <1>7, TickTab DEF Out, Asking
  <2>2. \A u \in Tab : Out(u) => tab'[u].age = tab[u].age + 1 /\ tab'[u].age <= Latency
                                /\ tab'[u].now <= tab'[u].age
    BY <1>0, <1>7, TickTab DEF Timely
  <2>3. row'.used <= row.used + 1
    BY <1>7, TickRow
  <2>4. row'.status # "gone" /\ row'.previous # None => row'.touched
    BY <1>7, TickRow DEF Timely
  <2>5. \A u \in Tab : tab'[u].answer = "ok" => row'.used <= tab'[u].age + Latency
    <3> SUFFICES ASSUME NEW u \in Tab, tab'[u].answer = "ok"
                 PROVE  row'.used <= tab'[u].age + Latency
      OBVIOUS
    <3>1. tab[u].answer = "ok" /\ Out(u)
      BY <1>7, TickTab DEF Phases, Out
    <3> QED BY <1>0, <2>2, <2>3, <3>1 DEF Timely
  <2>6. \A u \in Tab :
          Asking(u)' /\ tab'[u].sent = row'.previous /\ row'.previous # None /\ "answer" \notin lost' =>
            row'.used <= tab'[u].age + 2 * Latency
    <3> SUFFICES ASSUME NEW u \in Tab, Asking(u)', tab'[u].sent = row'.previous,
                        row'.previous # None, "answer" \notin lost'
                 PROVE  row'.used <= tab'[u].age + 2 * Latency
      OBVIOUS
    <3>1. Asking(u) /\ Out(u) /\ tab[u].sent = row.previous /\ row.previous # None
          /\ "answer" \notin lost
      BY <1>7, <2>1, TickTab, TickRow
    <3>2. row.used <= tab[u].age + 2 * Latency
      BY <3>1 DEF Timely
    <3> QED BY <1>0, <2>2, <2>3, <3>1, <3>2
  <2> QED BY <2>1, <2>2, <2>4, <2>5, <2>6 DEF Timely
<1>8. CASE UNCHANGED vars
  BY <1>8 DEF vars, Timely, Asking, Out
<1> QED BY <1>1, <1>2, <1>3, <1>4, <1>5, <1>6, <1>7, <1>8 DEF Moves

LEMMA SlowerStep ==
  ASSUME SessionInv, TypeOK', Moves
  PROVE  Slower'
<1> USE DEF SessionInv
<1>0. /\ row.current # row.previous /\ row'.current # row'.previous
      /\ \A u \in Tab : tab[u].age \in Nat /\ tab'[u].age \in Nat
  <2>1. \A n \in 0 .. AccessLife : n \in Nat
    BY Durations
  <2> QED BY <2>1 DEF TypeOK, Row, TabState
<1>1. ASSUME NEW t \in Tab, Quits(t) PROVE Slower'
  <2>1. row.status = "active" /\ tab[t].pc = "ready" => tab[t].age >= AccessLife
    BY <1>1 DEF Quits, Ended
  <2>2. \A u \in Tab : Asking(u) => tab[u].age <= Latency
    BY DEF Timely, Out, Asking
  <2> SUFFICES ASSUME Slower, TwoTabs, row.status = "active", jar = row.current, NEW v \in Tab,
                      NEW u \in Tab, Asking(u)', tab'[u].sent = row.previous, row.previous # None, v # u
               PROVE  tab'[v].op = "logout" \/ (tab'[v].pc = "ready" /\ tab'[v].age <= tab'[u].age)
    BY <1>1 DEF Quits, Slower, TwoTabs
  <2>3. u # t /\ tab'[u] = tab[u] /\ Asking(u)
    BY <1>1, Others DEF Quits, Asking
  <2>4. tab[v].op = "logout" \/ (tab[v].pc = "ready" /\ tab[v].age <= tab[u].age)
    BY <2>3 DEF Slower
  <2>5. CASE v # t
    BY <1>1, <2>3, <2>4, <2>5, Others DEF Quits
  <2>6. CASE v = t
    <3>1. tab[v].pc # "ready" \/ tab[v].op = "logout"
      BY <1>0, <2>1, <2>2, <2>3, <2>4, <2>6, Durations
    <3>2. tab[v].pc # "ready" /\ tab[v].op = "logout"
      BY <2>4, <3>1 DEF Phases
    <3> QED BY <1>1, <2>6, <3>2 DEF Quits
  <2> QED BY <2>5, <2>6
<1>2. ASSUME NEW t \in Tab, Sends(t) PROVE Slower'
  BY <1>0, <1>2, Others DEF Sends, Slower, Asking
<1>3. ASSUME NEW t \in Tab, Waits(t) PROVE Slower'
  BY <1>3, Others DEF Waits, SameRequest, Slower, Asking
<1>4. ASSUME NEW t \in Tab, Refuses(t) PROVE Slower'
  BY <1>4, Others DEF Refuses, SameRequest, RowFades, Slower, Asking, Ended
<1>5. ASSUME NEW t \in Tab, Rotates(t) PROVE Slower'
  BY <1>5 DEF Rotates, Slower
<1>6. ASSUME NEW t \in Tab, Receives(t) PROVE Slower'
  <2>1. CASE tab[t].answer = "ok"
    BY <1>0, <1>6, <2>1, Others DEF Receives, Slower, Asking, TwoTabs
  <2>2. CASE tab[t].answer # "ok"
    <3>1. row.current # None
      BY Nobody DEF TypeOK, Row
    <3> QED BY <1>6, <2>2, <3>1 DEF Receives, Slower
  <2> QED BY <2>1, <2>2
<1>7. CASE RowMoves
  BY <1>7 DEF RowMoves, RowFades, Slower, Asking, Ended
<1>8. CASE Tick
  BY <1>0, <1>8, TickTab, TickRow DEF Slower, Asking, Out
<1>9. CASE UNCHANGED vars
  BY <1>9 DEF vars, Slower, Asking
<1> QED BY <1>1, <1>2, <1>3, <1>4, <1>5, <1>6, <1>7, <1>8, <1>9 DEF Moves

LEMMA FairStep ==
  ASSUME SessionInv, TypeOK', Moves
  PROVE  Fair'
<1> USE DEF SessionInv
<1>1. ASSUME NEW t \in Tab, Rotates(t), TwoTabs, Overtakes(t), "request" \notin lost PROVE FALSE
  <2>1. PICK u \in Tab \ {t} : Asking(u) /\ tab[u].sent # None /\ tab[u].sent = row.previous
    BY <1>1 DEF Overtakes, Asking
  <2>2. jar = row.current
    <3>1. jar # None
      BY <1>1 DEF Rotates, Spent, Ended
    <3>2. jar # row.previous
      BY <1>1, <3>1 DEF Rotates, Cookie, Asking
    <3> QED BY <3>1, <3>2 DEF Cookie
  <2> QED BY <1>1, <2>1, <2>2 DEF Rotates, Slower
<1>2. "request" \in lost' => "request" \in lost \/ \E t \in Tab : Rotates(t) /\ Overtakes(t)
  BY TickRow DEF Moves, Quits, Sends, Waits, Refuses, Rotates, Receives, RowMoves, vars
<1>3. alarm' => alarm \/ "answer" \in lost
  BY TickRow DEF Moves, Quits, Sends, Waits, Refuses, Rotates, Receives, RowMoves, vars
<1>4. lost \subseteq lost'
  BY TickRow DEF Moves, Quits, Sends, Waits, Refuses, Rotates, Receives, RowMoves, vars
<1> QED BY <1>1, <1>2, <1>3, <1>4 DEF Fair, NoFalseAlarm, TwoTabs

LEMMA SessionStep == SessionInv /\ [Next]_vars => SessionInv'
<1> SUFFICES ASSUME SessionInv, [Next]_vars PROVE SessionInv'
  OBVIOUS
<1>1. Moves /\ TypeOK'
  BY StepKinds, TypeStep DEF SessionInv
<1> QED
  BY <1>1, LockedStep, PhasesStep, WinnerStep, CookieStep, KnownStep, SpentStep, TimelyStep,
     SlowerStep, FairStep DEF SessionInv

LEMMA SessionInvariant == Spec => []SessionInv
BY SessionInit, SessionStep, PTL DEF Spec
-----------------------------------------------------------------------------
(* What follows.                                                           *)

\* The session, its requests and the browser's tabs stay well formed, and a
\* rotation never stores one token twice.
THEOREM SessionTypes == Spec => []TypeOK
<1>1. SessionInv => TypeOK
  BY DEF SessionInv
<1> QED BY <1>1, SessionInvariant, PTL

\* However many tabs there are, no two of them exchange the same token, whatever
\* revocations, activity reports and failures come in between.
THEOREM TokensAreExchangedOnce == Spec => []OneWinner
<1>1. SessionInv => OneWinner
  BY DEF SessionInv, Winner, OneWinner
<1> QED BY <1>1, SessionInvariant, PTL

\* While no answer is lost and no request is overtaken by two rotations, the
\* browser has the current token of an active session or is about to get it; and
\* two tabs do not overtake each other.
THEOREM CredentialsStay == Spec => []CredentialKept
<1>1. SessionInv => CredentialKept
  <2> SUFFICES ASSUME SessionInv, row.status = "active", lost = {}, jar # row.current
               PROVE  \E t \in Tab : tab[t].answer = "ok" /\ tab[t].new = row.current
    BY DEF SessionInv, Fair, CredentialKept
  <2>1. jar # None
    BY DEF SessionInv, Spent, Ended
  <2>2. jar = row.previous
    BY <2>1 DEF SessionInv, Cookie
  <2>3. PICK t \in Tab : tab[t].answer = "ok"
    BY <2>1, <2>2 DEF SessionInv, Cookie
  <2> QED BY <2>3 DEF SessionInv, Winner
<1> QED BY <1>1, SessionInvariant, PTL

\* Who has logged out, or was told to log in again, leaves no active session
\* behind, unless a request was overtaken by two rotations.
THEOREM SignedOutForGood == Spec => []SignedOutIsEnded
<1>1. SessionInv => SignedOutIsEnded
  BY DEF SessionInv, Spent, SignedOut, SignedOutIsEnded
<1> QED BY <1>1, SessionInvariant, PTL

\* However many tabs there are and whatever activity is reported, a sibling's
\* token is not taken for a stolen one, unless an answer was lost.
THEOREM SiblingsAreNotSuspected == Spec => []NoFalseAlarm
<1>1. SessionInv => NoFalseAlarm
  BY DEF SessionInv, Fair
<1> QED BY <1>1, SessionInvariant, PTL

-----------------------------------------------------------------------------
(* The account: the inductive invariant.                                   *)

\* An account that is not locked for good has a count below the limit.
Sane(u) == u \in Rows /\ (~u.locked => u.attempts < PermanentAfter)

\* A whole row that may be saved again.
Remembers(x) == \E u \in Rows : x.copy = {u} /\ Sane(u)

Works ==
  [pc: {"idle", "read", "wrong", "right", "count", "open", "revoke", "make"},
   op: {"none", "login", "lock", "unlock", "temporary", "change", "edit", "link",
        "admin link", "confirm"},
   given: Passwords \cup {NoPassword}, copy: SUBSET Rows,
   seen: Seq(Id), link: SUBSET Link]

\* What a handler has read when it is about to write.
Work(x) ==
  /\ x \in Works
  /\ x.op = "login" /\ x.pc \in {"read", "wrong"} =>
       \E u \in Rows : x.copy = {u} /\ Sane(u) /\ ~u.locked
  /\ x.op = "login" /\ x.pc \in {"right", "count", "open"} => x.given \in Passwords
  /\ x.op \in {"change", "edit"} /\ x.pc = "read" => Remembers(x)

\* Few sessions, and no two with one id.
SessionTypesOf(s) ==
  /\ s \in Seq(Sessions) /\ Len(s) <= MaxOpen
  /\ \A i, j \in 1 .. Len(s) : s[i].id = s[j].id => i = j

\* Every handler's work is as it should be.
AllWork == h = [r \in Handler |-> h[r]] /\ \A r \in Handler : Work(h[r])

\* The inductive invariant.
AccountInv ==
  /\ Sane(user) /\ made \in Passwords /\ failures \in Nat
  /\ links \in [Link -> {"recent", "live", "off"}]
  /\ SessionTypesOf(sessions) /\ SessionsFollowPassword
  /\ AllWork

LEMMA Doing ==
  ASSUME AllWork, NEW r \in Handler, NEW x, Work(x), To(r, x)
  PROVE  AllWork' /\ h'[r] = x
BY DEF AllWork, To

LEMMA FreeWorks == Work(Free)
<1>1. << >> \in Seq(Id)
  OBVIOUS
<1>2. Free \in Works
  BY <1>1 DEF Free, Works
<1>3. Free.op = "none"
  BY DEF Free
<1> QED BY <1>2, <1>3 DEF Work

LEMMA GoWorks ==
  ASSUME NEW x, Work(x), x.pc # "idle", NEW p \in {"count", "revoke"},
         p = "count" => x.op = "login" /\ x.pc = "right",
         p = "revoke" => x.op # "login"
  PROVE  Work([x EXCEPT !.pc = p])
<1> DEFINE y == [x EXCEPT !.pc = p]
<1>1. x \in Works
  BY DEF Work
<1>2. y \in Works
  BY <1>1 DEF Works
<1>3. y.pc = p /\ y.op = x.op /\ y.given = x.given
  BY <1>1 DEF Works
<1> QED BY <1>2, <1>3 DEF Work

LEMMA CopyIs ==
  ASSUME NEW r \in Handler, NEW u, h[r].copy = {u}
  PROVE  Copy(r) = u
BY DEF Copy

LEMMA Shape ==
  ASSUME NEW u, Sane(u)
  PROVE  /\ u \in Rows
         /\ u.pw \in Passwords /\ u.locked \in BOOLEAN
         /\ u.until \in {"none", "future", "past"} /\ u.attempts \in 0 .. PermanentAfter
         /\ ~u.locked => u.attempts < PermanentAfter
BY DEF Sane, Rows

LEMMA CountedSane ==
  ASSUME Sane(user), NEW u, Sane(u), ~u.locked, NEW fresh \in BOOLEAN
  PROVE  /\ Sane(Counted(u, fresh))
         /\ Counted(u, fresh).pw = user.pw
         /\ user.locked => Counted(u, fresh).locked
<1> DEFINE n == IF fresh THEN 1 ELSE u.attempts + 1
           v == Counted(u, fresh)
<1>1. n \in 1 .. PermanentAfter
  BY Shape, AccountAssumption
<1>2. /\ user \in Rows /\ user.locked \in BOOLEAN
  BY Shape
<1>3. v = [user EXCEPT !.attempts = n,
                 !.until = IF lockout /\ n >= LockAfter THEN "future" ELSE @,
                 !.locked = @ \/ n >= PermanentAfter]
  BY DEF Counted
<1> HIDE DEF n, v
<1>4. /\ v.attempts = n /\ v.pw = user.pw /\ v.locked = (user.locked \/ n >= PermanentAfter)
      /\ v.until \in {"none", "future", "past"}
  BY <1>2, <1>3 DEF Rows
<1>5. v \in Rows
  <2>1. n \in 0 .. PermanentAfter
    BY <1>1, AccountAssumption
  <2>2. v = [pw |-> v.pw, locked |-> v.locked, until |-> v.until, attempts |-> v.attempts]
    BY <1>2, <1>3 DEF Rows
  <2>3. v.pw \in Passwords /\ v.locked \in BOOLEAN
    BY <1>2, <1>4, Shape
  <2> QED BY <1>4, <2>1, <2>2, <2>3 DEF Rows
<1>6. Sane(v)
  BY <1>1, <1>4, <1>5, AccountAssumption DEF Sane, Rows
<1> QED BY <1>4, <1>6 DEF v

LEMMA UnfailedSane ==
  ASSUME NEW u, Sane(u), NEW l \in BOOLEAN
  PROVE  /\ Sane(Unfailed(u)) /\ Unfailed(u).pw = u.pw
         /\ Unfailed(u).locked = u.locked
         /\ Sane([Unfailed(u) EXCEPT !.locked = l])
         /\ [Unfailed(u) EXCEPT !.locked = l].pw = u.pw
         /\ [Unfailed(u) EXCEPT !.locked = l].locked = l
<1>1. u \in Rows
  BY Shape
<1>2. Unfailed(u) = [u EXCEPT !.attempts = 0, !.until = "none"]
  BY DEF Unfailed
<1>3. Unfailed(u) \in Rows
  <2>1. 0 \in 0 .. PermanentAfter
    BY AccountAssumption
  <2> QED BY <1>1, <1>2, <2>1 DEF Rows
<1>4. /\ Unfailed(u).attempts = 0 /\ Unfailed(u).pw = u.pw
      /\ Unfailed(u).locked = u.locked
  BY <1>1, <1>2 DEF Rows
<1>5. [Unfailed(u) EXCEPT !.locked = l] \in Rows
  BY <1>3 DEF Rows
<1>6. /\ [Unfailed(u) EXCEPT !.locked = l].attempts = 0
      /\ [Unfailed(u) EXCEPT !.locked = l].pw = u.pw
      /\ [Unfailed(u) EXCEPT !.locked = l].locked = l
  BY <1>3, <1>4 DEF Rows
<1> QED BY <1>3, <1>4, <1>5, <1>6, AccountAssumption DEF Sane

LEMMA AfterIs ==
  ASSUME SessionTypesOf(sessions), NEW K, NEW s \in After(K), MaxOpen \in Nat
  PROVE  /\ SessionTypesOf(s)
         /\ Len(s) = Cardinality(Left(K))
         /\ \A i \in 1 .. Len(s) : \E j \in 1 .. Len(sessions) :
              s[i] = sessions[j] /\ sessions[j].id \notin K
<1> DEFINE S == Left(K)
           n == Cardinality(S)
<1>1. /\ sessions \in Seq(Sessions) /\ Len(sessions) \in Nat
      /\ DOMAIN sessions = 1 .. Len(sessions)
      /\ \A j \in 1 .. Len(sessions) : sessions[j] \in Sessions
  BY DEF SessionTypesOf
<1>2. IsFiniteSet(1 .. Len(sessions)) /\ Cardinality(1 .. Len(sessions)) = Len(sessions)
  <2>1. Len(sessions) \in Int /\ 1 \in Int /\ Len(sessions) >= 0
    BY <1>1
  <2> HIDE DEF S
  <2>2. /\ IsFiniteSet(1 .. Len(sessions))
        /\ Cardinality(1 .. Len(sessions)) = IF 1 > Len(sessions) THEN 0 ELSE Len(sessions) - 1 + 1
    BY <2>1, FS_Interval
  <2> QED BY <2>1, <2>2
<1>3. S \subseteq 1 .. Len(sessions)
  BY <1>1 DEF Left
<1>4. IsFiniteSet(S) /\ n \in Nat /\ n <= Len(sessions)
  BY <1>2, <1>3, FS_Subset, FS_CardinalityType
<1>5. PICK f \in Orders(S) : s = [i \in DOMAIN f |-> sessions[f[i]]]
  BY DEF After
<1>6. f \in [1 .. n -> S] /\ \A i, j \in 1 .. n : i < j => f[i] < f[j]
  BY <1>4, <1>5 DEF Orders
<1> HIDE DEF S, n
<1>7. s = [i \in 1 .. n |-> sessions[f[i]]] /\ \A i \in 1 .. n : s[i] = sessions[f[i]]
  BY <1>5, <1>6
<1>8. \A i \in 1 .. n : f[i] \in 1 .. Len(sessions) /\ sessions[f[i]].id \notin K
  BY <1>6, <1>3 DEF S, Left
<1>9. \A i \in 1 .. n : s[i] \in Sessions
  BY <1>7, <1>8, <1>1
<1>10. s \in Seq(Sessions) /\ Len(s) = n
  BY <1>4, <1>7, <1>9
<1>11. ASSUME NEW i \in 1 .. n, NEW j \in 1 .. n, s[i].id = s[j].id PROVE i = j
  <2>1. f[i] = f[j]
    BY <1>7, <1>8, <1>11 DEF SessionTypesOf
  <2>2. ~(i < j) /\ ~(j < i)
    BY <2>1, <1>6, <1>8
  <2> QED BY <2>2, <1>4
<1>12. Len(sessions) <= MaxOpen
  BY DEF SessionTypesOf
<1>13. SessionTypesOf(s)
  BY <1>1, <1>4, <1>10, <1>11, <1>12 DEF SessionTypesOf
<1> QED BY <1>13, <1>10, <1>7, <1>8 DEF n, S

\* There are more ids than sessions and handlers.
LEMMA IdLeft ==
  ASSUME AccountInv
  PROVE  /\ NewId \in Id
         /\ \A i \in 1 .. Len(sessions) : sessions[i].id # NewId
<1> DEFINE A == Ids(sessions)
           ids == [i \in 1 .. Len(sessions) |-> sessions[i].id]
           heads == [r \in Handler |-> Head(h[r].seen)]
           B == {heads[r] : r \in Handler}
           C == UNION {Evicted(h[r].seen) : r \in Handler}
           N == Cardinality(Handler)
<1>1. Len(sessions) \in Nat /\ DOMAIN sessions = 1 .. Len(sessions) /\ Len(sessions) <= MaxOpen
      /\ MaxOpen \in Nat /\ IsFiniteSet(Handler)
  BY AccountAssumption DEF AccountInv, SessionTypesOf
<1>2. IsFiniteSet(1 .. Len(sessions)) /\ Cardinality(1 .. Len(sessions)) = Len(sessions)
  <2>1. Len(sessions) \in Int /\ 1 \in Int /\ Len(sessions) >= 0
    BY <1>1
  <2>2. /\ IsFiniteSet(1 .. Len(sessions))
        /\ Cardinality(1 .. Len(sessions)) = IF 1 > Len(sessions) THEN 0 ELSE Len(sessions) - 1 + 1
    BY <2>1, FS_Interval
  <2> QED BY <2>1, <2>2
<1>3. IsFiniteSet(A) /\ Cardinality(A) <= Len(sessions)
  <2>1. A = {ids[i] : i \in 1 .. Len(sessions)}
    BY <1>1 DEF Ids
  <2>2. ids \in Surjection(1 .. Len(sessions), A)
    BY <2>1 DEF Surjection
  <2> HIDE DEF A, ids
  <2> QED BY <1>2, <2>2, FS_Surjection
<1>4. IsFiniteSet(B) /\ Cardinality(B) <= N
  <2>1. heads \in Surjection(Handler, B)
    BY DEF Surjection
  <2> HIDE DEF B, heads
  <2> QED BY <1>1, <2>1, FS_Surjection
<1>5. C \subseteq B
  BY DEF Evicted
<1>6. IsFiniteSet(C) /\ Cardinality(C) <= N
  <2> HIDE DEF B, C
  <2>1. IsFiniteSet(C) /\ Cardinality(C) <= Cardinality(B)
    BY <1>4, <1>5, FS_Subset
  <2> QED BY <1>1, <1>4, <2>1, FS_CardinalityType
<1>7. IsFiniteSet(A \cup C) /\ Cardinality(A \cup C) <= MaxOpen + N
  <2> HIDE DEF A, C
  <2>1. /\ IsFiniteSet(A \cup C)
        /\ Cardinality(A \cup C) = Cardinality(A) + Cardinality(C) - Cardinality(A \cap C)
    BY <1>3, <1>6, FS_Union
  <2>2. IsFiniteSet(A \cap C)
    BY <1>3, FS_Subset
  <2>3. Cardinality(A) \in Nat /\ Cardinality(C) \in Nat /\ Cardinality(A \cap C) \in Nat /\ N \in Nat
    BY <1>1, <1>3, <1>6, <2>2, FS_CardinalityType
  <2> QED BY <1>1, <1>3, <1>6, <2>1, <2>3
<1>8. Id = 1 .. MaxOpen + N + 1 /\ N \in Nat
  BY <1>1, FS_CardinalityType DEF Id
<1>9. IsFiniteSet(Id) /\ Cardinality(Id) = MaxOpen + N + 1
  <2> DEFINE M == MaxOpen + N + 1
  <2>1. M \in Int /\ 1 \in Int /\ M >= 1
    BY <1>1, <1>8
  <2> HIDE DEF M
  <2>2. IsFiniteSet(1 .. M) /\ Cardinality(1 .. M) = IF 1 > M THEN 0 ELSE M - 1 + 1
    BY <2>1, FS_Interval
  <2>3. IsFiniteSet(1 .. M) /\ Cardinality(1 .. M) = M
    BY <2>1, <2>2
  <2> QED BY <2>3, <1>8 DEF M
<1>10. \E i \in Id : i \notin A \cup C
  <2> SUFFICES ASSUME Id \subseteq A \cup C PROVE FALSE
    OBVIOUS
  <2> HIDE DEF A, C, N
  <2>1. Cardinality(Id) <= Cardinality(A \cup C) /\ Cardinality(A \cup C) \in Nat
    BY <1>7, FS_Subset, FS_CardinalityType
  <2> QED BY <2>1, <1>1, <1>7, <1>8, <1>9
<1>11. NewId \in Id /\ NewId \notin A
  <2>1. NewId = CHOOSE i \in Id : i \notin A \cup C
    BY DEF NewId
  <2> HIDE DEF A, C
  <2> QED BY <1>10, <2>1
<1> QED BY <1>1, <1>11 DEF Ids

LEMMA KeepsSessions ==
  ASSUME SessionTypesOf(sessions), UNCHANGED sessions PROVE SessionTypesOf(sessions')
OBVIOUS

\* What a step has to leave behind.
LEMMA Kept ==
  ASSUME AccountInv, Sane(user'), made' \in Passwords, failures' \in Nat,
         links' \in [Link -> {"recent", "live", "off"}],
         SessionTypesOf(sessions'),
         \A i \in 1 .. Len(sessions') : sessions'[i].loose \/ sessions'[i].pw = user'.pw,
         AllWork'
  PROVE  AccountInv'
<1>1. DOMAIN sessions' = 1 .. Len(sessions')
  BY DEF SessionTypesOf
<1>2. SessionsFollowPassword'
  BY <1>1 DEF SessionsFollowPassword
<1> QED BY <1>2 DEF AccountInv

LEMMA Follow ==
  ASSUME AccountInv
  PROVE  /\ Sane(user) /\ user.pw \in Passwords /\ made \in Passwords
         /\ failures \in Nat /\ links \in [Link -> {"recent", "live", "off"}]
         /\ SessionTypesOf(sessions) /\ AllWork
         /\ \A i \in 1 .. Len(sessions) : sessions[i].loose \/ sessions[i].pw = user.pw
<1>1. DOMAIN sessions = 1 .. Len(sessions)
  BY DEF AccountInv, SessionTypesOf
<1> QED BY <1>1, Shape DEF AccountInv, SessionsFollowPassword

\* Steps that leave the account, its sessions and passwords alone.
LEMMA OnlyWork ==
  ASSUME AccountInv, UNCHANGED <<user, sessions, made, failures>>, AllWork',
         links' \in [Link -> {"recent", "live", "off"}]
  PROVE  AccountInv'
<1>1. SessionTypesOf(sessions')
  BY Follow DEF SessionTypesOf
<1>2. Sane(user')
  BY Follow DEF Sane
<1> QED BY <1>1, <1>2, Follow, Kept

\* Steps that save columns of the row other than the password.
LEMMA OnlyRow ==
  ASSUME AccountInv, UNCHANGED <<sessions, made, links>>, AllWork', failures' \in Nat,
         Sane(user'), user'.pw = user.pw
  PROVE  AccountInv'
<1>1. SessionTypesOf(sessions')
  BY Follow DEF SessionTypesOf
<1> QED BY <1>1, Follow, Kept

LEMMA OnlyWorks ==
  ASSUME AccountInv, UNCHANGED <<user, sessions, links, made, failures>>,
         NEW r \in Handler, NEW x, Work(x), To(r, x)
  PROVE  AccountInv'
BY Follow, Doing, OnlyWork

\* The work that begins.
LEMMA StartWorks ==
  ASSUME AccountInv, NEW r \in Handler,
         NEW op \in {"lock", "unlock", "temporary", "change", "edit", "link", "admin link"},
         Begin(r, op)
  PROVE  AllWork'
<1> DEFINE x == [Free EXCEPT !.op = op, !.pc = "read",
                       !.copy = IF op \in {"change", "edit"} THEN {user} ELSE {}]
<1>1. To(r, x)
  BY DEF Begin
<1>2. Free \in Works
  BY FreeWorks, Follow DEF Work
<1>3. x.op = op /\ x.pc = "read" /\ x.copy = IF op \in {"change", "edit"} THEN {user} ELSE {}
  BY DEF Free
<1>4. user \in Rows
  BY Follow, Shape
<1>5. x \in Works
  BY <1>2, <1>4 DEF Works
<1> HIDE DEF x
<1>6. Work(x)
  BY <1>3, <1>4, <1>5, Follow DEF Work, Remembers
<1> QED BY <1>1, <1>6, Follow, Doing

LEMMA WorkOf ==
  ASSUME AccountInv, NEW r \in Handler
  PROVE  Work(h[r]) /\ h[r] \in Works
BY DEF AccountInv, AllWork, Work

LEMMA BeginLoginStep ==
  ASSUME AccountInv, NEW r \in Handler, NEW p \in {NoPassword} \cup 0 .. made,
         BeginLogin(r, p)
  PROVE  AccountInv'
<1> DEFINE x == [Free EXCEPT !.op = "login", !.pc = "read", !.copy = {user}, !.given = p]
<1>1. /\ To(r, x) /\ ~Shut(user)
      /\ UNCHANGED <<user, sessions, links, made, failures>>
  BY DEF BeginLogin
<1>2. Free \in Works
  BY FreeWorks, Follow DEF Work
<1>3. x.op = "login" /\ x.pc = "read" /\ x.copy = {user}
  BY DEF Free
<1>4. user \in Rows /\ ~user.locked
  BY <1>1, Follow, Shape DEF Shut
<1>5. p \in Passwords \cup {NoPassword}
  BY Follow, AccountAssumption DEF Passwords
<1>6. x \in Works
  BY <1>2, <1>4, <1>5 DEF Works
<1> HIDE DEF x
<1>7. Work(x)
  BY <1>3, <1>4, <1>6, Follow DEF Work
<1> QED BY <1>1, <1>7, OnlyWorks

LEMMA AuthenticateAccountStep ==
  ASSUME AccountInv, NEW r \in Handler, Authenticate(r)
  PROVE  AccountInv'
<1> DEFINE x == h[r]
           y == [x EXCEPT !.pc = "right", !.copy = {}]
           z == [x EXCEPT !.pc = "wrong", !.given = NoPassword]
<1>1. /\ x.op = "login" /\ x.pc = "read"
      /\ UNCHANGED <<user, sessions, links, made, failures>>
      /\ x \in Works /\ Work(x)
  BY WorkOf DEF Authenticate, At
<1>2. CASE x.given = user.pw /\ ~user.locked
  <2>1. To(r, y)
    BY <1>2 DEF Authenticate
  <2>2. y \in Works /\ y.op = "login" /\ y.pc = "right" /\ y.given = user.pw
    BY <1>1, <1>2 DEF Works
  <2> HIDE DEF y
  <2>3. Work(y)
    BY <2>2, Follow DEF Work
  <2> QED BY <1>1, <2>1, <2>3, OnlyWorks
<1>3. CASE ~(x.given = user.pw /\ ~user.locked)
  <2>1. To(r, z)
    BY <1>3 DEF Authenticate
  <2>2. z \in Works /\ z.op = "login" /\ z.pc = "wrong" /\ z.copy = x.copy
    BY <1>1 DEF Works
  <2>3. \E u \in Rows : x.copy = {u} /\ Sane(u) /\ ~u.locked
    BY <1>1 DEF Work
  <2> HIDE DEF z, x
  <2>4. Work(z)
    BY <2>2, <2>3 DEF Work
  <2> QED BY <1>1, <2>1, <2>4, OnlyWorks
<1> QED BY <1>2, <1>3

LEMMA RegisterFailureStep ==
  ASSUME AccountInv, NEW r \in Handler, NEW fresh \in BOOLEAN,
         RegisterFailure(r, fresh)
  PROVE  AccountInv' /\ (user.locked => user'.locked)
<1>1. /\ h[r].op = "login" /\ h[r].pc = "wrong" /\ Work(h[r])
      /\ user' = Counted(Copy(r), fresh)
      /\ failures' = IF Shut(user') \/ fresh THEN 0 ELSE failures + 1
      /\ To(r, Free) /\ UNCHANGED <<sessions, links, made>>
  BY WorkOf DEF RegisterFailure, At
<1>2. PICK u \in Rows : h[r].copy = {u} /\ Sane(u) /\ ~u.locked
  BY <1>1 DEF Work
<1>3. user' = Counted(u, fresh)
  BY <1>1, <1>2, CopyIs
<1>4. Sane(user') /\ user'.pw = user.pw /\ (user.locked => user'.locked)
  BY <1>2, <1>3, CountedSane, Follow
<1>5. AllWork'
  BY <1>1, FreeWorks, Doing, Follow
<1>6. failures' \in Nat
  BY <1>1, Follow
<1> QED BY <1>1, <1>4, <1>5, <1>6, OnlyRow

LEMMA ResetFailuresStep ==
  ASSUME AccountInv, NEW r \in Handler, ResetFailures(r)
  PROVE  AccountInv' /\ user'.locked = user.locked
<1>1. /\ h[r].op = "login" /\ h[r].pc = "right" /\ Work(h[r])
      /\ user' = Unfailed(user) /\ failures' = 0
      /\ To(r, [h[r] EXCEPT !.pc = "count"]) /\ UNCHANGED <<sessions, links, made>>
  BY WorkOf DEF ResetFailures, At, Anew, Go
<1>2. Sane(user') /\ user'.pw = user.pw /\ user'.locked = user.locked
  BY <1>1, UnfailedSane, Follow
<1>3. AllWork'
  BY <1>1, GoWorks, Doing, Follow
<1> QED BY <1>1, <1>2, <1>3, OnlyRow

LEMMA CountSessionsStep ==
  ASSUME AccountInv, NEW r \in Handler, CountSessions(r)
  PROVE  AccountInv'
<1> DEFINE s == [i \in DOMAIN sessions |-> sessions[i].id]
           x == h[r]
           y == [x EXCEPT !.pc = "open", !.seen = s]
<1>1. /\ x.op = "login" /\ x.pc = "count" /\ Work(x) /\ x \in Works
      /\ To(r, y) /\ UNCHANGED <<user, sessions, links, made, failures>>
  BY WorkOf DEF CountSessions, At
<1>2. s \in Seq(Id)
  <2>1. /\ sessions \in Seq(Sessions) /\ Len(sessions) \in Nat
        /\ DOMAIN sessions = 1 .. Len(sessions)
        /\ \A j \in 1 .. Len(sessions) : sessions[j] \in Sessions
    BY Follow DEF SessionTypesOf
  <2>2. \A j \in 1 .. Len(sessions) : sessions[j].id \in Id
    BY <2>1 DEF Sessions
  <2> QED BY <2>1, <2>2
<1> HIDE DEF s
<1>3. y \in Works /\ y.op = "login" /\ y.pc = "open" /\ y.given = x.given
  BY <1>1, <1>2 DEF Works
<1>4. x.given \in Passwords
  BY <1>1 DEF Work
<1> HIDE DEF y, x
<1>5. Work(y)
  BY <1>3, <1>4 DEF Work
<1> QED BY <1>1, <1>5, OnlyWorks

LEMMA OpenSessionStep ==
  ASSUME AccountInv, NEW r \in Handler, OpenSession(r)
  PROVE  AccountInv'
<1> DEFINE new == [id |-> NewId, pw |-> h[r].given, loose |-> h[r].given # user.pw]
<1>1. /\ h[r].op = "login" /\ h[r].pc = "open" /\ Work(h[r])
      /\ Len(sessions') <= MaxOpen
      /\ To(r, Free) /\ UNCHANGED <<user, links, made, failures>>
  BY WorkOf DEF OpenSession, At
<1>2. PICK s \in After(Evicted(h[r].seen)) : sessions' = Append(s, new)
  BY DEF OpenSession
<1>3. /\ new.id = NewId /\ new.pw = h[r].given /\ new.loose = (h[r].given # user.pw)
      /\ new \in Sessions
  <2>1. h[r].given \in Passwords
    BY <1>1 DEF Work
  <2> QED BY <2>1, IdLeft DEF Sessions
<1> HIDE DEF new
<1>4. /\ SessionTypesOf(s)
      /\ \A i \in 1 .. Len(s) : \E j \in 1 .. Len(sessions) : s[i] = sessions[j]
  BY AfterIs, Follow, AccountAssumption
<1>5. /\ s \in Seq(Sessions) /\ Len(s) \in Nat
      /\ sessions' \in Seq(Sessions) /\ Len(sessions') = Len(s) + 1
      /\ \A i \in 1 .. Len(s) : sessions'[i] = s[i]
      /\ sessions'[Len(s) + 1] = new
  BY <1>2, <1>3, <1>4 DEF SessionTypesOf
<1>6. \A i \in 1 .. Len(s) : s[i].id # new.id
  BY <1>3, <1>4, IdLeft
<1>7. SessionTypesOf(sessions')
  <2>1. ASSUME NEW i \in 1 .. Len(sessions'), NEW j \in 1 .. Len(sessions'),
               sessions'[i].id = sessions'[j].id
        PROVE  i = j
    <3>1. i \in 1 .. Len(s) \/ i = Len(s) + 1
      BY <1>5
    <3>2. j \in 1 .. Len(s) \/ j = Len(s) + 1
      BY <1>5
    <3> QED BY <2>1, <3>1, <3>2, <1>4, <1>5, <1>6 DEF SessionTypesOf
  <2> QED BY <1>1, <1>5, <2>1 DEF SessionTypesOf
<1>8. ASSUME NEW i \in 1 .. Len(sessions')
      PROVE  sessions'[i].loose \/ sessions'[i].pw = user'.pw
  <2>1. i \in 1 .. Len(s) \/ i = Len(s) + 1
    BY <1>5
  <2>2. CASE i \in 1 .. Len(s)
    BY <2>2, <1>1, <1>4, <1>5, Follow
  <2>3. CASE i = Len(s) + 1
    BY <2>3, <1>1, <1>3, <1>5
  <2> QED BY <2>1, <2>2, <2>3
<1>9. AllWork'
  BY <1>1, FreeWorks, Doing, Follow
<1>10. Sane(user')
  BY <1>1, Follow DEF Sane
<1> QED BY <1>1, <1>7, <1>8, <1>9, <1>10, Follow, Kept

LEMMA EndSessionsStep ==
  ASSUME AccountInv, NEW K, EndSessions(K)
  PROVE  AccountInv'
<1>1. /\ sessions' \in After(K)
      /\ UNCHANGED <<user, links, made, h, failures>>
  BY DEF EndSessions
<1>2. /\ SessionTypesOf(sessions')
      /\ \A i \in 1 .. Len(sessions') : \E j \in 1 .. Len(sessions) : sessions'[i] = sessions[j]
  BY <1>1, AfterIs, Follow, AccountAssumption
<1>3. AllWork'
  BY <1>1, Follow DEF AllWork
<1>4. Sane(user')
  BY <1>1, Follow DEF Sane
<1>5. \A i \in 1 .. Len(sessions') : sessions'[i].loose \/ sessions'[i].pw = user'.pw
  BY <1>1, <1>2, Follow
<1> QED BY <1>1, <1>2, <1>3, <1>4, <1>5, Follow, Kept

\* Requests that begin, and read no more than the account.
LEMMA AskSteps ==
  ASSUME AccountInv, NEW r \in Handler,
         \/ AskLock(r) \/ AskUnlock(r) \/ AskTemporary(r)
         \/ AskChange(r) \/ AskEdit(r)
         \/ \E op \in {"link", "admin link"} : AskLink(r, op)
  PROVE  AccountInv' /\ UNCHANGED user
<1>1. /\ \E op \in {"lock", "unlock", "temporary", "change", "edit", "link", "admin link"} :
           Begin(r, op)
      /\ UNCHANGED <<user, sessions, links, made, failures>>
  BY DEF AskLock, AskUnlock, AskTemporary, AskChange,
         AskEdit, AskLink
<1>2. AllWork'
  BY <1>1, StartWorks
<1> QED BY <1>1, <1>2, Follow, OnlyWork

LEMMA LockAccountStep ==
  ASSUME AccountInv, NEW r \in Handler, LockAccount(r)
  PROVE  AccountInv' /\ user'.locked
<1>1. /\ h[r].op = "lock" /\ h[r].pc = "read" /\ Work(h[r])
      /\ user' = [Unfailed(user) EXCEPT !.locked = TRUE] /\ failures' = 0
      /\ To(r, [h[r] EXCEPT !.pc = "revoke"]) /\ UNCHANGED <<sessions, links, made>>
  BY WorkOf DEF LockAccount, At, Anew, Go
<1>2. Sane(user') /\ user'.pw = user.pw /\ user'.locked = TRUE
  BY <1>1, UnfailedSane, Follow
<1>3. AllWork'
  BY <1>1, GoWorks, Doing, Follow
<1> QED BY <1>1, <1>2, <1>3, OnlyRow

LEMMA UnlockAccountStep ==
  ASSUME AccountInv, NEW r \in Handler, Unlock(r)
  PROVE  AccountInv'
<1>1. /\ user' = [Unfailed(user) EXCEPT !.locked = FALSE] /\ failures' = 0
      /\ To(r, Free) /\ UNCHANGED <<sessions, links, made>>
  BY DEF Unlock, Anew
<1>2. Sane(user') /\ user'.pw = user.pw
  BY <1>1, UnfailedSane, Follow
<1>3. AllWork'
  BY <1>1, FreeWorks, Doing, Follow
<1> QED BY <1>1, <1>2, <1>3, OnlyRow

LEMMA NoSessions ==
  ASSUME AccountInv, sessions' = << >>
  PROVE  /\ SessionTypesOf(sessions') /\ Len(sessions') = 0
         /\ \A i \in 1 .. Len(sessions') : sessions'[i].loose \/ sessions'[i].pw = user'.pw
<1>1. Len(sessions') = 0 /\ sessions' \in Seq(Sessions) /\ 1 .. 0 = {}
  OBVIOUS
<1> QED BY <1>1, Follow, AccountAssumption DEF SessionTypesOf

LEMMA RevokeStep ==
  ASSUME AccountInv, NEW r \in Handler, Revoke(r)
  PROVE  AccountInv' /\ UNCHANGED user
<1>1. /\ sessions' = << >> /\ To(r, Free)
      /\ UNCHANGED <<user, links, made, failures>>
  BY DEF Revoke
<1>2. AllWork'
  BY <1>1, FreeWorks, Doing, Follow
<1>3. Sane(user')
  BY <1>1, Follow DEF Sane
<1> QED BY <1>1, <1>2, <1>3, NoSessions, Follow, Kept

\* Each password that is made ends the sessions.
LEMMA PasswordStep ==
  ASSUME AccountInv, NEW u, Sane(u), SetPassword(u), AllWork', failures' \in Nat,
         links' \in [Link -> {"recent", "live", "off"}]
  PROVE  AccountInv' /\ user'.locked = u.locked
<1>1. /\ made' = made + 1 /\ made < MaxPasswords /\ user' = [u EXCEPT !.pw = made']
      /\ sessions' = << >>
  BY DEF SetPassword
<1>2. made' \in Passwords
  BY <1>1, Follow, AccountAssumption DEF Passwords
<1>3. user' \in Rows /\ user'.locked = u.locked /\ user'.attempts = u.attempts
  BY <1>1, <1>2, Shape DEF Rows
<1>4. Sane(user')
  BY <1>3 DEF Sane
<1> QED BY <1>1, <1>2, <1>3, <1>4, NoSessions, Kept

LEMMA SetTemporaryStep ==
  ASSUME AccountInv, NEW r \in Handler, SetTemporary(r)
  PROVE  AccountInv' /\ user'.locked = user.locked
<1>1. /\ SetPassword(user) /\ To(r, Free)
      /\ UNCHANGED <<links, failures>>
  BY DEF SetTemporary
<1>2. AllWork'
  BY <1>1, FreeWorks, Doing, Follow
<1> QED BY <1>1, <1>2, Follow, PasswordStep

LEMMA ConfirmStep ==
  ASSUME AccountInv, NEW r \in Handler, Confirm(r)
  PROVE  AccountInv' /\ user'.locked = user.locked
<1>1. /\ SetPassword(user) /\ To(r, Free)
      /\ links' = [l \in Link |-> IF l \in h[r].link THEN "off" ELSE links[l]]
      /\ UNCHANGED failures
  BY DEF Confirm
<1>2. AllWork'
  BY <1>1, FreeWorks, Doing, Follow
<1>3. links' \in [Link -> {"recent", "live", "off"}]
  BY <1>1, Follow
<1> QED BY <1>1, <1>2, <1>3, Follow, PasswordStep

LEMMA CopySane ==
  ASSUME AccountInv, NEW r \in Handler, h[r].op \in {"change", "edit"}, h[r].pc = "read"
  PROVE  Sane(Copy(r))
<1>1. PICK u \in Rows : h[r].copy = {u} /\ Sane(u)
  BY WorkOf DEF Work, Remembers
<1> QED BY <1>1, CopyIs

LEMMA ChangeStep ==
  ASSUME AccountInv, NEW r \in Handler, Change(r)
  PROVE  AccountInv' /\ h[r].op = "change" /\ user'.locked = Copy(r).locked
<1>1. /\ SetPassword(Copy(r)) /\ failures' = 0
      /\ To(r, Free) /\ UNCHANGED links
      /\ h[r].op = "change" /\ h[r].pc = "read"
  BY DEF Change, Anew, At
<1>2. AllWork'
  BY <1>1, FreeWorks, Doing, Follow
<1> QED BY <1>1, <1>2, Follow, CopySane, PasswordStep

LEMMA EditStep ==
  ASSUME AccountInv, NEW r \in Handler, Edit(r)
  PROVE  AccountInv' /\ h[r].op = "edit" /\ user' = Copy(r)
<1>1. /\ h[r].op = "edit" /\ h[r].pc = "read"
      /\ user' = Copy(r) /\ failures' = 0
      /\ sessions' = [i \in DOMAIN sessions |->
                    [sessions[i] EXCEPT !.loose = @ \/ user'.pw # user.pw]]
      /\ To(r, Free) /\ UNCHANGED <<links, made>>
  BY DEF Edit, Anew, At
<1>2. AllWork'
  BY <1>1, FreeWorks, Doing, Follow
<1>3. Sane(user')
  BY <1>1, CopySane
<1>4. /\ sessions \in Seq(Sessions) /\ Len(sessions) \in Nat
      /\ DOMAIN sessions = 1 .. Len(sessions)
      /\ \A i \in 1 .. Len(sessions) : sessions[i] \in Sessions
  BY Follow DEF SessionTypesOf
<1>5. ASSUME NEW i \in 1 .. Len(sessions)
      PROVE  /\ sessions'[i] \in Sessions
             /\ sessions'[i].id = sessions[i].id
             /\ sessions'[i].loose \/ sessions'[i].pw = user'.pw
  <2>1. sessions'[i] = [sessions[i] EXCEPT !.loose = @ \/ user'.pw # user.pw]
    BY <1>1, <1>4
  <2>2. sessions[i].loose \/ sessions[i].pw = user.pw
    BY Follow
  <2> QED BY <2>1, <2>2, <1>4 DEF Sessions
<1>6. sessions' \in Seq(Sessions) /\ Len(sessions') = Len(sessions)
  <2> DEFINE n == Len(sessions)
  <2>1. sessions' = [i \in 1 .. n |-> sessions'[i]]
    BY <1>1, <1>4
  <2> HIDE DEF n
  <2>2. n \in Nat /\ \A i \in 1 .. n : sessions'[i] \in Sessions
    BY <1>4, <1>5 DEF n
  <2>3. sessions' \in Seq(Sessions) /\ Len(sessions') = n
    BY <2>1, <2>2
  <2> QED BY <2>3 DEF n
<1>7. SessionTypesOf(sessions')
  BY <1>5, <1>6, Follow DEF SessionTypesOf
<1> QED BY <1>1, <1>2, <1>3, <1>5, <1>6, <1>7, Follow, Kept

LEMMA InvalidateLinksStep ==
  ASSUME AccountInv, NEW r \in Handler, InvalidateLinks(r)
  PROVE  AccountInv' /\ UNCHANGED user
<1> DEFINE x == h[r]
           y == [x EXCEPT !.pc = "make", !.link = Live]
<1>1. /\ x.op \in {"link", "admin link"} /\ x \in Works
      /\ To(r, y) /\ UNCHANGED <<user, sessions, links, made, failures>>
  BY WorkOf DEF InvalidateLinks
<1>2. y \in Works /\ y.op = x.op
  BY <1>1 DEF Works, Live
<1> HIDE DEF y, x
<1>3. Work(y)
  BY <1>1, <1>2 DEF Work
<1> QED BY <1>1, <1>3, OnlyWorks

LEMMA MakeLinkStep ==
  ASSUME AccountInv, NEW r \in Handler, MakeLink(r)
  PROVE  AccountInv' /\ UNCHANGED user
<1> DEFINE x == h[r]
           y == [x EXCEPT !.pc = "revoke", !.link = {}]
           kept == [l \in Link |-> IF l \in x.link THEN "off" ELSE links[l]]
<1>1. /\ x.pc = "make" /\ x \in Works /\ Work(x)
      /\ IF x.op = "link" THEN To(r, Free) ELSE To(r, y)
      /\ \E l \in Link : links' = [kept EXCEPT ![l] = "recent"]
      /\ UNCHANGED <<user, sessions, made, failures>>
  BY WorkOf DEF MakeLink
<1>2. links' \in [Link -> {"recent", "live", "off"}]
  BY <1>1, Follow
<1>3. y \in Works /\ y.pc = "revoke"
  BY <1>1 DEF Works
<1> HIDE DEF y
<1>4. Work(y)
  BY <1>3 DEF Work
<1>5. AllWork'
  BY <1>1, <1>4, FreeWorks, Doing, Follow
<1> QED BY <1>1, <1>2, <1>5, OnlyWork

LEMMA VerifyStep ==
  ASSUME AccountInv, NEW r \in Handler, NEW l \in Link, Verify(r, l)
  PROVE  AccountInv' /\ UNCHANGED user
<1> DEFINE y == [Free EXCEPT !.op = "confirm", !.pc = "read", !.link = {l}]
<1>1. To(r, y) /\ UNCHANGED <<user, sessions, links, made, failures>>
  BY DEF Verify
<1>2. Free \in Works
  BY FreeWorks, Follow DEF Work
<1>3. y \in Works /\ y.op = "confirm"
  BY <1>2 DEF Works
<1> HIDE DEF y
<1>4. Work(y)
  BY <1>3 DEF Work
<1> QED BY <1>1, <1>4, OnlyWorks

LEMMA LapseLockStep ==
  ASSUME AccountInv, LapseLock
  PROVE  AccountInv' /\ user'.locked = user.locked
<1>1. user' = [user EXCEPT !.until = "past"] /\ UNCHANGED <<sessions, links, made, h, failures>>
  BY DEF LapseLock
<1>2. /\ user' \in Rows /\ user'.locked = user.locked
      /\ user'.attempts = user.attempts /\ user'.pw = user.pw
  BY <1>1, Follow, Shape DEF Rows
<1>3. Sane(user')
  BY <1>2, Follow DEF Sane
<1>4. AllWork'
  BY <1>1, Follow DEF AllWork
<1> QED BY <1>1, <1>2, <1>3, <1>4, Follow, OnlyRow

LEMMA LapseLinkStep ==
  ASSUME AccountInv, NEW l \in Link, LapseLink(l)
  PROVE  AccountInv' /\ UNCHANGED user
<1>1. /\ links' = [links EXCEPT ![l] = IF @ = "recent" THEN "live" ELSE "off"]
      /\ UNCHANGED <<user, sessions, made, h, failures>>
  BY DEF LapseLink
<1>2. links' \in [Link -> {"recent", "live", "off"}]
  BY <1>1, Follow
<1>3. AllWork'
  BY <1>1, Follow DEF AllWork
<1> QED BY <1>1, <1>2, <1>3, OnlyWork

LEMMA AbandonStep ==
  ASSUME AccountInv, NEW r \in Handler, Abandon(r)
  PROVE  AccountInv' /\ UNCHANGED user
<1>1. To(r, Free) /\ UNCHANGED <<user, sessions, links, made, failures>>
  BY DEF Abandon
<1> QED BY <1>1, FreeWorks, Follow, OnlyWorks

LEMMA StutterStep ==
  ASSUME AccountInv, UNCHANGED accountVars
  PROVE  AccountInv' /\ UNCHANGED user
<1>1. UNCHANGED <<user, sessions, links, made, h, failures>>
  BY DEF accountVars
<1>2. AllWork'
  BY <1>1, Follow DEF AllWork
<1> QED BY <1>1, <1>2, Follow, OnlyWork

LEMMA AccountStart ==
  ASSUME AccountInit PROVE AccountInv
<1> USE DEF AccountInit
<1>1. user \in Rows /\ user.locked = FALSE /\ user.attempts = 0
  BY AccountAssumption DEF Rows, Passwords
<1>2. Sane(user)
  BY <1>1, AccountAssumption DEF Sane
<1>3. made \in Passwords /\ failures \in Nat
  BY AccountAssumption DEF Passwords
<1>4. links \in [Link -> {"recent", "live", "off"}]
  OBVIOUS
<1>5. SessionTypesOf(sessions)
  <2>1. sessions \in Seq(Sessions) /\ Len(sessions) = 0 /\ 1 .. 0 = {}
    OBVIOUS
  <2> QED BY <2>1, AccountAssumption DEF SessionTypesOf
<1>6. SessionsFollowPassword
  BY DEF SessionsFollowPassword
<1>7. AllWork
  BY FreeWorks DEF AllWork
<1> QED BY <1>2, <1>3, <1>4, <1>5, <1>6, <1>7 DEF AccountInv

\* How the lock of an account is lifted.
Lifted == \E r \in Handler :
  \/ At(r, "unlock", "read")
  \/ h[r].op \in {"change", "edit"} /\ ~ Copy(r).locked

LEMMA AccountStep ==
  ASSUME AccountInv, [AccountNext]_accountVars
  PROVE  AccountInv' /\ (user.locked /\ ~user'.locked => Lifted)
<1>1. ASSUME NEW r \in Handler, Login(r)
      PROVE  AccountInv' /\ (user.locked => user'.locked)
  <2>1. ASSUME NEW p \in {NoPassword} \cup 0 .. made, BeginLogin(r, p)
        PROVE  AccountInv' /\ (user.locked => user'.locked)
    BY <2>1, BeginLoginStep DEF BeginLogin
  <2>2. CASE Authenticate(r)
    BY <2>2, AuthenticateAccountStep DEF Authenticate
  <2>3. CASE ResetFailures(r)
    BY <2>3, ResetFailuresStep
  <2>4. CASE CountSessions(r)
    BY <2>4, CountSessionsStep DEF CountSessions
  <2>5. CASE OpenSession(r)
    BY <2>5, OpenSessionStep DEF OpenSession
  <2>6. ASSUME NEW fresh \in BOOLEAN, RegisterFailure(r, fresh)
        PROVE  AccountInv' /\ (user.locked => user'.locked)
    BY <2>6, RegisterFailureStep
  <2> QED BY <1>1, <2>1, <2>2, <2>3, <2>4, <2>5, <2>6 DEF Login
<1>2. ASSUME NEW r \in Handler, Administer(r)
      PROVE  AccountInv' /\ (user.locked /\ ~user'.locked => Lifted)
  <2>1. CASE AskLock(r) \/ AskUnlock(r) \/ AskTemporary(r)
             \/ AskEdit(r)
    BY <2>1, AskSteps
  <2>2. CASE LockAccount(r)
    BY <2>2, LockAccountStep
  <2>3. CASE Revoke(r)
    BY <2>3, RevokeStep
  <2>4. CASE Unlock(r)
    BY <2>4, UnlockAccountStep DEF Unlock, Lifted
  <2>5. CASE SetTemporary(r)
    BY <2>5, SetTemporaryStep
  <2>6. CASE Edit(r)
    BY <2>6, EditStep DEF Lifted
  <2> QED BY <1>2, <2>1, <2>2, <2>3, <2>4, <2>5, <2>6 DEF Administer
<1>3. ASSUME NEW r \in Handler, Replace(r)
      PROVE  AccountInv' /\ (user.locked /\ ~user'.locked => Lifted)
  <2>1. CASE AskChange(r) \/ \E op \in {"link", "admin link"} : AskLink(r, op)
    BY <2>1, AskSteps
  <2>2. CASE Change(r)
    BY <2>2, ChangeStep DEF Lifted
  <2>3. CASE InvalidateLinks(r)
    BY <2>3, InvalidateLinksStep
  <2>4. CASE MakeLink(r)
    BY <2>4, MakeLinkStep
  <2>5. CASE Confirm(r)
    BY <2>5, ConfirmStep
  <2>6. ASSUME NEW l \in Link, Verify(r, l)
        PROVE  AccountInv' /\ UNCHANGED user
    BY <2>6, VerifyStep
  <2> QED BY <1>3, <2>1, <2>2, <2>3, <2>4, <2>5, <2>6 DEF Replace
<1>4. ASSUME NEW r \in Handler, Abandon(r)
      PROVE  AccountInv' /\ UNCHANGED user
  BY <1>4, AbandonStep
<1>5. ASSUME NEW K, EndSessions(K)
      PROVE  AccountInv' /\ UNCHANGED user
  BY <1>5, EndSessionsStep DEF EndSessions
<1>6. CASE LapseLock
  BY <1>6, LapseLockStep
<1>7. ASSUME NEW l \in Link, LapseLink(l)
      PROVE  AccountInv' /\ UNCHANGED user
  BY <1>7, LapseLinkStep
<1>8. CASE UNCHANGED accountVars
  BY <1>8, StutterStep
<1> QED BY <1>1, <1>2, <1>3, <1>4, <1>5, <1>6, <1>7, <1>8 DEF AccountNext, AccountMoves

\* What each request has read of the account, and what it is going to write, stays
\* as the invariant says in every step of any of them.
THEOREM AccountInvariant == AccountSpec => []AccountInv
<1>1. AccountInv /\ [AccountNext]_accountVars => AccountInv'
  BY AccountStep
<1>2. AccountInit => AccountInv
  BY AccountStart
<1> QED BY <1>1, <1>2, PTL DEF AccountSpec

LEMMA PolicyStays == AccountSpec => [](lockout \in BOOLEAN)
<1>1. AccountInit => lockout \in BOOLEAN
  BY DEF AccountInit
<1>2. lockout \in BOOLEAN /\ [AccountNext]_accountVars => (lockout \in BOOLEAN)'
  BY DEF AccountNext, accountVars
<1> QED BY <1>1, <1>2, PTL DEF AccountSpec

\* The account, its sessions and its links stay well formed, whoever saves an old
\* copy of the row; no session is opened twice.
THEOREM AccountTypes == AccountSpec => []AccountTypeOK
<1>1. AccountInv /\ lockout \in BOOLEAN => AccountTypeOK
  <2> HAVE AccountInv /\ lockout \in BOOLEAN
  <2>1. DOMAIN sessions = 1 .. Len(sessions)
    BY Follow DEF SessionTypesOf
  <2> QED BY <2>1, Follow, Shape DEF SessionTypesOf, AccountTypeOK
<1> QED BY <1>1, AccountInvariant, PolicyStays, PTL

\* Every session is of the present password, except one whose login had checked the
\* password before it was set anew, or that an edit leaves when it puts an old one back.
THEOREM SessionsEndWithPasswords ==
  AccountSpec => []SessionsFollowPassword
<1>1. AccountInv => SessionsFollowPassword
  BY DEF AccountInv
<1> QED BY <1>1, AccountInvariant, PTL

\* An account is unlocked by an unlock that has read it, or by a change of password
\* or an edit that saves a copy made before the lock, and by nothing else.
THEOREM LocksAreLifted == AccountSpec => LockStands
<1>1. AccountInv /\ [AccountNext]_accountVars
        => [user.locked /\ ~ user'.locked =>
       \E r \in Handler :
         \/ At(r, "unlock", "read")
         \/ h[r].op \in {"change", "edit"} /\ ~ Copy(r).locked]_accountVars
  BY AccountStep DEF Lifted
<1> QED BY <1>1, AccountInvariant, PTL DEF AccountSpec, LockStands

-----------------------------------------------------------------------------
(* The limit of sessions.                                                  *)

LEMMA ActsAlone ==
  ASSUME NEW q \in Handler,
         Login(q) \/ Administer(q) \/ Replace(q) \/ Abandon(q)
  PROVE  \E x : To(q, x)
<1>1. ASSUME Login(q) PROVE \E x : To(q, x)
  BY <1>1 DEF Login, BeginLogin, Authenticate, ResetFailures,
     CountSessions, OpenSession, RegisterFailure, Go
<1>2. ASSUME Administer(q) PROVE \E x : To(q, x)
  BY <1>2 DEF Administer, AskLock, LockAccount, Revoke,
     AskUnlock, Unlock, AskTemporary, SetTemporary,
     AskEdit, Edit, Begin, Go
<1>3. ASSUME Replace(q) PROVE \E x : To(q, x)
  BY <1>3 DEF Replace, AskChange, Change, AskLink,
     InvalidateLinks, MakeLink, Verify, Confirm, Begin
<1>4. ASSUME Abandon(q) PROVE \E x : To(q, x)
  BY <1>4 DEF Abandon
<1> QED BY <1>1, <1>2, <1>3, <1>4

\* What a login that has counted can do is open its session, or be abandoned.
LEMMA OpensOnly ==
  ASSUME NEW r \in Handler, At(r, "login", "open"),
         Login(r) \/ Administer(r) \/ Replace(r) \/ Abandon(r)
  PROVE  OpenSession(r) \/ UNCHANGED sessions
<1>1. h[r].op = "login" /\ h[r].pc = "open"
  BY DEF At
<1>2. ASSUME Login(r) PROVE OpenSession(r)
  BY <1>1, <1>2 DEF Login, BeginLogin, Authenticate,
     ResetFailures, CountSessions, RegisterFailure, At
<1>3. ~Administer(r)
  BY <1>1 DEF Administer, AskLock, LockAccount, Revoke,
     AskUnlock, Unlock, AskTemporary, SetTemporary,
     AskEdit, Edit, Begin, At
<1>4. ~Replace(r)
  BY <1>1 DEF Replace, AskChange, Change, AskLink,
     InvalidateLinks, MakeLink, Verify, Confirm,
     Begin, At
<1>5. ASSUME Abandon(r) PROVE UNCHANGED sessions
  BY <1>5 DEF Abandon
<1> QED BY <1>2, <1>3, <1>4, <1>5

LEMMA LimitOpen ==
  ASSUME AccountInv, NEW r \in Handler, OpenSession(r),
         Ids(sessions) \subseteq Range(h[r].seen)
  PROVE  Len(sessions') <= MaxSessions \/ Len(sessions') <= Len(h[r].seen)
<1> DEFINE seen == h[r].seen
           E == Evicted(seen)
           S == Left(E)
           n == Len(seen)
<1>1. /\ sessions \in Seq(Sessions) /\ Len(sessions) \in Nat
      /\ DOMAIN sessions = 1 .. Len(sessions)
      /\ \A i, j \in 1 .. Len(sessions) : sessions[i].id = sessions[j].id => i = j
      /\ MaxSessions \in Nat \ {0} /\ MaxOpen \in Nat
  BY Follow, AccountAssumption DEF SessionTypesOf
<1>2. seen \in Seq(Id) /\ n \in Nat /\ DOMAIN seen = 1 .. n
  <2>1. seen \in Seq(Id)
    BY WorkOf DEF Works
  <2> HIDE DEF seen
  <2> QED BY <2>1
<1>3. PICK s \in After(E) :
        sessions' = Append(s, [id |-> NewId, pw |-> h[r].given,
                               loose |-> h[r].given # user.pw])
  BY DEF OpenSession
<1>4. s \in Seq(Sessions) /\ Len(s) = Cardinality(S)
  BY <1>1, <1>3, AfterIs, Follow DEF SessionTypesOf
<1>5. Len(sessions') = Cardinality(S) + 1 /\ Cardinality(S) \in Nat
  BY <1>3, <1>4
<1>6. ASSUME NEW i \in S
      PROVE  \E k \in 1 .. n : seen[k] = sessions[i].id /\ seen[k] \notin E
  <2>1. i \in 1 .. Len(sessions) /\ sessions[i].id \notin E
    BY <1>1 DEF Left
  <2>2. sessions[i].id \in Ids(sessions)
    BY <2>1, <1>1 DEF Ids
  <2>3. \E k \in DOMAIN seen : seen[k] = sessions[i].id
    BY <2>2 DEF Range
  <2> QED BY <2>1, <2>3, <1>2
<1> DEFINE at == [i \in S |-> CHOOSE k \in 1 .. n : seen[k] = sessions[i].id /\ seen[k] \notin E]
<1>7. \A i \in S : /\ at[i] \in 1 .. n /\ seen[at[i]] = sessions[i].id
                   /\ seen[at[i]] \notin E
  BY <1>6
<1>8. S \subseteq 1 .. Len(sessions)
  BY <1>1 DEF Left
<1>9. at = [i \in S |-> at[i]]
  OBVIOUS
<1> HIDE DEF S, at
<1>12. \A i, j \in S : at[i] = at[j] => i = j
  <2> SUFFICES ASSUME NEW i \in S, NEW j \in S, at[i] = at[j] PROVE i = j
    OBVIOUS
  <2>1. sessions[i].id = sessions[j].id
    BY <1>7
  <2> QED BY <1>1, <1>8, <2>1
<1>10. CASE n < MaxSessions
  <2>1. at \in Injection(S, 1 .. n)
    <3> HIDE DEF n
    <3>1. at \in [S -> 1 .. n]
      BY <1>7, <1>9
    <3> QED BY <3>1, <1>12 DEF Injection, IsInjective
  <2> HIDE DEF n
  <2>2. IsFiniteSet(1 .. n) /\ Cardinality(1 .. n) = IF 1 > n THEN 0 ELSE n - 1 + 1
    BY <1>2, FS_Interval
  <2>3. Cardinality(S) <= Cardinality(1 .. n)
    BY <2>1, <2>2, FS_Injection
  <2> QED BY <1>1, <1>2, <1>5, <1>10, <2>2, <2>3
<1>11. CASE n >= MaxSessions
  <2>1. E = {seen[1]}
    BY <1>11, <1>2 DEF Evicted
  <2>2. \A i \in S : at[i] \in 2 .. n
    BY <2>1, <1>2, <1>7
  <2>3. at \in Injection(S, 2 .. n)
    <3> HIDE DEF n
    <3>1. at \in [S -> 2 .. n]
      BY <1>9, <2>2
    <3> QED BY <3>1, <1>12 DEF Injection, IsInjective
  <2> HIDE DEF n
  <2>4. IsFiniteSet(2 .. n) /\ Cardinality(2 .. n) = IF 2 > n THEN 0 ELSE n - 2 + 1
    BY <1>2, FS_Interval
  <2>5. Cardinality(S) <= Cardinality(2 .. n)
    BY <2>3, <2>4, FS_Injection
  <2>6. Len(sessions') <= n
    BY <1>1, <1>2, <1>5, <1>11, <2>4, <2>5
  <2> QED BY <2>6 DEF n
<1> QED BY <1>1, <1>2, <1>10, <1>11

LEMMA LimitStep ==
  ASSUME AccountInv, [AccountNext]_accountVars, NEW r \in Handler,
         At(r, "login", "open"), h'[r] = Free, sessions' # sessions
  PROVE  \/ Len(sessions') <= MaxSessions
         \/ Len(sessions') <= Len(h[r].seen)
         \/ ~ (Ids(sessions) \subseteq Range(h[r].seen))
<1>1. h'[r] # h[r] /\ h = [q \in Handler |-> h[q]]
  BY Follow DEF At, Free, AllWork
<1>2. ~LapseLock /\ ~(\E l \in Link : LapseLink(l))
      /\ ~(\E K \in SUBSET Ids(sessions) : EndSessions(K))
      /\ ~(UNCHANGED accountVars)
  BY <1>1 DEF LapseLock, LapseLink, EndSessions, accountVars
<1>3. PICK q \in Handler : Login(q) \/ Administer(q) \/ Replace(q)
                             \/ Abandon(q)
  BY <1>2 DEF AccountNext, AccountMoves
<1>4. q = r
  <2>1. PICK x : h' = [h EXCEPT ![q] = x]
    BY <1>3, ActsAlone DEF To
  <2> QED BY <1>1, <2>1
<1>5. OpenSession(r)
  BY <1>3, <1>4, OpensOnly
<1> QED BY <1>5, LimitOpen

\* A login that opens a session leaves no more than the limit, or no more than it
\* had counted, or another login has opened one since it counted.
THEOREM OneLoginKeepsLimit == AccountSpec => LimitHolds
<1> DEFINE Limited ==
      \A r \in Handler :
        LET Opens == At(r, "login", "open") /\ h'[r] = Free /\ sessions' # sessions
        IN Opens => \/ Len(sessions') <= MaxSessions
                    \/ Len(sessions') <= Len(h[r].seen)
                    \/ ~ (Ids(sessions) \subseteq Range(h[r].seen))
<1>1. AccountInv /\ [AccountNext]_accountVars => [Limited]_accountVars
  BY LimitStep
<1> QED BY <1>1, AccountInvariant, PTL DEF AccountSpec, LimitHolds

-----------------------------------------------------------------------------
(* The lockout.                                                            *)

LEMMA ShutIs == ShutAfter \in Nat \ {0}
BY AccountAssumption DEF ShutAfter

\* A handler that has read a count and not written yet.
Trying(r) == h[r].op = "login" /\ h[r].pc \in {"read", "wrong"}

\* The least that a handler's next failure can count from.
From(r) == IF Trying(r) /\ Copy(r).attempts < user.attempts
           THEN Copy(r).attempts ELSE user.attempts
Low(x) == {r \in Handler : From(r) < x}

\* How many handlers are below each count.
Ladder == [x \in 1 .. ShutAfter - 1 |-> Cardinality(Low(x))]

Climbs(m, n) == {k \in [1 .. m -> 0 .. n] : \A x, y \in 1 .. m : x <= y => k[x] <= k[y]}
Ladders == Climbs(ShutAfter - 1, Cardinality(Handler))

\* Fewer handlers are below some count, and no more below the lower ones.
Later(j, k) == \E x \in 1 .. ShutAfter - 1 :
  j[x] < k[x] /\ \A y \in 1 .. ShutAfter - 1 : y < x => j[y] <= k[y]

Climbed(k) == {j \in Ladders : Later(k, j)}

\* Each failure takes the handlers to a later ladder, which no other step undoes.
FailuresClimb == failures <= Cardinality(Climbed(Ladder))

FromOK ==
  /\ user.attempts \in Nat
  /\ \A r \in Handler :
       /\ From(r) \in Nat /\ From(r) <= user.attempts
       /\ ~Trying(r) => From(r) = user.attempts
       /\ Trying(r) => \E u \in Rows :
            /\ h[r].copy = {u} /\ Copy(r) = u /\ u.attempts \in Nat
            /\ From(r) = IF u.attempts < user.attempts THEN u.attempts ELSE user.attempts

LEMMA FromIs == AccountInv => FromOK
<1> SUFFICES ASSUME AccountInv PROVE FromOK
  OBVIOUS
<1>1. user.attempts \in Nat
  BY Follow, Shape
<1> SUFFICES ASSUME NEW r \in Handler
             PROVE  /\ From(r) \in Nat /\ From(r) <= user.attempts
                    /\ ~Trying(r) => From(r) = user.attempts
                    /\ Trying(r) => \E u \in Rows :
                       /\ h[r].copy = {u} /\ Copy(r) = u /\ u.attempts \in Nat
                       /\ From(r) = IF u.attempts < user.attempts THEN u.attempts
                                    ELSE user.attempts
  BY <1>1 DEF FromOK
<1>2. CASE Trying(r)
  <2>1. PICK u \in Rows : h[r].copy = {u} /\ Sane(u)
    BY <1>2, WorkOf DEF Trying, Work
  <2>2. Copy(r) = u /\ u.attempts \in Nat
    BY <2>1, CopyIs, Shape
  <2> QED BY <1>1, <1>2, <2>1, <2>2 DEF From
<1>3. CASE ~Trying(r)
  BY <1>1, <1>3 DEF From
<1> QED BY <1>2, <1>3

LadderOK ==
  /\ Ladder \in Ladders
  /\ \A x \in 1 .. ShutAfter - 1 : /\ Low(x) \subseteq Handler /\ IsFiniteSet(Low(x))
                                   /\ Ladder[x] = Cardinality(Low(x)) /\ Ladder[x] \in Nat

LEMMA LadderIs == AccountInv => LadderOK
<1> SUFFICES ASSUME AccountInv PROVE LadderOK
  OBVIOUS
<1>1. IsFiniteSet(Handler) /\ Cardinality(Handler) \in Nat /\ ShutAfter \in Nat
  BY Follow, FS_CardinalityType, AccountAssumption, ShutIs
<1>2. ASSUME NEW x \in 1 .. ShutAfter - 1
      PROVE  /\ Low(x) \subseteq Handler /\ IsFiniteSet(Low(x)) /\ Ladder[x] = Cardinality(Low(x))
             /\ Cardinality(Low(x)) \in 0 .. Cardinality(Handler)
  <2>1. Low(x) \subseteq Handler
    BY DEF Low
  <2>2. IsFiniteSet(Low(x)) /\ Cardinality(Low(x)) <= Cardinality(Handler)
    BY <1>1, <2>1, FS_Subset
  <2>3. Cardinality(Low(x)) \in Nat
    BY <2>2, FS_CardinalityType
  <2> QED BY <1>1, <2>1, <2>2, <2>3 DEF Ladder
<1>3. ASSUME NEW x \in 1 .. ShutAfter - 1, NEW y \in 1 .. ShutAfter - 1, x <= y
      PROVE  Ladder[x] <= Ladder[y]
  <2>1. Low(x) \subseteq Low(y)
    BY <1>1, <1>3, FromIs DEF Low, FromOK
  <2>2. Cardinality(Low(x)) <= Cardinality(Low(y))
    BY <1>2, <2>1, FS_Subset
  <2> QED BY <1>2, <2>2
<1>4. Ladder \in [1 .. ShutAfter - 1 -> 0 .. Cardinality(Handler)]
  BY <1>2 DEF Ladder
<1> QED BY <1>2, <1>3, <1>4 DEF Ladders, Climbs, LadderOK

\* A step that lowers nobody below some count leaves fewer or as many there.
LEMMA LowShrinks ==
  ASSUME LadderOK, LadderOK', UNCHANGED ShutAfter, NEW x \in 1 .. ShutAfter - 1,
         \A r \in Handler : From(r)' < x => From(r) < x
  PROVE  Ladder'[x] <= Ladder[x]
<1> DEFINE s == Low(x)
           t == Low(x)'
<1>1. /\ IsFiniteSet(s) /\ Ladder[x] = Cardinality(s)
      /\ Ladder'[x] = Cardinality(t)
  BY DEF LadderOK
<1>2. t \subseteq s
  BY DEF Low
<1> HIDE DEF s, t
<1> QED BY <1>1, <1>2, FS_Subset

\* A step that lowers nobody leaves the ladder or takes a later one.
LEMMA ClimbsOn ==
  ASSUME AccountInv, AccountInv', FailuresClimb, IsFiniteSet(Ladders), UNCHANGED ShutAfter, failures' <= failures,
         \A r \in Handler : From(r) <= From(r)'
  PROVE  FailuresClimb'
<1> DEFINE k == Ladder
           j == Ladder'
           m == ShutAfter - 1
           K == Climbed(k)
           J == Climbed(j)
<1>1. FromOK /\ LadderOK
  BY FromIs, LadderIs
<1>2. FromOK' /\ LadderOK'
  BY FromIs, LadderIs, PTL
<1>3. \A r \in Handler : From(r) \in Nat /\ From(r)' \in Nat
  BY <1>1, <1>2 DEF FromOK
<1>4. m \in Int
  BY Follow, AccountAssumption, ShutIs
<1>5. \A x \in 1 .. m : j[x] <= k[x] /\ j[x] \in Nat /\ k[x] \in Nat
  BY <1>1, <1>2, <1>3, <1>4, LowShrinks DEF LadderOK
<1>6. K \subseteq J
  <2> SUFFICES ASSUME NEW l \in Ladders, Later(k, l) PROVE Later(j, l)
    BY DEF Climbed
  <2>1. \A x \in 1 .. m : l[x] \in Nat
    BY DEF Ladders, Climbs
  <2> HIDE DEF k, j
  <2> QED BY <1>4, <1>5, <2>1 DEF Later
<1>7. IsFiniteSet(J) /\ Cardinality(J) \in Nat /\ Cardinality(K) <= Cardinality(J)
      /\ Cardinality(K) \in Nat
  <2>1. J \subseteq Ladders
    BY DEF Climbed
  <2> HIDE DEF J, K
  <2> QED BY <1>6, <2>1, FS_Subset, FS_CardinalityType
<1>8. failures <= Cardinality(K) /\ failures \in Nat /\ failures' \in Nat
  BY Follow DEF FailuresClimb, AccountInv
<1>9. FailuresClimb' <=> failures' <= Cardinality(J)
  BY DEF FailuresClimb, Climbed, Later, Ladders, Climbs
<1> HIDE DEF J, K
<1> QED BY <1>7, <1>8, <1>9

\* The steps that make the count of failures anew.
LEMMA ClimbsAnew ==
  ASSUME AccountInv', IsFiniteSet(Ladders), UNCHANGED ShutAfter, failures' = 0
  PROVE  FailuresClimb'
<1> DEFINE J == Climbed(Ladder')
<1>1. J \subseteq Ladders
  BY DEF Climbed
<1>2. Cardinality(J) \in Nat
  <2> HIDE DEF J
  <2> QED BY <1>1, FS_Subset, FS_CardinalityType
<1>3. FailuresClimb' <=> failures' <= Cardinality(J)
  BY DEF FailuresClimb, Climbed, Later, Ladders, Climbs
<1> HIDE DEF J
<1> QED BY <1>2, <1>3

LEMMA CountedTo ==
  ASSUME AccountInv, NEW r \in Handler, RegisterFailure(r, FALSE), failures' # 0,
         NEW u \in Rows, h[r].copy = {u}
  PROVE  /\ user'.attempts = u.attempts + 1 /\ u.attempts + 1 < ShutAfter
         /\ failures' = failures + 1 /\ To(r, Free) /\ Trying(r)
<1> DEFINE n == u.attempts + 1
<1>1. /\ user' = Counted(Copy(r), FALSE)
      /\ ~Shut(user') /\ failures' = failures + 1
      /\ To(r, Free) /\ Trying(r)
  BY DEF RegisterFailure, At, Trying
<1>2. Copy(r) = u /\ user \in Rows
  BY CopyIs, Follow, Shape
<1>3. user' = [user EXCEPT !.attempts = n,
                 !.until = IF lockout /\ n >= LockAfter THEN "future" ELSE @,
                 !.locked = @ \/ n >= PermanentAfter]
  BY <1>1, <1>2 DEF Counted
<1> HIDE DEF n
<1>4. /\ user'.attempts = n /\ user'.locked = (user.locked \/ n >= PermanentAfter)
      /\ user'.until = IF lockout /\ n >= LockAfter THEN "future" ELSE user.until
  BY <1>2, <1>3 DEF Rows
<1>5. ~(lockout /\ n >= LockAfter) /\ ~(n >= PermanentAfter)
  BY <1>1, <1>4 DEF Shut
<1>6. n \in Nat /\ ShutAfter \in Nat
  BY Follow, AccountAssumption, ShutIs DEF Rows, n
<1>7. n < ShutAfter
  BY <1>5, <1>6, AccountAssumption DEF ShutAfter
<1> QED BY <1>1, <1>4, <1>7 DEF n

LEMMA FailureClimbs ==
  ASSUME AccountInv, AccountInv', FailuresClimb, IsFiniteSet(Ladders), UNCHANGED ShutAfter,
         NEW r \in Handler, NEW fresh \in BOOLEAN, RegisterFailure(r, fresh)
  PROVE  FailuresClimb'
<1>1. CASE failures' = 0
  BY <1>1, ClimbsAnew
<1>2. CASE failures' # 0
  <2>1. RegisterFailure(r, FALSE)
    BY <1>2 DEF RegisterFailure
  <2>2. Trying(r)
    BY DEF RegisterFailure, At, Trying
  <2>3. FromOK /\ LadderOK
    BY FromIs, LadderIs
  <2>4. FromOK' /\ LadderOK'
    BY FromIs, LadderIs, PTL
  <2>5. PICK u \in Rows :
          /\ h[r].copy = {u} /\ u.attempts \in Nat
          /\ From(r) = IF u.attempts < user.attempts THEN u.attempts ELSE user.attempts
    BY <2>2, <2>3 DEF FromOK
  <2> DEFINE n == u.attempts + 1
             x == From(r) + 1
             m == ShutAfter - 1
  <2>6. /\ user'.attempts = n /\ n < ShutAfter /\ failures' = failures + 1
        /\ To(r, Free)
    BY <1>2, <2>1, <2>5, CountedTo
  <2>7. /\ h'[r] = Free /\ \A q \in Handler \ {r} : h'[q] = h[q]
    BY <2>6, Follow DEF AllWork, To
  <2>8. From(r) \in Nat /\ x <= n /\ x \in 1 .. m /\ m \in Int
    <3>1. From(r) \in Nat /\ user.attempts \in Nat /\ ShutAfter \in Nat
      BY <2>3, Follow, AccountAssumption, ShutIs DEF FromOK
    <3>2. From(r) <= u.attempts
      BY <2>5, <3>1
    <3>3. u.attempts + 1 < ShutAfter
      BY <2>6
    <3> QED BY <2>5, <3>1, <3>2, <3>3
  <2>9. ASSUME NEW q \in Handler, NEW y \in 1 .. m, y <= x, From(q)' < y
        PROVE  q # r /\ From(q) < y
    <3>1. From(q)' \in Nat /\ From(q) \in Nat /\ From(q)' < n /\ n \in Nat
      BY <2>3, <2>4, <2>5, <2>8, <2>9 DEF FromOK
    <3>2. Trying(q)' /\ q # r
      <4>1. ~Trying(r)'
        BY <2>7 DEF Trying, Free
      <4>2. Trying(q)'
        BY <2>4, <2>6, <3>1 DEF FromOK
      <4> QED BY <4>1, <4>2
    <3>3. PICK v \in Rows' : h'[q].copy = {v} /\ v.attempts \in Nat
            /\ From(q)' = IF v.attempts < user'.attempts THEN v.attempts ELSE user'.attempts
      BY <2>4, <3>2 DEF FromOK
    <3>4. h'[q] = h[q] /\ Trying(q)
      BY <2>7, <3>2 DEF Trying
    <3>5. PICK w \in Rows : h[q].copy = {w} /\ w.attempts \in Nat
            /\ From(q) = IF w.attempts < user.attempts THEN w.attempts ELSE user.attempts
      BY <2>3, <3>4 DEF FromOK
    <3>6. v = w
      BY <3>3, <3>4, <3>5
    <3>7. From(q)' = v.attempts
      BY <2>6, <3>1, <3>3
    <3>8. user.attempts \in Nat
      BY <2>3 DEF FromOK
    <3> QED BY <2>9, <3>2, <3>3, <3>5, <3>6, <3>7, <3>8
  <2> DEFINE k == Ladder
             j == Ladder'
             K == Climbed(k)
             J == Climbed(j)
  <2>10. \A y \in 1 .. m : j[y] \in Nat /\ k[y] \in Nat /\ (y <= x => j[y] <= k[y])
    <3>1. \A y \in 1 .. m : j[y] \in Nat /\ k[y] \in Nat
      BY <2>3, <2>4 DEF LadderOK
    <3>2. ASSUME NEW y \in 1 .. m, y <= x PROVE j[y] <= k[y]
      BY <2>3, <2>4, <2>9, <3>2, LowShrinks
    <3> QED BY <3>1, <3>2
  <2>11. j[x] < k[x]
    <3> DEFINE s == Low(x)
               t == {q \in Handler : From(q)' < x}
    <3>1. IsFiniteSet(s) /\ k[x] = Cardinality(s)
      BY <2>3, <2>8 DEF LadderOK
    <3>2. \A y \in 1 .. m : j[y] = Cardinality({q \in Handler : From(q)' < y})
      BY <2>4 DEF LadderOK, Low
    <3>3. j[x] = Cardinality(t)
      BY <2>8, <3>2
    <3>4. t \subseteq s /\ r \in s /\ r \notin t
      BY <2>8, <2>9 DEF Low
    <3> HIDE DEF s, t
    <3>5. IsFiniteSet(t) /\ Cardinality(t) <= Cardinality(s) /\ Cardinality(t) # Cardinality(s)
      BY <3>1, <3>4, FS_Subset
    <3>6. Cardinality(t) \in Nat /\ Cardinality(s) \in Nat
      BY <3>1, <3>5, FS_CardinalityType
    <3> QED BY <3>1, <3>3, <3>5, <3>6
  <2>12. k \in Ladders /\ k \notin K
    BY <2>3, <2>10 DEF LadderOK, Climbed, Later
  <2>13. K \cup {k} \subseteq J
    <3>1. Later(j, k)
      BY <2>8, <2>10, <2>11 DEF Later
    <3>2. ASSUME NEW l \in Ladders, Later(k, l) PROVE Later(j, l)
      <4>1. \A y \in 1 .. m : l[y] \in Nat
        BY DEF Ladders, Climbs
      <4>2. PICK y \in 1 .. m : k[y] < l[y] /\ \A z \in 1 .. m : z < y => k[z] <= l[z]
        BY <3>2 DEF Later
      <4> HIDE DEF k, j, x, m
      <4>3. CASE y <= x
        <5>1. j[y] < l[y]
          BY <2>10, <4>1, <4>2, <4>3
        <5>2. ASSUME NEW z \in 1 .. m, z < y PROVE j[z] <= l[z]
          <6>1. z <= x
            BY <2>8, <4>3, <5>2
          <6> QED BY <2>10, <4>1, <4>2, <5>2, <6>1
        <5> QED BY <5>1, <5>2 DEF Later, m
      <4>4. CASE x < y
        <5>1. j[x] < l[x]
          BY <2>8, <2>10, <2>11, <4>1, <4>2, <4>4
        <5>2. ASSUME NEW z \in 1 .. m, z < x PROVE j[z] <= l[z]
          <6>1. z < y /\ z <= x
            BY <2>8, <4>4, <5>2
          <6> QED BY <2>10, <4>1, <4>2, <5>2, <6>1
        <5> QED BY <2>8, <5>1, <5>2 DEF Later, m
      <4> QED BY <2>8, <4>3, <4>4
    <3> QED BY <2>12, <3>1, <3>2 DEF Climbed
  <2>14. J \subseteq Ladders /\ K \subseteq Ladders
    BY DEF Climbed
  <2>15. failures <= Cardinality(K) /\ failures \in Nat
    BY Follow DEF FailuresClimb
  <2>16. FailuresClimb' <=> failures' <= Cardinality(J)
    BY DEF FailuresClimb, Climbed, Later, Ladders, Climbs
  <2> HIDE DEF K, J, k
  <2>17. IsFiniteSet(J) /\ IsFiniteSet(K)
    BY <2>14, FS_Subset
  <2>18. Cardinality(K \cup {k}) = Cardinality(K) + 1
    BY <2>12, <2>17, FS_AddElement
  <2>19. Cardinality(K \cup {k}) <= Cardinality(J)
    BY <2>13, <2>17, FS_Subset
  <2>20. Cardinality(K) \in Nat /\ Cardinality(J) \in Nat
    BY <2>17, FS_CardinalityType
  <2> QED BY <2>6, <2>15, <2>16, <2>18, <2>19, <2>20
<1> QED BY <1>1, <1>2

\* Steps that neither count nor forget: a handler that tries has what it had, or
\* has just read the count.
LEMMA SteadyClimbs ==
  ASSUME AccountInv, AccountInv', FailuresClimb, IsFiniteSet(Ladders), UNCHANGED ShutAfter,
         failures' = failures, user'.attempts = user.attempts,
         \A q \in Handler : \/ ~Trying(q)'
                            \/ Trying(q) /\ h'[q].copy = h[q].copy
                            \/ h'[q].copy = {user}
  PROVE  FailuresClimb'
<1>1. FromOK
  BY FromIs
<1>2. FromOK'
  BY FromIs, PTL
<1>3. ASSUME NEW q \in Handler PROVE From(q) <= From(q)'
  <2>1. From(q) \in Nat /\ From(q) <= user.attempts /\ user.attempts \in Nat
    BY <1>1 DEF FromOK
  <2>2. CASE ~Trying(q)'
    BY <1>2, <2>1, <2>2 DEF FromOK
  <2>3. CASE Trying(q)'
    <3>1. PICK v \in Rows' : h'[q].copy = {v} /\ v.attempts \in Nat
            /\ From(q)' = IF v.attempts < user'.attempts THEN v.attempts ELSE user'.attempts
      BY <1>2, <2>3 DEF FromOK
    <3>2. CASE h'[q].copy = {user}
      BY <2>1, <3>1, <3>2
    <3>3. CASE Trying(q) /\ h'[q].copy = h[q].copy
      <4>1. PICK w \in Rows : h[q].copy = {w} /\ w.attempts \in Nat
            /\ From(q) = IF w.attempts < user.attempts THEN w.attempts ELSE user.attempts
        BY <1>1, <3>3 DEF FromOK
      <4>2. v = w
        BY <3>1, <3>3, <4>1
      <4> QED BY <2>1, <3>1, <4>1, <4>2
    <3> QED BY <2>3, <3>2, <3>3
  <2> QED BY <2>2, <2>3
<1>4. failures' <= failures
  BY Follow
<1> QED BY <1>3, <1>4, ClimbsOn

LEMMA HandlerClimbs ==
  ASSUME AccountInv, AccountInv', FailuresClimb, IsFiniteSet(Ladders), UNCHANGED ShutAfter,
         failures' = failures, user'.attempts = user.attempts,
         NEW r \in Handler, NEW x, To(r, x),
         \/ x.op # "login" \/ x.pc \notin {"read", "wrong"}
         \/ Trying(r) /\ x.copy = h[r].copy
         \/ x.copy = {user}
  PROVE  FailuresClimb'
<1>1. h'[r] = x /\ \A q \in Handler \ {r} : h'[q] = h[q]
  BY Follow DEF AllWork, To
<1> QED BY <1>1, SteadyClimbs DEF Trying

LEMMA LoginClimbs ==
  ASSUME AccountInv, AccountInv', FailuresClimb, IsFiniteSet(Ladders), UNCHANGED ShutAfter,
         NEW r \in Handler, Login(r)
  PROVE  FailuresClimb'
<1>1. ASSUME NEW p \in {NoPassword} \cup 0 .. made, BeginLogin(r, p)
      PROVE  FailuresClimb'
  <2> DEFINE x == [Free EXCEPT !.op = "login", !.pc = "read", !.copy = {user}, !.given = p]
  <2>1. To(r, x) /\ failures' = failures /\ user' = user
    BY <1>1 DEF BeginLogin
  <2>2. x.copy = {user}
    BY DEF Free
  <2> HIDE DEF x
  <2> QED BY <2>1, <2>2, HandlerClimbs
<1>2. CASE Authenticate(r)
  <2> DEFINE x == h[r]
             y == [x EXCEPT !.pc = "right", !.copy = {}]
             z == [x EXCEPT !.pc = "wrong", !.given = NoPassword]
  <2>1. /\ x.op = "login" /\ x.pc = "read" /\ failures' = failures /\ user' = user
        /\ To(r, IF x.given = user.pw /\ ~user.locked THEN y ELSE z)
        /\ x \in Works
    BY <1>2, WorkOf DEF Authenticate, At
  <2>2. y.pc = "right" /\ z.copy = x.copy
    BY <2>1 DEF Works
  <2>3. Trying(r)
    BY <2>1 DEF Trying
  <2>4. To(r, y) \/ To(r, z)
    BY <2>1
  <2> HIDE DEF y, z
  <2> QED BY <2>1, <2>2, <2>3, <2>4, HandlerClimbs
<1>3. CASE ResetFailures(r)
  BY <1>3, ClimbsAnew DEF ResetFailures, Anew
<1>4. CASE CountSessions(r)
  <2> DEFINE y == [h[r] EXCEPT !.pc = "open", !.seen = [i \in DOMAIN sessions |-> sessions[i].id]]
  <2>1. To(r, y) /\ failures' = failures /\ user' = user /\ h[r] \in Works
    BY <1>4, WorkOf DEF CountSessions
  <2>2. y.pc = "open"
    BY <2>1 DEF Works
  <2> HIDE DEF y
  <2> QED BY <2>1, <2>2, HandlerClimbs
<1>5. CASE OpenSession(r)
  <2>1. To(r, Free) /\ failures' = failures /\ user' = user
        /\ Free.op = "none"
    BY <1>5 DEF OpenSession, Free
  <2> QED BY <2>1, HandlerClimbs
<1>6. ASSUME NEW fresh \in BOOLEAN, RegisterFailure(r, fresh)
      PROVE  FailuresClimb'
  BY <1>6, FailureClimbs
<1> QED BY <1>1, <1>2, <1>3, <1>4, <1>5, <1>6 DEF Login

\* A request begins that is no login.
LEMMA StartClimbs ==
  ASSUME AccountInv, AccountInv', FailuresClimb, IsFiniteSet(Ladders), UNCHANGED ShutAfter,
         failures' = failures, user' = user, NEW r \in Handler,
         NEW op \in {"lock", "unlock", "temporary", "change", "edit", "link", "admin link"},
         Begin(r, op)
  PROVE  FailuresClimb'
<1> DEFINE x == [Free EXCEPT !.op = op, !.pc = "read",
                       !.copy = IF op \in {"change", "edit"} THEN {user} ELSE {}]
<1>1. To(r, x)
  BY DEF Begin
<1>2. x.op # "login"
  BY DEF Free
<1> HIDE DEF x
<1> QED BY <1>1, <1>2, HandlerClimbs

\* A request ends, and leaves the count alone.
LEMMA IdleClimbs ==
  ASSUME AccountInv, AccountInv', FailuresClimb, IsFiniteSet(Ladders), UNCHANGED ShutAfter,
         failures' = failures, user'.attempts = user.attempts, NEW r \in Handler,
         To(r, Free)
  PROVE  FailuresClimb'
<1>1. Free.op # "login"
  BY DEF Free
<1> QED BY <1>1, HandlerClimbs

LEMMA OthersClimb ==
  ASSUME AccountInv, AccountInv', FailuresClimb, IsFiniteSet(Ladders), UNCHANGED ShutAfter, NEW r \in Handler,
         Administer(r) \/ Replace(r) \/ Abandon(r)
  PROVE  FailuresClimb'
<1>1. CASE \/ AskLock(r) \/ AskUnlock(r) \/ AskTemporary(r)
           \/ AskChange(r) \/ AskEdit(r)
           \/ \E op \in {"link", "admin link"} : AskLink(r, op)
  BY <1>1, StartClimbs DEF AskLock, AskUnlock, AskTemporary,
     AskChange, AskEdit, AskLink
<1>2. CASE LockAccount(r) \/ Unlock(r) \/ Change(r) \/ Edit(r)
  BY <1>2, ClimbsAnew DEF LockAccount, Unlock, Change, Edit, Anew
<1>3. CASE Revoke(r) \/ Abandon(r)
  BY <1>3, IdleClimbs DEF Revoke, Abandon
<1>4. CASE SetTemporary(r) \/ Confirm(r)
  <2>1. /\ To(r, Free) /\ failures' = failures
        /\ user' = [user EXCEPT !.pw = made'] /\ user \in Rows
    BY <1>4, Follow, Shape DEF SetTemporary, Confirm, SetPassword
  <2>2. user'.attempts = user.attempts
    BY <2>1 DEF Rows
  <2> QED BY <2>1, <2>2, IdleClimbs
<1>5. CASE InvalidateLinks(r)
  <2> DEFINE y == [h[r] EXCEPT !.pc = "make", !.link = Live]
  <2>1. To(r, y) /\ failures' = failures /\ user' = user /\ h[r] \in Works
    BY <1>5, WorkOf DEF InvalidateLinks
  <2>2. y.pc = "make"
    BY <2>1 DEF Works
  <2> HIDE DEF y
  <2> QED BY <2>1, <2>2, HandlerClimbs
<1>6. CASE MakeLink(r)
  <2> DEFINE y == [h[r] EXCEPT !.pc = "revoke", !.link = {}]
  <2>1. /\ To(r, Free) \/ To(r, y)
        /\ failures' = failures /\ user' = user /\ h[r] \in Works
    BY <1>6, WorkOf DEF MakeLink
  <2>2. y.pc = "revoke"
    BY <2>1 DEF Works
  <2> HIDE DEF y
  <2> QED BY <2>1, <2>2, HandlerClimbs, IdleClimbs
<1>7. ASSUME NEW l \in Link, Verify(r, l) PROVE FailuresClimb'
  <2> DEFINE y == [Free EXCEPT !.op = "confirm", !.pc = "read", !.link = {l}]
  <2>1. To(r, y) /\ failures' = failures /\ user' = user
    BY <1>7 DEF Verify
  <2>2. y.op = "confirm"
    BY DEF Free
  <2> HIDE DEF y
  <2> QED BY <2>1, <2>2, HandlerClimbs
<1> QED BY <1>1, <1>2, <1>3, <1>4, <1>5, <1>6, <1>7
        DEF Administer, Replace

LEMMA ClimbStep ==
  ASSUME AccountInv, AccountInv', FailuresClimb, IsFiniteSet(Ladders),
         [AccountNext]_accountVars
  PROVE  FailuresClimb'
<1> UNCHANGED ShutAfter
  BY DEF AccountNext, accountVars, ShutAfter
<1>1. ASSUME failures' = failures, user'.attempts = user.attempts, h' = h PROVE FailuresClimb'
  BY <1>1, SteadyClimbs DEF Trying
<1>2. CASE LapseLock
  <2>1. user' = [user EXCEPT !.until = "past"] /\ user \in Rows
        /\ failures' = failures /\ h' = h
    BY <1>2, Follow, Shape DEF LapseLock
  <2>2. user'.attempts = user.attempts
    BY <2>1 DEF Rows
  <2> QED BY <1>1, <2>1, <2>2
<1>3. CASE \/ \E K \in SUBSET Ids(sessions) : EndSessions(K)
           \/ \E l \in Link : LapseLink(l)
           \/ UNCHANGED accountVars
  BY <1>1, <1>3 DEF EndSessions, LapseLink, accountVars
<1> QED BY <1>2, <1>3, LoginClimbs, OthersClimb DEF AccountNext, AccountMoves

LEMMA ClimbStart ==
  ASSUME AccountInv, AccountInit, IsFiniteSet(Ladders) PROVE FailuresClimb
<1> DEFINE J == Climbed(Ladder)
<1>1. failures = 0 /\ J \subseteq Ladders
  BY DEF AccountInit, Climbed
<1> HIDE DEF J
<1>2. Cardinality(J) \in Nat
  BY <1>1, FS_Subset, FS_CardinalityType
<1> QED BY <1>1, <1>2 DEF FailuresClimb, J

\* The ladder the handlers are on is later than no more than all others.
LEMMA ClimbsEnd ==
  ASSUME AccountInv, FailuresClimb, IsFiniteSet(Ladders)
  PROVE  failures < Cardinality(Ladders)
<1> DEFINE k == Ladder
           K == Climbed(k)
<1>1. k \in Ladders /\ \A x \in 1 .. ShutAfter - 1 : k[x] \in Nat
  BY LadderIs DEF LadderOK
<1>2. K \subseteq Ladders /\ k \notin K
  BY <1>1 DEF Climbed, Later
<1>3. failures <= Cardinality(K) /\ failures \in Nat
  BY Follow DEF FailuresClimb
<1> HIDE DEF K, k
<1>4. IsFiniteSet(K) /\ Cardinality(K) <= Cardinality(Ladders) /\ Cardinality(K) # Cardinality(Ladders)
  BY <1>1, <1>2, FS_Subset
<1>5. Cardinality(K) \in Nat /\ Cardinality(Ladders) \in Nat
  BY <1>4, FS_CardinalityType
<1> QED BY <1>3, <1>4, <1>5

-----------------------------------------------------------------------------
(* How many ladders there are: what choose counts.                 *)

\* A set of numbers has a least one: the orders of the intervals below them.
LEMMA LeastOf == ASSUME NEW T \in SUBSET Nat, T # {} PROVE \E n \in T : \A m \in T : n <= m
<1> DEFINE R == StrictSubsetOrdering(Nat)
           F == FiniteSubsetsOf(Nat)
           S == {0 .. n : n \in T}
<1>1. IsWellFoundedOn(R, F)
  BY FS_StrictSubsetOrderingWellFounded
<1>2. S \subseteq F /\ S # {}
  <2>1. \A n \in T : 0 .. n \in SUBSET Nat /\ IsFiniteSet(0 .. n)
    BY FS_Interval
  <2> QED BY <2>1 DEF FiniteSubsetsOf
<1> HIDE DEF R, F, S
<1>3. PICK x \in S : \A y \in S : ~ (<<y, x>> \in R)
  BY <1>1, <1>2, WFMin
<1>4. PICK n \in T : x = 0 .. n
  BY DEF S
<1>5. ASSUME NEW m \in T, m < n PROVE FALSE
  <2>1. 0 .. m \in SUBSET Nat /\ x \in SUBSET Nat /\ 0 .. m \subseteq x /\ 0 .. m # x
    BY <1>4, <1>5
  <2>2. 0 .. m \in S
    BY DEF S
  <2>3. <<0 .. m, x>> \in R
    BY <2>1 DEF R, StrictSubsetOrdering
  <2> QED BY <1>3, <2>2, <2>3
<1> QED BY <1>5

LEMMA FactorialIs ==
  /\ factorial[0] = 1
  /\ \A n \in Nat \ {0} : factorial[n] = n * factorial[n - 1]
<1>1. factorial = [n \in Nat |-> IF n = 0 THEN 1 ELSE n * factorial[n - 1]]
  BY DEF factorial
<1> QED BY <1>1

LEMMA FactorialPositive == \A n \in Nat : factorial[n] \in Nat \ {0}
<1> DEFINE T == {n \in Nat : factorial[n] \notin Nat \ {0}}
<1> SUFFICES ASSUME T # {} PROVE FALSE
  OBVIOUS
<1>1. PICK n \in T : \A m \in T : n <= m
  <2>1. T \in SUBSET Nat
    OBVIOUS
  <2> HIDE DEF T
  <2> QED BY <2>1, LeastOf
<1>2. n # 0
  BY FactorialIs
<1>3. n - 1 \in Nat /\ n - 1 \notin T
  BY <1>1, <1>2
<1>4. factorial[n - 1] \in Nat \ {0}
  BY <1>3
<1>5. factorial[n] = n * factorial[n - 1] /\ n \in Nat \ {0}
  BY <1>2, FactorialIs
<1>6. \A a, b \in Nat \ {0} : a * b \in Nat \ {0}
  OBVIOUS
<1> QED BY <1>4, <1>5, <1>6

\* What there is to show of m counts of n handlers.
ClimbsCount(m, n) ==
  /\ IsFiniteSet(Climbs(m, n))
  /\ Cardinality(Climbs(m, n)) \in Nat
  /\ Cardinality(Climbs(m, n)) * (factorial[m] * factorial[n])
       = factorial[m + n]

LEMMA OneClimb ==
  ASSUME NEW m \in Nat, NEW n \in Nat, m = 0 \/ n = 0
  PROVE  ClimbsCount(m, n)
<1> DEFINE k == [x \in 1 .. m |-> 0]
<1>1. Climbs(m, n) = {k}
  <2>1. k \in Climbs(m, n)
    BY DEF Climbs
  <2>2. ASSUME NEW l \in Climbs(m, n) PROVE l = k
    <3>1. l \in [1 .. m -> 0 .. n]
      BY DEF Climbs
    <3>2. \A x \in 1 .. m : l[x] = 0
      BY <3>1
    <3> QED BY <3>1, <3>2
  <2> QED BY <2>1, <2>2
<1>2. IsFiniteSet(Climbs(m, n)) /\ Cardinality(Climbs(m, n)) = 1
  BY <1>1, FS_Singleton
<1>3. 1 * (factorial[m] * factorial[n]) = factorial[m + n]
  <2>1. factorial[m] \in Nat /\ factorial[n] \in Nat
    BY FactorialPositive
  <2>2. CASE m = 0
    <3>1. m + n = n /\ factorial[m] = 1
      BY <2>2, FactorialIs
    <3> QED BY <2>1, <3>1
  <2>3. CASE n = 0
    <3>1. m + n = m /\ factorial[n] = 1
      BY <2>3, FactorialIs
    <3> QED BY <2>1, <3>1
  <2> QED BY <2>2, <2>3
<1> QED BY <1>2, <1>3 DEF ClimbsCount

\* A climb ends at the top, and is one of fewer counts before it, or stays below.
LEMMA ClimbsSplit ==
  ASSUME NEW m \in Nat \ {0}, NEW n \in Nat \ {0},
         IsFiniteSet(Climbs(m - 1, n)), IsFiniteSet(Climbs(m, n - 1))
  PROVE  /\ IsFiniteSet(Climbs(m, n))
         /\ Cardinality(Climbs(m, n)) =
              Cardinality(Climbs(m - 1, n)) + Cardinality(Climbs(m, n - 1))
<1> DEFINE C == Climbs(m, n)
           A == Climbs(m - 1, n)
           L == Climbs(m, n - 1)
           T == {k \in C : k[m] = n}
           up(k) == [x \in 1 .. m |-> IF x = m THEN n ELSE k[x]]
           f == [k \in A |-> up(k)]
<1>1. C = T \cup L /\ T \cap L = {}
  <2>1. ASSUME NEW k \in C, k[m] # n PROVE k \in L
    <3>1. k \in [1 .. m -> 0 .. n] /\ \A x, y \in 1 .. m : x <= y => k[x] <= k[y]
      BY DEF Climbs
    <3>2. m \in 1 .. m
      OBVIOUS
    <3>3. k[m] \in 0 .. n - 1
      BY <2>1, <3>1, <3>2
    <3>4. \A x \in 1 .. m : k[x] \in 0 .. n /\ k[x] <= k[m]
      BY <3>1, <3>2
    <3>5. \A x \in 1 .. m : k[x] \in 0 .. n - 1
      BY <3>3, <3>4
    <3>6. k \in [1 .. m -> 0 .. n - 1]
      BY <3>1, <3>5
    <3> QED BY <3>1, <3>6 DEF Climbs
  <2>2. ASSUME NEW k \in L PROVE k \in C /\ k[m] # n
    <3>1. k \in [1 .. m -> 0 .. n - 1] /\ \A x, y \in 1 .. m : x <= y => k[x] <= k[y]
      BY DEF Climbs
    <3>2. k \in [1 .. m -> 0 .. n]
      BY <3>1
    <3> QED BY <3>1, <3>2 DEF Climbs
  <2> HIDE DEF L, C
  <2> QED BY <2>1, <2>2
<1>2. \A k \in A : up(k) \in T
  <2> SUFFICES ASSUME NEW k \in A PROVE up(k) \in T
    OBVIOUS
  <2>1. k \in [1 .. m - 1 -> 0 .. n] /\ \A x, y \in 1 .. m - 1 : x <= y => k[x] <= k[y]
    BY DEF Climbs
  <2>2. \A x \in 1 .. m : x = m \/ x \in 1 .. m - 1
    OBVIOUS
  <2>3. up(k) \in [1 .. m -> 0 .. n] /\ up(k)[m] = n
    BY <2>1, <2>2
  <2>4. ASSUME NEW x \in 1 .. m, NEW y \in 1 .. m, x <= y PROVE up(k)[x] <= up(k)[y]
    BY <2>1, <2>2, <2>4
  <2> HIDE DEF up
  <2> QED BY <2>3, <2>4 DEF Climbs
<1>3. \A k, l \in A : up(k) = up(l) => k = l
  <2> SUFFICES ASSUME NEW k \in A, NEW l \in A, up(k) = up(l) PROVE k = l
    OBVIOUS
  <2>1. k \in [1 .. m - 1 -> 0 .. n] /\ l \in [1 .. m - 1 -> 0 .. n]
    BY DEF Climbs
  <2>2. \A x \in 1 .. m - 1 : up(k)[x] = k[x] /\ up(l)[x] = l[x]
    OBVIOUS
  <2> HIDE DEF up, A
  <2>3. \A x \in 1 .. m - 1 : k[x] = l[x]
    BY <2>2
  <2> QED BY <2>1, <2>3
<1>4. \A t \in T : \E k \in A : up(k) = t
  <2> SUFFICES ASSUME NEW t \in T PROVE \E k \in A : up(k) = t
    OBVIOUS
  <2> DEFINE k == [x \in 1 .. m - 1 |-> t[x]]
  <2>1. t \in [1 .. m -> 0 .. n] /\ t[m] = n /\ \A x, y \in 1 .. m : x <= y => t[x] <= t[y]
    BY DEF Climbs
  <2>2. \A x \in 1 .. m - 1 : x \in 1 .. m
    OBVIOUS
  <2>3. k \in A
    BY <2>1, <2>2 DEF Climbs
  <2>4. up(k) = t
    <3>1. \A x \in 1 .. m : x = m \/ x \in 1 .. m - 1
      OBVIOUS
    <3>2. \A x \in 1 .. m : up(k)[x] = t[x]
      BY <2>1, <3>1
    <3> QED BY <2>1, <3>2
  <2> QED BY <2>3, <2>4
<1> HIDE DEF up
<1>5. f \in [A -> T] /\ \A k \in A : f[k] = up(k)
  BY <1>2
<1> HIDE DEF f, A, L, T, C
<1>6. f \in Bijection(A, T)
  BY <1>3, <1>4, <1>5 DEF Bijection, Injection, Surjection, IsInjective
<1>7. IsFiniteSet(A) /\ IsFiniteSet(L)
  BY DEF A, L
<1>8. IsFiniteSet(T) /\ Cardinality(T) = Cardinality(A)
  BY <1>6, <1>7, FS_Bijection DEF ExistsBijection
<1>9. IsFiniteSet(C) /\ Cardinality(C) = Cardinality(T) + Cardinality(L) - Cardinality(T \cap L)
  BY <1>1, <1>7, <1>8, FS_Union
<1>10. Cardinality(T \cap L) = 0
  BY <1>1, FS_EmptySet
<1>11. Cardinality(C) = Cardinality(A) + Cardinality(L)
  BY <1>7, <1>8, <1>9, <1>10, FS_CardinalityType
<1> QED BY <1>9, <1>11 DEF A, L, C

LEMMA Pascal ==
  ASSUME NEW m \in Nat \ {0}, NEW n \in Nat \ {0}, NEW a \in Nat, NEW b \in Nat,
         NEW p \in Nat, NEW q \in Nat, NEW s \in Nat,
         a * (p * (n * q)) = s, b * ((m * p) * q) = s
  PROVE  (a + b) * ((m * p) * (n * q)) = (m + n) * s
<1>1. a * ((m * p) * (n * q)) = m * (a * (p * (n * q)))
  OBVIOUS
<1>2. b * ((m * p) * (n * q)) = n * (b * ((m * p) * q))
  OBVIOUS
<1>3. (a + b) * ((m * p) * (n * q)) = a * ((m * p) * (n * q)) + b * ((m * p) * (n * q))
  OBVIOUS
<1>4. (m + n) * s = m * s + n * s
  OBVIOUS
<1> QED BY <1>1, <1>2, <1>3, <1>4

LEMMA NextClimbs ==
  ASSUME NEW m \in Nat \ {0}, NEW n \in Nat \ {0},
         ClimbsCount(m - 1, n), ClimbsCount(m, n - 1)
  PROVE  ClimbsCount(m, n)
<1> DEFINE a == Cardinality(Climbs(m - 1, n))
           b == Cardinality(Climbs(m, n - 1))
           p == factorial[m - 1]
           q == factorial[n - 1]
           s == factorial[m + n - 1]
<1>1. IsFiniteSet(Climbs(m, n)) /\ Cardinality(Climbs(m, n)) = a + b /\ a \in Nat /\ b \in Nat
  BY ClimbsSplit DEF ClimbsCount
<1>2. p \in Nat /\ q \in Nat /\ s \in Nat
  BY FactorialPositive
<1>3. /\ factorial[m] = m * p /\ factorial[n] = n * q
      /\ factorial[m + n] = (m + n) * s
  BY FactorialIs
<1>4. a * (p * (n * q)) = s
  <2>1. (m - 1) + n = m + n - 1
    OBVIOUS
  <2> QED BY <1>3, <2>1 DEF ClimbsCount
<1>5. b * ((m * p) * q) = s
  <2>1. m + (n - 1) = m + n - 1
    OBVIOUS
  <2> QED BY <1>3, <2>1 DEF ClimbsCount
<1> HIDE DEF a, b, p, q, s
<1>6. (a + b) * ((m * p) * (n * q)) = (m + n) * s
  BY <1>1, <1>2, <1>4, <1>5, Pascal
<1>7. a + b \in Nat
  BY <1>1
<1> QED BY <1>1, <1>3, <1>6, <1>7 DEF ClimbsCount

LEMMA ClimbsAre == \A m, n \in Nat : ClimbsCount(m, n)
<1> DEFINE T == {s \in Nat : \E m, n \in Nat : m + n = s /\ ~ClimbsCount(m, n)}
<1>1. T = {}
  <2> SUFFICES ASSUME T # {} PROVE FALSE
    OBVIOUS
  <2>1. PICK s \in T : \A t \in T : s <= t
    <3>1. T \in SUBSET Nat
      OBVIOUS
    <3> HIDE DEF T
    <3> QED BY <3>1, LeastOf
  <2>2. PICK m \in Nat, n \in Nat : m + n = s /\ ~ClimbsCount(m, n)
    OBVIOUS
  <2>3. m \in Nat \ {0} /\ n \in Nat \ {0}
    BY <2>2, OneClimb
  <2>4. /\ m - 1 \in Nat /\ n - 1 \in Nat /\ s - 1 \in Nat /\ s - 1 \notin T
        /\ (m - 1) + n = s - 1 /\ m + (n - 1) = s - 1
    BY <2>1, <2>2, <2>3
  <2>5. ClimbsCount(m - 1, n) /\ ClimbsCount(m, n - 1)
    BY <2>4
  <2> QED BY <2>2, <2>3, <2>5, NextClimbs
<1>2. ASSUME NEW m \in Nat, NEW n \in Nat, ~ClimbsCount(m, n) PROVE FALSE
  <2>1. m + n \in T
    BY <1>2
  <2> HIDE DEF T
  <2> QED BY <1>1, <2>1
<1> QED BY <1>2

LEMMA ChooseIs ==
  ASSUME NEW n \in Nat, NEW k \in Nat
  PROVE  choose(n, k)
           = factorial[n] \div (factorial[k] * factorial[n - k])
BY DEF choose

LEMMA LaddersAre ==
  /\ IsFiniteSet(Ladders)
  /\ Cardinality(Ladders) = choose(ShutAfter + Cardinality(Handler) - 1, Cardinality(Handler))
<1> DEFINE m == ShutAfter - 1
           n == Cardinality(Handler)
           c == Cardinality(Climbs(m, n))
           d == factorial[m] * factorial[n]
<1>1. m \in Nat /\ n \in Nat
  BY FS_CardinalityType, AccountAssumption, ShutIs
<1>2. IsFiniteSet(Climbs(m, n)) /\ c \in Nat /\ c * d = factorial[m + n]
  BY <1>1, ClimbsAre DEF ClimbsCount
<1>3. d \in Nat \ {0}
  <2>1. factorial[m] \in Nat \ {0} /\ factorial[n] \in Nat \ {0}
    BY <1>1, FactorialPositive
  <2> QED BY <2>1
<1>4. (c * d) \div d = c
  <2> HIDE DEF c, d
  <2> QED BY <1>2, <1>3
<1>5. d = factorial[n] * factorial[m]
  BY <1>1, FactorialPositive
<1>6. ShutAfter + n - 1 = m + n /\ m + n - n = m
  BY <1>1, AccountAssumption, ShutIs
<1>7. choose(ShutAfter + n - 1, n) = c
  <2>1. choose(m + n, n)
          = factorial[m + n] \div (factorial[n] * factorial[m + n - n])
    BY <1>1, ChooseIs
  <2> QED BY <1>2, <1>4, <1>5, <1>6, <2>1
<1> QED BY <1>2, <1>7 DEF Ladders

-----------------------------------------------------------------------------

\* However many logins fail at a time and overwrite each other's count, the account
\* is shut before as many failures in a row as there are ladders: choose(S + H - 1, H)
\* of them, with H handlers, where S is the least count that shuts it.  Without
\* temporary locks, as in an installation that has not turned them on, S is the
\* threshold of the lock for good.
THEOREM LockoutIsReached == AccountSpec => []LockoutComes
<1>1. AccountInv /\ FailuresClimb => LockoutComes
  <2> HAVE AccountInv /\ FailuresClimb
  <2>1. IsFiniteSet(Ladders) /\ failures < Cardinality(Ladders)
    BY Follow, LaddersAre, ClimbsEnd
  <2> QED BY <2>1, Follow, LaddersAre DEF LockoutComes
<1>2. AccountInv /\ AccountInit => FailuresClimb
  BY ClimbStart, Follow, LaddersAre
<1>3. AccountInv /\ AccountInv' /\ FailuresClimb /\ [AccountNext]_accountVars => FailuresClimb'
  BY ClimbStep, Follow, LaddersAre
<1>4. AccountSpec => []AccountInv
  BY AccountInvariant
<1> QED BY <1>1, <1>2, <1>3, <1>4, PTL DEF AccountSpec
=============================================================================
