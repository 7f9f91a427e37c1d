--------------------------- MODULE SessionRefresh ---------------------------
(***************************************************************************)
(* One login session, and the tabs of the browser that holds its refresh   *)
(* cookie.  RefreshAPIView exchanges the token in the cookie for a new one  *)
(* under a lock on the session row, and takes a token it has replaced as a  *)
(* sibling tab's for a grace period and as misused after it.  Logout locks  *)
(* the row too; revocations, expiry and activity reports do not, and may    *)
(* come in between.                                                         *)
(*                                                                          *)
(* Times are ages, advanced by Tick.  The browser is outside the code: a    *)
(* tab has one request out at a time, the cookie is read when it is sent    *)
(* and set or deleted when the answer arrives.                              *)
(***************************************************************************)
EXTENDS Integers, FiniteSets

CONSTANTS
  Tab,          \* tabs that share the cookie
  Token,        \* refresh tokens
  None,
  Latency,      \* bound on the time from sending a request to its answer
  Grace,        \* REFRESH_REUSE_GRACE_SECONDS
  PingGap,      \* least age at which SessionActivityAPIView writes last_used_at
  Idle,         \* session idle timeout
  AccessLife,   \* lifetime of an access token
  MaxFaults     \* bound on lost messages and server errors

\* A request, its retry and an activity report that was read before the rotation
\* fit together into the grace period, and a tab does not refresh again while a
\* request older than its last refresh may be on its way.
ASSUME SessionAssumption ==
  /\ Token # {} /\ None \notin Tab \cup Token \cup Nat
  /\ {Latency, Grace, PingGap, Idle, AccessLife, MaxFaults} \subseteq Nat
  /\ 3 * Latency <= Grace /\ Latency < AccessLife
  /\ Grace <= PingGap /\ PingGap < Idle

VARIABLES
  row,      \* the UserSession row; used is the age of last_used_at, or of the
            \* row while that is null, and expires_at is Idle after it
  owner,    \* the tab whose request has locked the row
  jar,      \* the refresh cookie
  tab,      \* what each tab is doing, and the request it has out
  ping,     \* the age of the activity report being served, or None
  faults,   \* lost messages and server errors so far
  lost,     \* what was lost: an "answer" with a new token; a "request" whose
            \* token was replaced twice before it was served
  alarm     \* reuse of a token was reported

vars == <<row, owner, jar, tab, ping, faults, lost, alarm>>

Ended == {"revoked", "expired", "gone"}
Status == {"active"} \cup Ended
Tokens == Token \cup {None}
AgeCap == Idle + Latency
Age == 0 .. AgeCap
Row == {r \in [status: Status, current: Token, previous: Tokens, used: Age, touched: BOOLEAN] :
          r.current # r.previous}
TabState ==
  [pc: {"ready", "need", "sent", "lock", "write", "answered", "backoff", "out"},
   op: {"refresh", "logout"},
   age: 0 .. AccessLife,  \* of the access token or of the request
   sent: Tokens,    \* the cookie of the request
   now: Nat,        \* how long ago the request read the clock
   seen: [status: Status, current: Token, previous: Tokens] \cup {None},
   answer: {"none", "ok", "conflict", "invalid", "loggedout", "error"},
   new: Tokens]

Ready == [pc |-> "ready", op |-> "refresh", age |-> 0, sent |-> None, now |-> 0,
          seen |-> None, answer |-> "none", new |-> None]

\* After a login.
Init ==
  /\ jar = CHOOSE k \in Token : TRUE
  /\ row = [status |-> "active", current |-> jar, previous |-> None,
            used |-> 0, touched |-> FALSE]
  /\ tab = [t \in Tab |-> Ready]
  /\ owner = None /\ ping = None
  /\ faults = 0 /\ lost = {} /\ alarm = FALSE
-----------------------------------------------------------------------------
(* The browser.                                                            *)
Out(t) == tab[t].pc \in {"sent", "lock", "write", "answered"}

\* The access token has expired, or the API has answered 401.
Lapse(t) ==
  /\ tab[t].pc = "ready"
  /\ tab[t].age >= AccessLife \/ row.status \in Ended
  /\ tab' = [tab EXCEPT ![t] = [Ready EXCEPT !.pc = "need"]]
  /\ UNCHANGED <<row, owner, jar, ping, faults, lost, alarm>>

SendAs(t, op) ==
  /\ tab' = [tab EXCEPT ![t] = [Ready EXCEPT !.pc = "sent", !.op = op, !.sent = jar]]
  /\ UNCHANGED <<row, owner, jar, ping, faults, lost, alarm>>

Send(t) == tab[t].pc = "need" /\ SendAs(t, tab[t].op)

Leave(t) == tab[t].pc \in {"ready", "need"} /\ SendAs(t, "logout")

BackOff(t) ==
  tab' = [tab EXCEPT ![t] = [Ready EXCEPT !.pc = "backoff", !.op = tab[t].op]]

\* The cookie is set or deleted as the answer says; Retry-After is obeyed.
Receive(t) ==
  /\ tab[t].pc = "answered"
  /\ CASE tab[t].answer = "ok" ->
            jar' = tab[t].new /\ tab' = [tab EXCEPT ![t] = Ready]
       [] tab[t].answer \in {"conflict", "error"} ->
            BackOff(t) /\ UNCHANGED jar
       [] OTHER ->
            jar' = None /\ tab' = [tab EXCEPT ![t] = [Ready EXCEPT !.pc = "out", !.op = tab[t].op]]
  /\ UNCHANGED <<row, owner, ping, faults, lost, alarm>>

\* A request or its answer is lost, and the tab tries again.
Lose(t) ==
  /\ tab[t].pc \in {"sent", "answered"} /\ faults < MaxFaults
  /\ BackOff(t)
  /\ faults' = faults + 1
  /\ lost' = IF tab[t].answer = "ok" THEN lost \cup {"answer"} ELSE lost
  /\ UNCHANGED <<row, owner, jar, ping, alarm>>
-----------------------------------------------------------------------------
(* RefreshAPIView and LogoutAPIView.                                       *)
\* token_urlsafe: a token that nobody has.
Fresh == Token \ ({row.current, row.previous, jar}
                     \cup UNION {{tab[t].sent, tab[t].new} : t \in Tab})

Answered(t, a, k) ==
  tab' = [tab EXCEPT ![t] = [Ready EXCEPT !.pc = "answered", !.op = tab[t].op,
                               !.age = tab[t].age, !.sent = tab[t].sent,
                               !.answer = a, !.new = k]]

NoCookie(t) ==
  /\ tab[t].pc = "sent" /\ tab[t].sent = None
  /\ Answered(t, IF tab[t].op = "logout" THEN "loggedout" ELSE "invalid", None)
  /\ UNCHANGED <<row, owner, jar, ping, faults, lost, alarm>>

\* The clock is read before the row is locked.
Start(t) ==
  /\ tab[t].pc = "sent" /\ tab[t].sent # None
  /\ tab' = [tab EXCEPT ![t].pc = "lock"]
  /\ UNCHANGED <<row, owner, jar, ping, faults, lost, alarm>>

Load(t) ==
  tab' = [tab EXCEPT ![t].pc = "write",
                     ![t].seen = [status |-> row.status, current |-> row.current,
                                  previous |-> row.previous]]

\* Mutant: the row is read without select_for_update.
BugLock(t) ==
  /\ tab[t].pc = "lock" /\ Load(t)
  /\ UNCHANGED <<row, owner, jar, ping, faults, lost, alarm>>

Lock(t) ==
  /\ tab[t].pc = "lock" /\ owner = None
  /\ owner' = t /\ Load(t)
  /\ UNCHANGED <<row, jar, ping, faults, lost, alarm>>

\* The transaction ends with an answer.
Finish(t, a, k) ==
  /\ tab[t].pc = "write"
  /\ Answered(t, a, k)
  /\ owner' = None
  /\ UNCHANGED <<jar, ping>>

SetStatus(s) == row' = IF row.status = "gone" THEN row ELSE [row EXCEPT !.status = s]

IsCurrent(t) == tab[t].seen.current = tab[t].sent
IsPrevious(t) == tab[t].seen.previous = tab[t].sent

\* Mutants: a replaced token is always a sibling's; never.
BugAlwaysGrace(t) == row.touched
BugNoGrace(t) == row.touched /\ row.used < tab[t].now
WithinGrace(t) == row.touched /\ row.used - tab[t].now <= Grace

Refreshing(t) ==
  tab[t].pc = "write" /\ tab[t].op = "refresh" /\ tab[t].seen.status = "active"

\* Not active, or the cookie has neither token.
Reject(t) ==
  /\ tab[t].pc = "write" /\ tab[t].op = "refresh"
  /\ tab[t].seen.status # "active" \/ ~(IsCurrent(t) \/ IsPrevious(t))
  /\ Finish(t, "invalid", None) /\ UNCHANGED <<row, faults, lost, alarm>>

\* Mutant: the conflict deletes the cookie as a refusal does.
BugConflict(t) ==
  /\ Refreshing(t) /\ IsPrevious(t) /\ WithinGrace(t)
  /\ Finish(t, "invalid", None) /\ UNCHANGED <<row, faults, lost, alarm>>

Conflict(t) ==
  /\ Refreshing(t) /\ IsPrevious(t) /\ WithinGrace(t)
  /\ Finish(t, "conflict", None) /\ UNCHANGED <<row, faults, lost, alarm>>

\* _revoke_family: every session is a family of its own.
Reuse(t) ==
  /\ Refreshing(t) /\ IsPrevious(t) /\ ~WithinGrace(t)
  /\ SetStatus("revoked") /\ alarm' = TRUE
  /\ Finish(t, "invalid", None) /\ UNCHANGED <<faults, lost>>

IdledOut(t) == row.used - tab[t].now >= Idle

\* The absolute lifetime may have ended, the account may be locked and the user
\* agent may be another one: the first expires a session, the others revoke it.
Refuse(t) ==
  /\ Refreshing(t)
  /\ \/ IsCurrent(t) /\ SetStatus("expired")
     \/ SetStatus("revoked") /\ (IsPrevious(t) \/ IsCurrent(t))
  /\ Finish(t, "invalid", None) /\ UNCHANGED <<faults, lost, alarm>>

Rotated(t, k) ==
  [row EXCEPT !.previous = tab[t].seen.current, !.current = k,
              !.used = tab[t].now, !.touched = TRUE]

\* A request that waits has the token that the next rotation of t forgets.
Overtakes(t) ==
  \E u \in Tab \ {t} : tab[u].pc \in {"sent", "lock"} /\ tab[u].sent # None
                       /\ tab[u].sent = row.previous

Rotate(t) ==
  /\ Refreshing(t) /\ IsCurrent(t) /\ ~IdledOut(t)
  /\ Fresh # {}
  /\ LET k == CHOOSE n \in Fresh : TRUE IN
       row' = Rotated(t, k) /\ Finish(t, "ok", k)
  /\ lost' = IF Overtakes(t) THEN lost \cup {"request"} ELSE lost
  /\ UNCHANGED <<faults, alarm>>

\* Mutant: only the current token can log out.
BugMayLogOut(t) == IsCurrent(t)
MayLogOut(t) == IsCurrent(t) \/ IsPrevious(t)

Logout(t) ==
  /\ tab[t].pc = "write" /\ tab[t].op = "logout"
  /\ IF MayLogOut(t) /\ tab[t].seen.status = "active" THEN SetStatus("revoked")
                                                     ELSE UNCHANGED row
  /\ Finish(t, "loggedout", None) /\ UNCHANGED <<faults, lost, alarm>>

\* An exception rolls back: 500.
Fail(t) ==
  /\ faults < MaxFaults /\ faults' = faults + 1
  /\ Finish(t, "error", None) /\ UNCHANGED <<row, lost, alarm>>

Serve(t) ==
  \/ NoCookie(t) \/ Start(t) \/ Lock(t)
  \/ Reject(t) \/ Conflict(t) \/ Reuse(t) \/ Refuse(t) \/ Rotate(t)
  \/ Logout(t) \/ Fail(t)
-----------------------------------------------------------------------------
(* SessionActivityAPIView: the row is read by the authentication, and saved *)
(* without a lock.                                                          *)
Ping ==
  /\ ping = None /\ row.status = "active" /\ PingGap < row.used /\ row.used < Idle
  /\ \E t \in Tab : tab[t].pc = "ready" /\ tab[t].age < AccessLife
  /\ ping' = 0
  /\ UNCHANGED <<row, owner, jar, tab, faults, lost, alarm>>

Pinged ==
  /\ ping # None /\ owner = None /\ ping' = None
  /\ row' = IF row.status = "gone" THEN row
            ELSE [row EXCEPT !.used = ping, !.touched = TRUE]
  /\ UNCHANGED <<owner, jar, tab, faults, lost, alarm>>

\* expire_user_sessions: one UPDATE of what is active and past its expires_at.
Expire ==
  /\ owner = None /\ row.status = "active" /\ row.used > Idle
  /\ SetStatus("expired")
  /\ UNCHANGED <<owner, jar, tab, ping, faults, lost, alarm>>

\* An administrator, a password change, a lock of the account or the
\* authentication ends the session, the last whatever its status is now.
\* The absolute lifetime may be over at any time.
End(s) ==
  /\ owner = None /\ row.status # "gone" /\ SetStatus(s)
  /\ UNCHANGED <<owner, jar, tab, ping, faults, lost, alarm>>

\* cleanup_user_sessions, some time after the retention of ended sessions.
Cleanup ==
  /\ owner = None /\ row.status \in Ended
  /\ row' = [row EXCEPT !.status = "gone", !.used = 0, !.touched = FALSE]
  /\ UNCHANGED <<owner, jar, tab, ping, faults, lost, alarm>>

(* Time passes while no tab has a request to send or one out too long.     *)
Older(n) == IF n = AgeCap THEN n ELSE n + 1

Tick ==
  /\ \A t \in Tab : tab[t].pc # "need" /\ (Out(t) => tab[t].age < Latency)
  /\ ping # None => ping < Latency
  /\ row' = IF row.status = "gone" THEN row ELSE [row EXCEPT !.used = Older(@)]
  /\ ping' = IF ping = None THEN None ELSE ping + 1
  /\ tab' = [t \in Tab |->
       LET s == tab[t] IN
       [s EXCEPT !.pc = IF @ = "backoff" THEN "need" ELSE @,
                 !.age = IF Out(t) \/ (s.pc = "ready" /\ @ < AccessLife) THEN @ + 1 ELSE @,
                 !.now = IF s.pc \in {"lock", "write"} THEN @ + 1 ELSE @]]
  /\ UNCHANGED <<owner, jar, faults, lost, alarm>>
-----------------------------------------------------------------------------
Next ==
  \/ \E t \in Tab : Serve(t) \/ Lapse(t) \/ Send(t) \/ Leave(t) \/ Receive(t) \/ Lose(t)
  \/ Ping \/ Pinged \/ End("revoked") \/ End("expired") \/ Expire \/ Cleanup \/ Tick

\* Requests are served and answered, one that waits for the lock gets it, and
\* time passes.
Fairness ==
  /\ \A t \in Tab : SF_vars(Serve(t)) /\ WF_vars(Send(t)) /\ WF_vars(Receive(t))
  /\ SF_vars(Pinged) /\ WF_vars(Tick)

Spec == Init /\ [][Next]_vars
FairSpec == Spec /\ Fairness
-----------------------------------------------------------------------------
\* Type correctness; a rotation never stores one token as both the current and
\* the previous one, which would make the new token conflict with itself.
TypeOK ==
  /\ row \in Row
  /\ owner \in Tab \cup {None}
  /\ jar \in Tokens
  /\ tab \in [Tab -> TabState]
  /\ ping \in 0 .. Latency \cup {None}
  /\ faults \in 0 .. MaxFaults /\ lost \subseteq {"answer", "request"} /\ alarm \in BOOLEAN

\* "Refreshes for the same session are serialized": two requests never exchange
\* the same token.
OneWinner ==
  \A t, u \in Tab :
    tab[t].answer = "ok" /\ tab[u].answer = "ok" /\ tab[t].sent = tab[u].sent => t = u

\* "a sibling tab can retry using the cookie installed by the winning refresh
\* response": tabs that refresh at the same time do not make each other lose the
\* session.  While it is active the browser has its current token, or an answer
\* with it is on the way, unless an answer was lost or a request was overtaken by
\* two rotations; two tabs alone do not overtake each other.
TwoTabs == \A t, u, v \in Tab : t = u \/ u = v \/ t = v

CredentialKept ==
  /\ TwoTabs => "request" \notin lost
  /\ row.status = "active" /\ lost = {} =>
       jar = row.current \/ \E t \in Tab : tab[t].answer = "ok" /\ tab[t].new = row.current

\* A tab whose user has logged out, or that was told to log in again, leaves no
\* active session behind: not when another tab replaced the token meanwhile, and
\* not when an answer was lost.
SignedOutIsEnded ==
  "request" \notin lost /\ (\E t \in Tab : tab[t].pc = "out") => row.status \in Ended

\* The sibling of a tab that has refreshed is never taken for a misuse, however
\* many tabs there are.
NoFalseAlarm == alarm => "answer" \in lost

\* A tab that needs an access token gets one, or is told to log in again, once
\* the other tabs leave it the session.
TabsServed ==
  \A t \in Tab :
    <>[](\A u \in Tab \ {t} : tab[u].pc \in {"ready", "out"}) =>
      (tab[t].pc = "need" ~> tab[t].pc \in {"ready", "out"})
=============================================================================
