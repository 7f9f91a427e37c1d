------------------------------ MODULE Accounts ------------------------------
(***************************************************************************)
(* One account: its password, its locks, the count of failed logins, the    *)
(* links that reset the password and the sessions it has open.  Requests    *)
(* and e-mail tasks read the row of the user without locking it, spend a    *)
(* while (a password is hashed on the way) and save: some of the columns,   *)
(* or, in two places, the whole row as they have read it.                   *)
(*                                                                          *)
(* Postgres is outside the code: a statement sees what is committed, and a  *)
(* transaction is one step unless it reads first.  Times are left open: a   *)
(* temporary lock, a link or the window for failed logins may end at any    *)
(* time.  Sessions also end in the ways SessionRefresh describes.           *)
(***************************************************************************)
EXTENDS Integers, FiniteSets, Sequences, SequencesExt, Combinatorics

CONSTANTS
  Handler,       \* requests and tasks that run at the same time
  LockAfter,     \* SecuritySettings.lockout_attempts, for a temporary lock
  PermanentAfter, \* SecuritySettings.permanent_lock_threshold
  MaxSessions,   \* SecuritySettings.max_concurrent_sessions
  Link,          \* password reset events
  MaxPasswords,  \* bound on passwords made
  MaxOpen        \* bound on sessions open at once

ASSUME AccountAssumption ==
  /\ LockAfter \in Nat \ {0} /\ PermanentAfter \in Nat \ {0} /\ MaxSessions \in Nat \ {0}
  /\ MaxPasswords \in Nat /\ MaxOpen \in Nat
  /\ IsFiniteSet(Handler)

VARIABLES
  lockout,    \* SecuritySettings.enable_account_lockout, off unless it is turned on
  user,       \* the User
  sessions,  \* active sessions, the oldest first
  links,     \* PasswordResetEvents: off when replaced, used or expired
  made,      \* passwords made so far
  h,         \* what each handler is doing
  failures   \* failed logins since the count was last made anew, while unlocked

accountVars == <<lockout, user, sessions, links, made, h, failures>>

\* Passwords are told apart by when they were made.  0 is the first.
Passwords == 0 .. MaxPasswords
NoPassword == -1

Rows == [pw: Passwords, locked: BOOLEAN,
         until: {"none", "future", "past"}, attempts: 0 .. PermanentAfter]

\* Enough ids for the sessions and for those that handlers remember.
Id == 1 .. MaxOpen + Cardinality(Handler) + 1

\* loose: the login had read the password before another was made.
Sessions == [id: Id, pw: Passwords, loose: BOOLEAN]

Free == [pc |-> "idle", op |-> "none", given |-> NoPassword, copy |-> {}, seen |-> << >>,
         link |-> {}]

AccountInit ==
  /\ lockout \in BOOLEAN
  /\ user = [pw |-> 0, locked |-> FALSE, until |-> "none", attempts |-> 0]
  /\ sessions = << >>
  /\ links = [l \in Link |-> "off"]
  /\ made = 0
  /\ h = [r \in Handler |-> Free]
  /\ failures = 0

Shut(u) == u.locked \/ u.until = "future"

To(r, x) == h' = [h EXCEPT ![r] = x]
Go(r, pc) == To(r, [h[r] EXCEPT !.pc = pc])
At(r, op, pc) == h[r].op = op /\ h[r].pc = pc
\* Of the row as it was read only what is saved again matters.
Begin(r, op) ==
  /\ h[r].pc = "idle"
  /\ To(r, [Free EXCEPT !.op = op, !.pc = "read",
                       !.copy = IF op \in {"change", "edit"} THEN {user} ELSE {}])
Copy(r) == CHOOSE u \in h[r].copy : TRUE

\* The count is made anew by every save of attempts that is no failed login.
Anew == failures' = 0
-----------------------------------------------------------------------------
(* SessionTokenLoginView.  The row is read once to refuse a locked account,  *)
(* and once more to check the password.                                      *)
BeginLogin(r, p) ==
  /\ h[r].pc = "idle" /\ ~ Shut(user)
  /\ To(r, [Free EXCEPT !.op = "login", !.pc = "read", !.copy = {user}, !.given = p])
  /\ UNCHANGED <<user, sessions, links, made, failures>>

\* A password that is not the present one, or a lock; what is wrong does not matter.
Authenticate(r) ==
  /\ At(r, "login", "read")
  /\ To(r, IF h[r].given = user.pw /\ ~ user.locked
           THEN [h[r] EXCEPT !.pc = "right", !.copy = {}]
           ELSE [h[r] EXCEPT !.pc = "wrong", !.given = NoPassword])
  /\ UNCHANGED <<user, sessions, links, made, failures>>

\* Mutant: one failure more is let pass.
BugCounted(u, fresh) ==
  LET n == IF fresh THEN 1 ELSE u.attempts + 1
  IN [user EXCEPT !.attempts = n,
                 !.until = IF lockout /\ n > LockAfter THEN "future" ELSE @,
                 !.locked = @ \/ n > PermanentAfter]

\* Mutant: the whole row is saved.
BugCountedRow(u, fresh) ==
  LET n == IF fresh THEN 1 ELSE u.attempts + 1
  IN [u EXCEPT !.attempts = n,
               !.until = IF lockout /\ n >= LockAfter THEN "future" ELSE @,
               !.locked = @ \/ n >= PermanentAfter]

\* register_failed_login counts from the row read at first.  The temporary lock is
\* for those who have turned it on, the lock for good is for all.
Counted(u, fresh) ==
  LET n == IF fresh THEN 1 ELSE u.attempts + 1
  IN [user EXCEPT !.attempts = n,
                 !.until = IF lockout /\ n >= LockAfter THEN "future" ELSE @,
                 !.locked = @ \/ n >= PermanentAfter]

RegisterFailure(r, fresh) ==
  /\ At(r, "login", "wrong")
  /\ user' = Counted(Copy(r), fresh)
  /\ failures' = IF Shut(user') \/ fresh THEN 0 ELSE failures + 1
  /\ To(r, Free)
  /\ UNCHANGED <<sessions, links, made>>

Unfailed(u) == [u EXCEPT !.attempts = 0, !.until = "none"]

ResetFailures(r) ==
  /\ At(r, "login", "right")
  /\ user' = Unfailed(user) /\ Anew
  /\ Go(r, "count")
  /\ UNCHANGED <<sessions, links, made>>

Ids(s) == {s[i].id : i \in DOMAIN s}

\* The sessions that are left when those with an id in K end, in the same order.
Left(K) == {i \in DOMAIN sessions : sessions[i].id \notin K}
Orders(S) == {f \in [1 .. Cardinality(S) -> S] : \A i, j \in DOMAIN f : i < j => f[i] < f[j]}
After(K) == {[i \in DOMAIN f |-> sessions[f[i]]] : f \in Orders(Left(K))}

\* The active sessions are counted, and the oldest is found.
CountSessions(r) ==
  /\ At(r, "login", "count")
  /\ To(r, [h[r] EXCEPT !.pc = "open", !.seen = [i \in DOMAIN sessions |-> sessions[i].id]])
  /\ UNCHANGED <<user, sessions, links, made, failures>>

\* Mutant: the limit is reached one session later.
BugEvicted(seen) == IF Len(seen) > MaxSessions THEN {Head(seen)} ELSE {}

Evicted(seen) == IF Len(seen) >= MaxSessions THEN {Head(seen)} ELSE {}

\* Ids that neither a session nor a handler has.
NewId == CHOOSE i \in Id :
           i \notin Ids(sessions) \cup UNION {Evicted(h[r].seen) : r \in Handler}

OpenSession(r) ==
  /\ At(r, "login", "open")
  /\ \E s \in After(Evicted(h[r].seen)) :
       sessions' = Append(s, [id |-> NewId, pw |-> h[r].given, loose |-> h[r].given # user.pw])
  /\ Len(sessions') <= MaxOpen
  /\ To(r, Free)
  /\ UNCHANGED <<user, links, made, failures>>

\* Logout, expiry, revocation of one session, of all, or of all but one.
EndSessions(K) ==
  /\ K # {} /\ K \subseteq Ids(sessions)
  /\ sessions' \in After(K)
  /\ UNCHANGED <<user, links, made, h, failures>>
-----------------------------------------------------------------------------
(* UserLockViewSet: lock, which then revokes the sessions, and unlock.       *)
AskLock(r) ==
  /\ Begin(r, "lock") /\ ~ user.locked
  /\ UNCHANGED <<user, sessions, links, made, failures>>

LockAccount(r) ==
  /\ At(r, "lock", "read")
  /\ user' = [Unfailed(user) EXCEPT !.locked = TRUE] /\ Anew
  /\ Go(r, "revoke")
  /\ UNCHANGED <<sessions, links, made>>

\* Also the end of an administrator's reset, whose e-mail is out.
Revoke(r) ==
  /\ h[r].pc = "revoke"
  /\ sessions' = << >>
  /\ To(r, Free)
  /\ UNCHANGED <<user, links, made, failures>>

AskUnlock(r) ==
  /\ Begin(r, "unlock") /\ (user.locked \/ user.until # "none")
  /\ UNCHANGED <<user, sessions, links, made, failures>>

Unlock(r) ==
  /\ At(r, "unlock", "read")
  /\ user' = [Unfailed(user) EXCEPT !.locked = FALSE] /\ Anew
  /\ To(r, Free)
  /\ UNCHANGED <<sessions, links, made>>
-----------------------------------------------------------------------------
(* Passwords.  Each way of setting one ends all sessions with it.            *)
\* Mutant: sessions go on.
BugSetPassword(u) ==
  /\ made < MaxPasswords /\ made' = made + 1
  /\ user' = [u EXCEPT !.pw = made']
  /\ UNCHANGED sessions

SetPassword(u) ==
  /\ made < MaxPasswords /\ made' = made + 1
  /\ user' = [u EXCEPT !.pw = made']
  /\ sessions' = << >>

\* AdminSetTemporaryPasswordView.
AskTemporary(r) ==
  /\ Begin(r, "temporary") /\ ~ user.locked
  /\ UNCHANGED <<user, sessions, links, made, failures>>

SetTemporary(r) ==
  /\ At(r, "temporary", "read")
  /\ SetPassword(user) /\ To(r, Free)
  /\ UNCHANGED <<links, failures>>

\* ChangePasswordView, with the user that was read by the authentication.
AskChange(r) ==
  /\ Begin(r, "change") /\ sessions # << >> /\ ~ Shut(user)
  /\ UNCHANGED <<user, sessions, links, made, failures>>

Change(r) ==
  /\ At(r, "change", "read")
  /\ SetPassword(Copy(r)) /\ Anew /\ To(r, Free)
  /\ UNCHANGED links

\* Updates of a profile, by the user or an administrator.
AskEdit(r) ==
  /\ Begin(r, "edit")
  /\ UNCHANGED <<user, sessions, links, made, failures>>

\* An old password may come back, to which no session is tied.
Edit(r) ==
  /\ At(r, "edit", "read")
  /\ user' = Copy(r) /\ Anew
  /\ sessions' = [i \in DOMAIN sessions |->
                    [sessions[i] EXCEPT !.loose = @ \/ user'.pw # user.pw]]
  /\ To(r, Free)
  /\ UNCHANGED <<links, made>>
-----------------------------------------------------------------------------
(* Links.  PasswordResetToken.generate_token, in a task that the user or an  *)
(* administrator has asked for, and its confirmation.                        *)
Live == {l \in Link : links[l] # "off"}

\* None is made within two minutes of the last that is still live.
AskLink(r, op) ==
  /\ Begin(r, op) /\ op \in {"link", "admin link"}
  /\ \A l \in Link : links[l] # "recent"
  /\ op = "admin link" => ~ user.locked
  /\ UNCHANGED <<user, sessions, links, made, failures>>

\* One transaction: the links it finds live are off when the new one is made.
InvalidateLinks(r) ==
  /\ h[r].op \in {"link", "admin link"} /\ h[r].pc = "read"
  /\ To(r, [h[r] EXCEPT !.pc = "make", !.link = Live])
  /\ UNCHANGED <<user, sessions, links, made, failures>>

\* An administrator's link is followed by the end of all sessions.
MakeLink(r) ==
  /\ h[r].pc = "make"
  /\ LET kept == [l \in Link |-> IF l \in h[r].link THEN "off" ELSE links[l]]
     IN \E l \in Link :
          /\ kept[l] = "off" /\ \A q \in Handler \ {r} : l \notin h[q].link
          /\ links' = [kept EXCEPT ![l] = "recent"]
  /\ IF h[r].op = "link" THEN To(r, Free) ELSE To(r, [h[r] EXCEPT !.pc = "revoke", !.link = {}])
  /\ UNCHANGED <<user, sessions, made, failures>>

Verify(r, l) ==
  /\ h[r].pc = "idle" /\ l \in Live /\ ~ user.locked
  /\ To(r, [Free EXCEPT !.op = "confirm", !.pc = "read", !.link = {l}])
  /\ UNCHANGED <<user, sessions, links, made, failures>>

Confirm(r) ==
  /\ At(r, "confirm", "read")
  /\ SetPassword(user)
  /\ links' = [l \in Link |-> IF l \in h[r].link THEN "off" ELSE links[l]]
  /\ To(r, Free)
  /\ UNCHANGED failures
-----------------------------------------------------------------------------
(* Time, and the loss of a process.                                          *)
LapseLock ==
  /\ user.until = "future"
  /\ user' = [user EXCEPT !.until = "past"]
  /\ UNCHANGED <<sessions, links, made, h, failures>>

LapseLink(l) ==
  /\ links[l] \in {"recent", "live"}
  /\ links' = [links EXCEPT ![l] = IF @ = "recent" THEN "live" ELSE "off"]
  /\ UNCHANGED <<user, sessions, made, h, failures>>

Abandon(r) ==
  /\ h[r].pc # "idle"
  /\ To(r, Free)
  /\ UNCHANGED <<user, sessions, links, made, failures>>
-----------------------------------------------------------------------------
Login(r) ==
  \/ \E p \in {NoPassword} \cup 0 .. made : BeginLogin(r, p)
  \/ Authenticate(r) \/ ResetFailures(r) \/ CountSessions(r) \/ OpenSession(r)
  \/ \E fresh \in BOOLEAN : RegisterFailure(r, fresh)

Administer(r) ==
  \/ AskLock(r) \/ LockAccount(r) \/ Revoke(r) \/ AskUnlock(r) \/ Unlock(r)
  \/ AskTemporary(r) \/ SetTemporary(r)
  \/ AskEdit(r) \/ Edit(r)

Replace(r) ==
  \/ AskChange(r) \/ Change(r)
  \/ \E op \in {"link", "admin link"} : AskLink(r, op)
  \/ InvalidateLinks(r) \/ MakeLink(r)
  \/ \E l \in Link : Verify(r, l)
  \/ Confirm(r)

AccountMoves ==
  \/ \E r \in Handler : Login(r) \/ Administer(r) \/ Replace(r) \/ Abandon(r)
  \/ \E K \in SUBSET Ids(sessions) : EndSessions(K)
  \/ LapseLock
  \/ \E l \in Link : LapseLink(l)

\* The policy stays as it is.
AccountNext == AccountMoves /\ UNCHANGED lockout

AccountSpec == AccountInit /\ [][AccountNext]_accountVars
-----------------------------------------------------------------------------
AccountTypeOK ==
  /\ lockout \in BOOLEAN
  /\ user \in Rows /\ made \in Passwords
  /\ sessions \in Seq(Sessions) /\ Len(sessions) <= MaxOpen
  /\ \A i, j \in DOMAIN sessions : sessions[i].id = sessions[j].id => i = j
  /\ links \in [Link -> {"recent", "live", "off"}]
  /\ failures \in Nat

\* The lock of an administrator, or of too many failures, is lifted by an unlock,
\* or by a save of the whole row as it was before the lock; no login that was
\* under way lifts it.
LockStands ==
  [][user.locked /\ ~ user'.locked =>
       \E r \in Handler :
         \/ At(r, "unlock", "read")
         \/ h[r].op \in {"change", "edit"} /\ ~ Copy(r).locked]_accountVars

\* However a session was opened and the password changed or put back, a session
\* that its login did not tie to an older password is of the present one.
SessionsFollowPassword == \A i \in DOMAIN sessions : sessions[i].loose \/ sessions[i].pw = user.pw

\* A login leaves more sessions than the limit, and than it counted, only if another
\* one was opened after it had counted them.
LimitHolds ==
  [][\A r \in Handler :
       LET Opens == At(r, "login", "open") /\ h'[r] = Free /\ sessions' # sessions
       IN Opens => \/ Len(sessions') <= MaxSessions
                   \/ Len(sessions') <= Len(h[r].seen)
                   \/ ~ (Ids(sessions) \subseteq Range(h[r].seen))]_accountVars

\* The count at which the account is shut, for a while or for good.
ShutAfter == IF lockout /\ LockAfter <= PermanentAfter THEN LockAfter ELSE PermanentAfter

\* Failed logins that run at the same time overwrite each other's count; still the
\* account is shut in the end, after at most this many of them, whether there are
\* temporary locks or not.
LockoutComes ==
  failures < choose(ShutAfter + Cardinality(Handler) - 1, Cardinality(Handler))
=============================================================================
