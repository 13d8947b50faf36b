------------------------------ MODULE Sessions ------------------------------
(***************************************************************************)
(* The sessions of one account: signing in, refresh tokens that rotate and *)
(* are watched for reuse, signing out, passwords changed, guessed, reset   *)
(* by a manager or through an e-mailed link, and the browser that keeps    *)
(* the cookies.                                                            *)
(*                                                                         *)
(* Every request is one READ COMMITTED transaction.  Those that write the  *)
(* account or issue a token hold the row lock of the employee from their   *)
(* first write to their commit: there is at most one of them, "tx", whose  *)
(* writes nobody else sees yet.  logout does not take that lock.  A        *)
(* request that reads before it waits for a lock has a slot in "request"   *)
(* with what it read; a request of the browser keeps its slot until its    *)
(* answer arrives.                                                         *)
(*                                                                         *)
(* A session may run out at any time: a live one may be refused.  Every    *)
(* change of the password has a stamp of its own.  Left out: the e-mailed  *)
(* links and their rate limit, the password that must be changed, audit.   *)
(*                                                                         *)
(* Bounds: Tokens are the refresh tokens that can be issued, MaxStamp the  *)
(* changes of the password.  An operator named Mut... is a plausible bug   *)
(* of the definition that follows it and is used by no specification.      *)
(***************************************************************************)
EXTENDS Naturals, FiniteSets

CONSTANTS
    Tokens, NoToken,        \* refresh tokens; the cookie is not set
    Keep,                   \* an answer that leaves the cookie alone
    Requests, NoRequest,    \* slots; a request that needs none
    MaxFailed,              \* wrong passwords that lock the account
    MaxStamp                \* bound on the changes of the password

ASSUME NoTokenIsNoToken == NoToken \notin Tokens /\ Keep \notin Tokens
ASSUME NoRequestIsNoRequest == NoRequest \notin Requests
ASSUME MaxFailedIsPositive == MaxFailed \in Nat \ {0}

VARIABLES
    account,    \* the employee row; "wrong" counts wrong passwords, see GuessesBounded
    row,        \* auth_sessions: family (its first token), password stamp, status
    tx,         \* writes of the request that holds the row lock of the employee
    request,    \* requests under way
    jar,        \* the cookies of the browser: the refresh token, and the access
                \* token that was issued with it
    tainted     \* history: families a token of which was refreshed by somebody
                \* else than the browser, or whose new token got lost on its way

vars == <<account, row, tx, request, jar, tainted>>

NoRow == [family |-> NoToken, stamp |-> 0, status |-> "none"]
NewAccount == [active |-> TRUE, stamp |-> 0, failures |-> 0, locked |-> FALSE, wrong |-> 0]
NoTx == [open |-> FALSE, request |-> NoRequest, account |-> NewAccount, revokes |-> {},
         token |-> NoToken, family |-> NoToken]
Idle == [kind |-> "none", phase |-> "idle", subject |-> NoToken, seen |-> {},
         cookie |-> Keep]

Init ==
    /\ account = NewAccount
    /\ row = [t \in Tokens |-> NoRow]
    /\ tx = NoTx
    /\ request = [r \in Requests |-> Idle]
    /\ jar = NoToken
    /\ tainted = {}

(***************************************************************************)
(* What is committed                                                       *)
(***************************************************************************)
Issued == {t \in Tokens : row[t].status # "none"}
Live == {t \in Tokens : row[t].status = "live"}
OfFamily(f) == {t \in Live : row[t].family = f}

MutSessionLive(f) == TRUE

SessionLive(f) == \E t \in Live : row[t].family = f

\* The access token issued with t opens the application.
Authenticated(t) ==
    /\ account.active
    /\ row[t].stamp = account.stamp
    /\ SessionLive(row[t].family)

(***************************************************************************)
(* Transactions under the row lock of the employee                         *)
(***************************************************************************)
\* What request r writes as long as nothing else is said.
Writes(r) == [open |-> TRUE, request |-> r, account |-> account, revokes |-> {},
              token |-> NoToken, family |-> NoToken]

\* All statements of a request that has no slot are executed.
Execute(writes) ==
    /\ ~tx.open
    /\ tx' = writes
    /\ UNCHANGED <<account, row, request, jar, tainted>>

\* Request r has executed all its statements; its answer will set cookie.
Executed(r, writes, cookie) ==
    /\ tx' = writes
    /\ request' = [request EXCEPT ![r] = [@ EXCEPT !.phase = "executed", !.cookie = cookie]]
    /\ UNCHANGED <<account, row, jar, tainted>>

ExecuteFor(r, writes, cookie) == ~tx.open /\ Executed(r, writes, cookie)

\* The transaction of request r has ended and its answer is on its way, if it
\* makes a difference to the cookie.
Answered(r, cookie) ==
    [request EXCEPT ![r] = IF cookie = Keep THEN Idle
                           ELSE [@ EXCEPT !.phase = "answered", !.cookie = cookie]]

\* Request r finds, with the lock, that it has nothing to write.
Refuse(r, cookie) ==
    /\ ~tx.open
    /\ request' = Answered(r, cookie)
    /\ UNCHANGED <<account, row, tx, jar, tainted>>

\* A session is issued with the password stamp of the account.
IssuedRow == [family |-> tx.family, stamp |-> tx.account.stamp, status |-> "live"]

\* A refused reuse of a token that revokes sessions.
Strikes == tx.open /\ tx.family # NoToken /\ tx.token = NoToken

Commit ==
    /\ tx.open
    /\ tx.request # NoRequest => request[tx.request].phase = "executed"
    /\ account' = tx.account
    /\ row' = [t \in Tokens |->
                  IF t = tx.token THEN IssuedRow
                  ELSE IF t \in tx.revokes THEN [row[t] EXCEPT !.status = "revoked"]
                  ELSE row[t]]
    /\ request' = IF tx.request = NoRequest THEN request
                  ELSE Answered(tx.request, request[tx.request].cookie)
    /\ tx' = NoTx
    /\ tainted' = {f \in tainted \cup IF tx.request = NoRequest THEN {tx.family} ELSE {} :
                      OfFamily(f)' # {}}
    /\ UNCHANGED jar

\* The process or the connection dies: nothing was written.
Abort ==
    /\ tx.open
    /\ tx' = NoTx
    /\ request' = IF tx.request = NoRequest THEN request
                  ELSE [request EXCEPT ![tx.request] = Idle]
    /\ UNCHANGED <<account, row, jar, tainted>>

(***************************************************************************)
(* Signing in                                                              *)
(***************************************************************************)
MutRegisterFailure(a) ==
    LET count == a.failures + 1
    IN  IF count > MaxFailed
        THEN [a EXCEPT !.failures = 0, !.locked = TRUE, !.wrong = @ + 1]
        ELSE [a EXCEPT !.failures = count, !.wrong = @ + 1]

\* One more wrong password; locking resets the counter.
RegisterFailure(a) ==
    LET count == a.failures + 1
    IN  IF count >= MaxFailed
        THEN [a EXCEPT !.failures = 0, !.locked = TRUE, !.wrong = @ + 1]
        ELSE [a EXCEPT !.failures = count, !.wrong = @ + 1]

\* A right password: the counter and the lock are reset.
Unlocked(a) == [a EXCEPT !.failures = 0, !.locked = FALSE, !.wrong = 0]

\* The writes of request r that issue token t in a new family.
NewFamily(r, t) == [Writes(r) EXCEPT !.token = t, !.family = t]

MutLogin(r) ==
    /\ request[r].phase = "idle"
    /\ ~account.locked
    /\ ~tx.open
    /\ \E t \in Tokens \ Issued :
          /\ tx' = [NewFamily(r, t) EXCEPT !.account = Unlocked(account)]
          /\ request' = [request EXCEPT ![r] = [Idle EXCEPT
                            !.kind = "login", !.phase = "executed", !.cookie = t]]
    /\ UNCHANGED <<account, row, jar, tainted>>

\* The browser signs in; the locks are checked under the row lock.
Login(r) ==
    /\ request[r].phase = "idle"
    /\ ~account.locked
    /\ account.active
    /\ ~tx.open
    /\ \E t \in Tokens \ Issued :
          /\ tx' = [NewFamily(r, t) EXCEPT !.account = Unlocked(account)]
          /\ request' = [request EXCEPT ![r] = [Idle EXCEPT
                            !.kind = "login", !.phase = "executed", !.cookie = t]]
    /\ UNCHANGED <<account, row, jar, tainted>>

\* Another device signs in.
LoginElsewhere ==
    /\ ~account.locked
    /\ account.active
    /\ \E t \in Tokens \ Issued :
          Execute([NewFamily(NoRequest, t) EXCEPT !.account = Unlocked(account)])

\* A wrong password, for an account that may be inactive.
LoginWrong ==
    /\ ~account.locked
    /\ Execute([Writes(NoRequest) EXCEPT !.account = RegisterFailure(account)])

(***************************************************************************)
(* Requests that carry a token                                             *)
(***************************************************************************)
MutOneRefresh(kind) == TRUE

\* The browser refreshes once at a time in all its tabs, as it has Web Locks: the
\* next refresh waits for the answer to the last.
OneRefresh(kind) ==
    kind = "refresh" => \A r \in Requests : request[r].kind # "refresh"

\* A request of some kind with the cookie of the browser is on its way, having
\* read "seen".
Send(r, kind, seen) ==
    /\ request[r].phase = "idle"
    /\ jar # NoToken
    /\ OneRefresh(kind)
    /\ request' = [request EXCEPT ![r] = [kind |-> kind, phase |-> "waiting", subject |-> jar,
                                          seen |-> seen, cookie |-> Keep]]
    /\ UNCHANGED <<account, row, tx, jar, tainted>>

\* The owner of the token is looked up without a lock; it never changes.
SendRefresh(r) == Send(r, "refresh", {})

\* The statement that revokes the family sees the rows committed when it starts.
SendLogout(r) == Send(r, "logout", OfFamily(row[jar].family))

\* "guess" is a change of password with a wrong current password.  The access
\* token is checked before the row lock is waited for.
SendChange(r) ==
    /\ jar # NoToken
    /\ Authenticated(jar)
    /\ \E kind \in {"change", "guess"} : Send(r, kind, {})

Waiting(r, kind) == request[r].phase = "waiting" /\ request[r].kind = kind

\* A token of the account that has not been rotated since the password was
\* last changed.
Acceptable(t) == account.active /\ row[t].stamp = account.stamp

\* Only the token itself is revoked.
MutReuseWrites(r, t) == [Writes(r) EXCEPT !.revokes = {t}, !.family = row[t].family]

\* A revoked token is shown again: every session of its family ends.
ReuseWrites(r, t) ==
    [Writes(r) EXCEPT !.revokes = OfFamily(row[t].family), !.family = row[t].family]

MutRotationWrites(r, t, new) ==
    [Writes(r) EXCEPT !.token = new, !.family = row[t].family]

\* A live token is replaced by a new one of its family.
RotationWrites(r, t, new) ==
    [Writes(r) EXCEPT !.revokes = {t}, !.token = new, !.family = row[t].family]

\* A live token may have run out.
Refresh(r) ==
    /\ Waiting(r, "refresh")
    /\ LET t == request[r].subject
       IN  \/ ~Acceptable(t) /\ Refuse(r, NoToken)
           \/ /\ Acceptable(t) /\ row[t].status = "revoked"
              /\ ExecuteFor(r, ReuseWrites(r, t), NoToken)
           \/ /\ Acceptable(t) /\ row[t].status = "live"
              /\ \/ Refuse(r, NoToken)
                 \/ \E new \in Tokens \ Issued :
                       ExecuteFor(r, RotationWrites(r, t, new), new)

\* Somebody else refreshes with a copy of token t, or a page of the browser that
\* was left while it waited, so that nobody has the answer.
RefreshElsewhere(t) ==
    /\ Acceptable(t)
    /\ \/ row[t].status = "revoked" /\ Execute(ReuseWrites(NoRequest, t))
       \/ /\ row[t].status = "live"
          /\ \E new \in Tokens \ Issued : Execute(RotationWrites(NoRequest, t, new))

\* logout takes no lock but those of the rows it revokes: it waits for a
\* transaction that has revoked one of them and then skips that row; a row
\* inserted meanwhile it has not seen.
Logout(r) ==
    /\ Waiting(r, "logout")
    /\ request[r].seen \cap tx.revokes = {}
    /\ row' = [t \in Tokens |-> IF t \in request[r].seen
                                THEN [row[t] EXCEPT !.status = "revoked"] ELSE row[t]]
    /\ request' = Answered(r, NoToken)
    /\ UNCHANGED <<account, tx, jar, tainted>>

\* A new password: the stamp changes and every session of the account ends.
NewPassword(writes) ==
    [writes EXCEPT !.account.stamp = @ + 1, !.revokes = Live]

\* The session is looked for under the row lock.  logout does not take that lock
\* and may end the session before the request goes on.
CheckSession(r) ==
    /\ Waiting(r, "change") \/ Waiting(r, "guess")
    /\ LET family == row[request[r].subject].family
       IN  \/ ~SessionLive(family) /\ Refuse(r, NoToken)
           \/ /\ SessionLive(family)
              /\ ~tx.open
              /\ tx' = Writes(r)
              /\ request' = [request EXCEPT ![r] = [@ EXCEPT !.phase = "checked",
                                                            !.seen = OfFamily(family)]]
              /\ UNCHANGED <<account, row, jar, tainted>>

Checked(r, kind) == request[r].phase = "checked" /\ request[r].kind = kind

ChangePassword(r) ==
    /\ Checked(r, "change")
    /\ account.stamp < MaxStamp
    /\ \E t \in Tokens \ Issued :
          Executed(r, [NewPassword(NewFamily(r, t)) EXCEPT !.account = Unlocked(@)], t)

\* A wrong current password counts like a wrong password at the sign-in; the
\* one that locks the account ends every session too.
GuessPassword(r) ==
    /\ Checked(r, "guess")
    /\ LET failed == RegisterFailure(account)
           locks  == failed.failures = 0
       IN  Executed(r, [Writes(r) EXCEPT !.account = failed,
                                         !.revokes = IF locks THEN Live ELSE {}],
                    IF locks THEN NoToken ELSE Keep)

(***************************************************************************)
(* Managers                                                                *)
(***************************************************************************)
Deactivate ==
    /\ account.active
    /\ Execute([Writes(NoRequest) EXCEPT !.account.active = FALSE, !.revokes = Live])

Activate ==
    /\ ~account.active
    /\ Execute([Writes(NoRequest) EXCEPT !.account.active = TRUE])

\* A manager sets a temporary password.
ManagerResetsPassword ==
    /\ account.stamp < MaxStamp
    /\ Execute([NewPassword(Writes(NoRequest)) EXCEPT !.account = Unlocked(@)])

\* A new password is set in the browser through an e-mailed link; neither the
\* counter nor the lock-out is touched.
ResetPassword(r) ==
    /\ request[r].phase = "idle"
    /\ account.active
    /\ account.stamp < MaxStamp
    /\ ~tx.open
    /\ tx' = NewPassword(Writes(r))
    /\ request' = [request EXCEPT ![r] = [Idle EXCEPT
                      !.kind = "reset", !.phase = "executed", !.cookie = NoToken]]
    /\ UNCHANGED <<account, row, jar, tainted>>

(***************************************************************************)
(* Time, and the way back to the browser                                   *)
(***************************************************************************)
\* No time passes between the statements of a transaction and its commit.
LockOutEnds ==
    /\ account.locked
    /\ ~tx.open
    /\ account' = [account EXCEPT !.locked = FALSE, !.wrong = account.failures]
    /\ UNCHANGED <<row, tx, request, jar, tainted>>

\* An answer sets or clears the cookies of the browser, in any order.
Arrive(r) ==
    /\ request[r].phase = "answered"
    /\ jar' = request[r].cookie
    /\ request' = [request EXCEPT ![r] = Idle]
    /\ UNCHANGED <<account, row, tx, tainted>>

\* A request gets lost before it has done anything, or its answer does.
Lose(r) ==
    /\ request[r].phase \in {"waiting", "answered"}
    /\ request' = [request EXCEPT ![r] = Idle]
    /\ tainted' = IF request[r].kind = "refresh" /\ request[r].cookie \in Tokens
                  THEN tainted \cup {row[request[r].cookie].family} ELSE tainted
    /\ UNCHANGED <<account, row, tx, jar>>

Next ==
    \/ Commit \/ Abort
    \/ LoginElsewhere \/ LoginWrong
    \/ \E t \in Issued : RefreshElsewhere(t)
    \/ Deactivate \/ Activate \/ ManagerResetsPassword
    \/ LockOutEnds
    \/ \E r \in Requests :
          \/ Login(r)
          \/ SendRefresh(r) \/ SendLogout(r) \/ SendChange(r)
          \/ Refresh(r) \/ Logout(r) \/ CheckSession(r) \/ ChangePassword(r) \/ GuessPassword(r)
          \/ ResetPassword(r)
          \/ Arrive(r) \/ Lose(r)

Spec == Init /\ [][Next]_vars

(***************************************************************************)
(* Properties                                                              *)
(***************************************************************************)
Account == [active : BOOLEAN, stamp : Nat, failures : 0..(MaxFailed - 1),
            locked : BOOLEAN, wrong : Nat]
Row == [family : Tokens \cup {NoToken}, stamp : Nat, status : {"none", "live", "revoked"}]
Transaction ==
    [open : BOOLEAN, request : Requests \cup {NoRequest}, account : Account,
     revokes : SUBSET Tokens, token : Tokens \cup {NoToken}, family : Tokens \cup {NoToken}]
Request ==
    [kind : {"none", "login", "refresh", "logout", "change", "guess", "reset"},
     phase : {"idle", "waiting", "checked", "executed", "answered"},
     subject : Tokens \cup {NoToken}, seen : SUBSET Tokens,
     cookie : Tokens \cup {NoToken, Keep}]

\* The types of the variables; a request has executed statements under the row
\* lock exactly when the open transaction is its own.
TypeOK ==
    /\ account \in Account
    /\ row \in [Tokens -> Row]
    /\ tx \in Transaction
    /\ request \in [Requests -> Request]
    /\ jar \in Tokens \cup {NoToken}
    /\ tainted \subseteq Tokens
    /\ \A r \in Requests :
          request[r].phase \in {"checked", "executed"} <=> tx.open /\ tx.request = r

\* A family has one token that is not revoked at most: rotation, reuse and
\* logout at the same time never leave two.
OneTokenPerFamily ==
    \A s, t \in Live : row[s].family = row[t].family => s = t

\* Whatever is signed in belongs to an account that is active and was signed in
\* with its present password: no login or refresh that overlaps a deactivation
\* or a change of the password escapes it.
SessionsFollowTheAccount ==
    \A t \in Live : account.active /\ row[t].stamp = account.stamp

\* A session that was revoked, because its token was shown twice or otherwise,
\* never comes back, and reuse leaves nothing of its family.
ReuseEndsForGood ==
    [][/\ \A t \in Issued : OfFamily(row[t].family) = {} => OfFamily(row[t].family)' = {}
       /\ \A f \in Tokens :
             Strikes /\ tx.family = f /\ Commit => OfFamily(f)' = {}]_vars

\* The browser's own refreshes, one at a time, never look like reuse: a session
\* is ended only if somebody else refreshed it or an answer got lost.
HonestBrowserIsNotStruck ==
    Strikes /\ tx.request # NoRequest /\ tx.revokes # {} => tx.family \in tainted

\* The password is tried MaxFailed times until the lock-out, at the sign-in or
\* with a change of password, and as often again with the sessions that a
\* lock-out at the sign-in leaves open; not more until the lock-out ends.
GuessesBounded == account.wrong <= 2 * MaxFailed

\* While the account is locked out and has no session, it gets none: refreshes
\* and changes of password that were waiting are refused.  The exception is a
\* change of password that had found its session live under the row lock before
\* a logout ended it.
LockedOutStaysOut ==
    [][account.locked /\ Live = {} /\ Live' # {} =>
          /\ tx.request # NoRequest
          /\ request[tx.request].kind = "change"
          /\ request[tx.request].seen # {}]_vars
=============================================================================
