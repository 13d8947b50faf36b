--------------------------- MODULE SessionsProofs ---------------------------
(***************************************************************************)
(* Proofs about Sessions for any number of tokens and requests and any     *)
(* limit of wrong passwords.                                               *)
(*                                                                         *)
(* What is committed is good because what is about to be committed was     *)
(* good when its statements were executed (GoodWrites) and the row lock    *)
(* kept it so: the only committed writes beside the open transaction are   *)
(* logouts, and they leave the rows alone that it revokes.                 *)
(***************************************************************************)
EXTENDS Sessions, TLAPS

\* Account a has counted its wrong passwords: up to the lock-out, and from there
\* as often again until a lock-out leaves nobody signed in.
Guesses(a, signedIn) ==
    IF a.locked THEN \/ a.wrong <= MaxFailed + a.failures
                     \/ ~signedIn /\ a.wrong <= 2 * MaxFailed
    ELSE a.wrong = a.failures

\* A request under the row lock.
HasLock(q) == q.phase \in {"checked", "executed"}
USE DEF HasLock

\* Request r changes the password and found its session live.
Excused(r) ==
    /\ r # NoRequest
    /\ HasLock(request[r])
    /\ request[r].kind = "change"
    /\ request[r].seen # {}

\* What the open transaction will write: sessions that do not belong to the new
\* account are ended, a new one is the only one of its family and continues a
\* live one or a new family, and nobody is signed in by a locked account but by
\* a change of the password.
GoodWrites(w) ==
    /\ w.revokes \subseteq Issued
    /\ w.token \notin Issued
    /\ \/ w.account.active /\ w.account.stamp = account.stamp
       \/ Live \subseteq w.revokes
    /\ w.token # NoToken =>
          /\ w.account.active
          /\ w.family = w.token \/ OfFamily(w.family) \cap w.revokes # {}
          /\ account.locked => Live \cap w.revokes # {} \/ Excused(w.request)
    /\ OfFamily(w.family) \subseteq w.revokes
    /\ Guesses(w.account, w.token # NoToken \/ ~(Live \subseteq w.revokes))

\* A request carries a token that was issued, and so does its answer, unless it
\* clears the cookies.
GoodSlot(q) ==
    /\ q.seen \subseteq Issued
    /\ q.phase = "waiting" => q.subject \in Issued /\ q.cookie = Keep
    /\ q.phase = "answered" => q.cookie \in Issued \cup {NoToken}

\* What a request found under the row lock holds until it goes on: the account
\* is active and has counted no more than with somebody signed in.
CheckedIsTrue ==
    \A r \in Requests : request[r].phase = "checked" =>
        /\ account.active
        /\ Guesses(account, TRUE)
        /\ request[r].seen # {}

\* The open transaction answers with the token it issues.
AnswersWithItsToken ==
    tx.open /\ tx.request # NoRequest => request[tx.request].cookie \in {tx.token, NoToken, Keep}

FamiliesAreIssued == \A t \in Issued : row[t].family \in Issued

Inv ==
    /\ TypeOK
    /\ OneTokenPerFamily
    /\ SessionsFollowTheAccount
    /\ FamiliesAreIssued
    /\ jar \in Issued \cup {NoToken}
    /\ \A r \in Requests : GoodSlot(request[r])
    /\ CheckedIsTrue
    /\ AnswersWithItsToken
    /\ Guesses(account, Live # {})
    /\ tx.open => GoodWrites(tx)

(***************************************************************************)
(* Rows and accounts                                                       *)
(***************************************************************************)
LEMMA Rows ==
    ASSUME TypeOK
    PROVE  /\ Live \subseteq Issued
           /\ Issued \subseteq Tokens
           /\ NoToken \notin Issued
           /\ \A t : t \in Live <=> t \in Tokens /\ row[t].status = "live"
           /\ \A t, f : t \in OfFamily(f) <=> t \in Live /\ row[t].family = f
BY NoTokenIsNoToken DEF Live, Issued, OfFamily

LEMMA AccountType ==
    ASSUME NEW a \in Account
    PROVE  /\ a.active \in BOOLEAN /\ a.locked \in BOOLEAN
           /\ a.stamp \in Nat /\ a.wrong \in Nat
           /\ a.failures \in Nat /\ a.failures < MaxFailed
           /\ MaxFailed \in Nat \ {0}
BY MaxFailedIsPositive DEF Account

\* A wrong password is counted, in an account with somebody signed in or not
\* locked; the one that locks the account may leave nobody signed in.
LEMMA FailureIsCounted ==
    ASSUME NEW a \in Account, Guesses(a, TRUE)
    PROVE  /\ RegisterFailure(a) \in Account
           /\ RegisterFailure(a).active = a.active
           /\ RegisterFailure(a).stamp = a.stamp
           /\ RegisterFailure(a).failures # 0 \/ ~a.locked => Guesses(RegisterFailure(a), TRUE)
           /\ Guesses(RegisterFailure(a), FALSE)
<1> DEFINE count == a.failures + 1
           b == RegisterFailure(a)
<1>1. CASE count >= MaxFailed
  <2>1. b = [a EXCEPT !.failures = 0, !.locked = TRUE, !.wrong = @ + 1]
    BY <1>1 DEF RegisterFailure
  <2>a. a.wrong + 1 \in Nat /\ 0 \in 0..(MaxFailed - 1)
    BY AccountType
  <2>b. b \in Account
    BY <2>1, <2>a DEF Account
  <2>c. b.active = a.active /\ b.stamp = a.stamp /\ b.failures = 0 /\ b.wrong = a.wrong + 1
    BY <2>1 DEF Account
  <2>d. b.locked = TRUE
    BY <2>1 DEF Account
  <2>2. /\ b \in Account
        /\ b.active = a.active /\ b.stamp = a.stamp
        /\ b.failures = 0 /\ b.locked /\ b.wrong = a.wrong + 1
    BY <2>b, <2>c, <2>d
  <2> HIDE DEF b
  <2>3. a.wrong + 1 <= 2 * MaxFailed
    BY AccountType DEF Guesses
  <2>4. ~a.locked => a.wrong + 1 <= MaxFailed
    BY AccountType DEF Guesses
  <2>5. Guesses(b, FALSE) /\ (~a.locked => Guesses(b, TRUE))
    BY <2>2, <2>3, <2>4, AccountType DEF Guesses
  <2> QED
    BY <2>2, <2>5 DEF b
<1>2. CASE ~(count >= MaxFailed)
  <2>1. b = [a EXCEPT !.failures = count, !.wrong = @ + 1]
    BY <1>2 DEF RegisterFailure
  <2>2. a.wrong + 1 \in Nat /\ count \in 0..(MaxFailed - 1)
    BY <1>2, AccountType
  <2>3. /\ b \in Account
        /\ b.active = a.active /\ b.stamp = a.stamp
        /\ b.failures = count /\ b.locked = a.locked /\ b.wrong = a.wrong + 1
    BY <2>1, <2>2 DEF Account
  <2> HIDE DEF b
  <2>4. Guesses(b, FALSE) /\ Guesses(b, TRUE)
    BY <2>3, AccountType DEF Guesses
  <2> QED
    BY <2>3, <2>4 DEF b
<1> QED
  BY <1>1, <1>2

LEMMA UnlockedAccount ==
    ASSUME NEW a \in Account
    PROVE  /\ Unlocked(a) \in Account
           /\ Unlocked(a).active = a.active
           /\ Unlocked(a).stamp = a.stamp
           /\ \A b : Guesses(Unlocked(a), b)
<1> DEFINE b == Unlocked(a)
<1>1. 0 \in 0..(MaxFailed - 1)
  BY MaxFailedIsPositive
<1>2. b \in Account
  BY <1>1 DEF Unlocked, Account
<1>3. b.active = a.active /\ b.stamp = a.stamp
  BY DEF Unlocked, Account
<1>4. b.wrong = 0 /\ b.failures = 0
  BY DEF Unlocked, Account
<1>5. b.locked = FALSE
  BY DEF Unlocked, Account
<1> QED
  BY <1>2, <1>3, <1>4, <1>5 DEF Guesses

LEMMA GuessesWeaken ==
    ASSUME NEW a \in Account, NEW b \in BOOLEAN, Guesses(a, b)
    PROVE  /\ Guesses(a, FALSE)
           /\ ~a.locked => Guesses(a, TRUE)
BY AccountType DEF Guesses

(***************************************************************************)
(* A request opens its transaction                                         *)
(***************************************************************************)
LEMMA Opens ==
    ASSUME Inv, NEW w \in Transaction, w.open, GoodWrites(w), tx' = w,
           UNCHANGED <<account, row, jar, tainted>>,
           request' \in [Requests -> Request],
           \A r \in Requests : HasLock(request'[r]) <=> w.request = r,
           \A r \in Requests : GoodSlot(request'[r]),
           w.request # NoRequest => request'[w.request].cookie \in {w.token, NoToken, Keep},
           Excused(w.request) => Excused(w.request)', CheckedIsTrue'
    PROVE  Inv'
<1>1. TypeOK'
  BY DEF Inv, TypeOK
<1>2. GoodWrites(tx)'
  BY DEF GoodWrites, Issued, Live, OfFamily
<1> QED
  BY <1>1, <1>2 DEF Inv, OneTokenPerFamily, SessionsFollowTheAccount, FamiliesAreIssued,
                    GoodSlot, AnswersWithItsToken, Live, Issued

LEMMA ExecuteOpens ==
    ASSUME Inv, NEW w \in Transaction, w.open, w.request = NoRequest, GoodWrites(w), Execute(w)
    PROVE  Inv'
<1>1. ~Excused(w.request)
  BY DEF Excused
<1>2. CheckedIsTrue'
  BY DEF Execute, Inv, CheckedIsTrue
<1> QED
  BY <1>1, <1>2, Opens, NoRequestIsNoRequest DEF Execute, Inv, TypeOK

LEMMA SlotOpens ==
    ASSUME Inv, NEW w \in Transaction, w.open, NEW r \in Requests, w.request = r,
           ~tx.open \/ tx.request = r,
           GoodWrites(w), tx' = w, UNCHANGED <<account, row, jar, tainted>>,
           NEW new \in Request, HasLock(new), GoodSlot(new),
           new.phase = "checked" =>
               account.active /\ Guesses(account, TRUE) /\ new.seen # {},
           tx.open => new.kind = request[r].kind /\ new.seen = request[r].seen,
           new.cookie \in {w.token, NoToken, Keep},
           request' = [request EXCEPT ![r] = new]
    PROVE  Inv'
<1>1. request \in [Requests -> Request] /\ \A q \in Requests : GoodSlot(request[q])
  BY DEF Inv, TypeOK
<1>2. \A q \in Requests : HasLock(request[q]) => tx.open /\ q = r
  BY DEF Inv, TypeOK
<1>3. /\ request' \in [Requests -> Request]
      /\ \A q \in Requests : request'[q] = IF q = r THEN new ELSE request[q]
  BY <1>1
<1>4. \A q \in Requests : /\ HasLock(request'[q]) <=> w.request = q
                          /\ GoodSlot(request'[q])
  BY <1>1, <1>2, <1>3
<1>5. request'[w.request].cookie \in {w.token, NoToken, Keep}
  BY <1>3
<1>6. Excused(w.request) => Excused(w.request)'
  BY <1>2, <1>3 DEF Excused
<1>7. CheckedIsTrue'
  BY <1>2, <1>3 DEF CheckedIsTrue
<1> QED
  BY <1>3, <1>4, <1>5, <1>6, <1>7, Opens

LEMMA ExecutedOpens ==
    ASSUME Inv, NEW w \in Transaction, w.open, NEW r \in Requests, w.request = r, GoodWrites(w),
           ~tx.open \/ tx.request = r,
           NEW cookie \in {w.token, NoToken, Keep}, Executed(r, w, cookie)
    PROVE  Inv'
<1> DEFINE new == [request[r] EXCEPT !.phase = "executed", !.cookie = cookie]
<1>1. /\ request[r] \in Request /\ GoodSlot(request[r])
      /\ cookie \in Tokens \cup {NoToken, Keep}
  BY DEF Inv, TypeOK, Transaction
<1>2. /\ new \in Request /\ new.phase = "executed" /\ new.seen = request[r].seen
      /\ new.kind = request[r].kind /\ new.cookie = cookie
  BY <1>1 DEF Request
<1>3. request' = [request EXCEPT ![r] = new]
  BY DEF Executed
<1> HIDE DEF new
<1>4. GoodSlot(new)
  BY <1>1, <1>2 DEF GoodSlot
<1> QED
  BY <1>2, <1>3, <1>4, SlotOpens DEF Executed

LEMMA ExecuteForOpens ==
    ASSUME Inv, NEW w \in Transaction, w.open, NEW r \in Requests, w.request = r, GoodWrites(w),
           NEW cookie \in {w.token, NoToken, Keep}, ExecuteFor(r, w, cookie)
    PROVE  Inv'
BY ExecutedOpens DEF ExecuteFor

LEMMA WritesType ==
    ASSUME Inv, NEW r \in Requests \cup {NoRequest}
    PROVE  Writes(r) \in Transaction
BY DEF Writes, Transaction, Inv, TypeOK

\* Nobody is signed in without a family that was issued.
LEMMA NoFamily ==
    ASSUME Inv, NEW f, f \notin Issued
    PROVE  OfFamily(f) = {}
<1>1. \A t \in OfFamily(f) : t \in Issued /\ row[t].family = f
  BY Rows DEF Inv
<1> QED
  BY <1>1 DEF Inv, FamiliesAreIssued

(***************************************************************************)
(* What the requests write is good                                         *)
(***************************************************************************)
\* Unless something is written beside the account, the account may only change
\* in what it counts, or become active.
LEMMA AccountWrites ==
    ASSUME Inv, NEW w \in Transaction, w.revokes = {}, w.token = NoToken, w.family = NoToken,
           \/ Live = {}
           \/ w.account.active = account.active /\ w.account.stamp = account.stamp,
           Guesses(w.account, Live # {})
    PROVE  GoodWrites(w)
<1>1. NoToken \notin Issued
  BY Rows DEF Inv
<1>2. OfFamily(NoToken) = {}
  BY <1>1, NoFamily
<1>3. (w.account.active /\ w.account.stamp = account.stamp) \/ Live \subseteq w.revokes
  BY DEF Inv, SessionsFollowTheAccount
<1>4. Guesses(w.account, w.token # NoToken \/ ~(Live \subseteq w.revokes))
  <2>1. (Live # {}) = (w.token # NoToken \/ ~(Live \subseteq w.revokes))
    OBVIOUS
  <2> QED
    BY <2>1
<1> QED
  BY <1>1, <1>2, <1>3, <1>4 DEF GoodWrites

\* Every session ends.
LEMMA EndAllWrites ==
    ASSUME Inv, NEW w \in Transaction, w.revokes = Live, w.token = NoToken, w.family = NoToken,
           Guesses(w.account, FALSE)
    PROVE  GoodWrites(w)
<1>1. Live \subseteq Issued /\ NoToken \notin Issued
  BY Rows DEF Inv
<1>2. OfFamily(NoToken) = {}
  BY <1>1, NoFamily
<1>3. (w.token # NoToken \/ ~(Live \subseteq w.revokes)) = FALSE
  OBVIOUS
<1>4. Guesses(w.account, w.token # NoToken \/ ~(Live \subseteq w.revokes))
  BY <1>3
<1> QED
  BY <1>1, <1>2, <1>4 DEF GoodWrites

\* A token t of a new family is issued to an active account that is or was
\* not locked out.
LEMMA NewFamilyWrites ==
    ASSUME Inv, NEW w \in Transaction, NEW t \in Tokens \ Issued, w.token = t, w.family = t,
           w.account.active, w.revokes \in {{}, Live},
           w.account.stamp = account.stamp \/ w.revokes = Live,
           account.locked => Live \cap w.revokes # {} \/ Excused(w.request),
           \A b : Guesses(w.account, b)
    PROVE  GoodWrites(w)
<1>1. w.revokes \subseteq Issued
  BY Rows DEF Inv
<1>2. OfFamily(t) = {}
  BY NoFamily
<1> QED
  BY <1>1, <1>2 DEF GoodWrites

LEMMA ReuseIsGood ==
    ASSUME Inv, NEW r \in Requests \cup {NoRequest}, NEW t \in Issued, Acceptable(t)
    PROVE  /\ ReuseWrites(r, t) \in Transaction /\ ReuseWrites(r, t).open
           /\ ReuseWrites(r, t).request = r /\ GoodWrites(ReuseWrites(r, t))
<1> DEFINE w == ReuseWrites(r, t)
           f == row[t].family
<1>1. /\ OfFamily(f) \subseteq Issued /\ OfFamily(f) \in SUBSET Tokens /\ NoToken \notin Issued
      /\ f \in Tokens
  BY Rows DEF Inv, FamiliesAreIssued
<1>2. /\ w \in Transaction /\ w.open /\ w.request = r /\ w.account = account
      /\ w.revokes = OfFamily(f) /\ w.token = NoToken /\ w.family = f
  <2>. Writes(r) \in Transaction
    BY WritesType
  <2>1. w \in Transaction
    BY <1>1 DEF Transaction, ReuseWrites
  <2>2. w.open /\ w.request = r /\ w.account = account
    BY DEF Writes, ReuseWrites
  <2>3. w.revokes = OfFamily(f) /\ w.token = NoToken /\ w.family = f
    BY DEF Writes, ReuseWrites
  <2> QED
    BY <2>1, <2>2, <2>3
<1> HIDE DEF w
<1>3. account.active
  BY DEF Acceptable
<1>4. account \in Account /\ Guesses(account, Live # {})
  BY DEF Inv, TypeOK
<1>5. Guesses(account, ~(Live \subseteq w.revokes))
  <2>1. CASE Live \subseteq w.revokes
    BY <1>4, <2>1, GuessesWeaken
  <2>2. CASE ~(Live \subseteq w.revokes)
    <3>1. (Live # {}) = ~(Live \subseteq w.revokes)
      BY <2>2
    <3> QED
      BY <1>4, <3>1
  <2> QED
    BY <2>1, <2>2
<1>6. Guesses(w.account, w.token # NoToken \/ ~(Live \subseteq w.revokes))
  <2>1. (w.token # NoToken \/ ~(Live \subseteq w.revokes)) = ~(Live \subseteq w.revokes)
    BY <1>2
  <2> QED
    BY <1>2, <1>5, <2>1
<1>7. GoodWrites(w)
  BY <1>1, <1>2, <1>3, <1>6 DEF GoodWrites
<1> QED
  BY <1>2, <1>7 DEF w

LEMMA RotationIsGood ==
    ASSUME Inv, NEW r \in Requests \cup {NoRequest}, NEW t \in Live, Acceptable(t),
           NEW new \in Tokens \ Issued
    PROVE  /\ RotationWrites(r, t, new) \in Transaction /\ RotationWrites(r, t, new).open
           /\ RotationWrites(r, t, new).request = r /\ GoodWrites(RotationWrites(r, t, new))
<1> DEFINE w == RotationWrites(r, t, new)
           f == row[t].family
<1>1. t \in Issued /\ t \in Tokens /\ {t} \in SUBSET Tokens /\ f \in Tokens /\ new # NoToken
  BY Rows, NoTokenIsNoToken DEF Inv, FamiliesAreIssued
<1>2. /\ w \in Transaction /\ w.open /\ w.request = r /\ w.account = account
      /\ w.revokes = {t} /\ w.token = new /\ w.family = f
  <2>. Writes(r) \in Transaction
    BY WritesType
  <2>1. w \in Transaction
    BY <1>1 DEF Transaction, RotationWrites
  <2>2. w.open /\ w.request = r /\ w.account = account
    BY DEF Writes, RotationWrites
  <2>3. w.revokes = {t} /\ w.token = new /\ w.family = f
    BY DEF Writes, RotationWrites
  <2> QED
    BY <2>1, <2>2, <2>3
<1> HIDE DEF w
<1>3. account.active
  BY DEF Acceptable
<1>4. OfFamily(f) = {t}
  <2>1. t \in OfFamily(f) /\ \A s \in OfFamily(f) : s \in Live /\ row[s].family = row[t].family
    BY Rows DEF Inv
  <2> QED
    BY <2>1 DEF Inv, OneTokenPerFamily
<1>5. account \in Account /\ Guesses(account, Live # {})
  BY DEF Inv, TypeOK
<1>6. Guesses(w.account, w.token # NoToken \/ ~(Live \subseteq w.revokes))
  <2>1. (w.token # NoToken \/ ~(Live \subseteq w.revokes)) = (Live # {})
    BY <1>1, <1>2
  <2> QED
    BY <1>2, <1>5, <2>1
<1>7. GoodWrites(w)
  BY <1>1, <1>2, <1>3, <1>4, <1>6 DEF GoodWrites
<1> QED
  BY <1>2, <1>7 DEF w
(***************************************************************************)
(* Requests that write nothing                                             *)
(***************************************************************************)
LEMMA SlotStep ==
    ASSUME Inv, UNCHANGED <<account, row, tx>>, NEW r \in Requests,
           NEW new \in Request, ~HasLock(new), GoodSlot(new),
           ~HasLock(request[r]), request' = [request EXCEPT ![r] = new],
           jar' \in Issued \cup {NoToken}, tainted' \subseteq Tokens
    PROVE  Inv'
<1>1. request \in [Requests -> Request] /\ \A q \in Requests : GoodSlot(request[q])
  BY DEF Inv, TypeOK
<1>2. /\ request' \in [Requests -> Request]
      /\ \A q \in Requests : GoodSlot(request'[q])
      /\ \A q \in Requests : HasLock(request'[q]) <=> HasLock(request[q])
  BY <1>1
<1>3. TypeOK'
  BY <1>2, Rows DEF Inv, TypeOK
<1>4. \A q \in Requests : q # r => request'[q] = request[q]
  BY <1>1
<1>5. tx.open /\ tx.request # NoRequest => tx.request \in Requests /\ tx.request # r
  BY DEF Inv, TypeOK, Transaction
<1>6. tx.open => GoodWrites(tx)'
  <2>1. tx.open /\ Excused(tx.request) => Excused(tx.request)'
    BY <1>4, <1>5 DEF Excused
  <2> QED
    BY <2>1 DEF Inv, GoodWrites, Issued, Live, OfFamily
<1>7. AnswersWithItsToken'
  BY <1>4, <1>5 DEF Inv, AnswersWithItsToken
<1>8. CheckedIsTrue'
  <2>1. request'[r] = new
    BY <1>1
  <2> QED
    BY <1>4, <2>1 DEF Inv, CheckedIsTrue
<1> QED
  BY <1>2, <1>3, <1>6, <1>7, <1>8
  DEF Inv, OneTokenPerFamily, SessionsFollowTheAccount, FamiliesAreIssued, GoodSlot, Live, Issued

LEMMA IdleSlot ==
    ASSUME Inv
    PROVE  Idle \in Request /\ ~HasLock(Idle) /\ GoodSlot(Idle)
BY DEF Idle, Request, GoodSlot

LEMMA AnsweredSlot ==
    ASSUME Inv, NEW r \in Requests, NEW cookie \in Issued \cup {NoToken, Keep}
    PROVE  \E new \in Request : /\ Answered(r, cookie) = [request EXCEPT ![r] = new]
                                /\ ~HasLock(new)
                                /\ GoodSlot(new)
<1>1. CASE cookie = Keep
  <2>1. Answered(r, cookie) = [request EXCEPT ![r] = Idle]
    BY <1>1 DEF Answered
  <2> QED
    BY <2>1, IdleSlot
<1>2. CASE cookie # Keep
  <2>0. cookie \in Tokens \cup {NoToken, Keep}
    BY Rows DEF Inv
  <2> DEFINE new == [request[r] EXCEPT !.phase = "answered", !.cookie = cookie]
  <2>1. Answered(r, cookie) = [request EXCEPT ![r] = new]
    BY <1>2 DEF Answered
  <2>2. request[r] \in Request /\ GoodSlot(request[r])
    BY DEF Inv, TypeOK
  <2>3. /\ new \in Request /\ new.phase = "answered" /\ new.seen = request[r].seen
        /\ new.cookie = cookie
    BY <2>0, <2>2 DEF Request
  <2> HIDE DEF new
  <2>4. GoodSlot(new)
    BY <1>2, <2>2, <2>3 DEF GoodSlot
  <2> QED
    BY <2>1, <2>3, <2>4
<1> QED
  BY <1>1, <1>2

LEMMA RefuseStep ==
    ASSUME Inv, NEW r \in Requests, NEW cookie \in Issued \cup {NoToken, Keep}, Refuse(r, cookie)
    PROVE  Inv'
<1>1. PICK new \in Request : /\ Answered(r, cookie) = [request EXCEPT ![r] = new]
                             /\ ~HasLock(new) /\ GoodSlot(new)
  BY AnsweredSlot
<1>2. ~HasLock(request[r]) /\ jar \in Issued \cup {NoToken} /\ tainted \subseteq Tokens
  BY DEF Inv, TypeOK, Refuse
<1> QED
  BY <1>1, <1>2, SlotStep DEF Refuse

LEMMA SendStep ==
    ASSUME Inv, NEW r \in Requests, NEW kind \in {"refresh", "logout", "change", "guess"},
           NEW seen \in SUBSET Issued, Send(r, kind, seen)
    PROVE  Inv'
<1> DEFINE new == [kind |-> kind, phase |-> "waiting", subject |-> jar, seen |-> seen,
                   cookie |-> Keep]
<1>1. /\ jar \in Issued /\ jar \in Tokens \cup {NoToken} /\ seen \in SUBSET Tokens
      /\ tainted \subseteq Tokens
  BY Rows DEF Inv, TypeOK, Send
<1>2. /\ new \in Request /\ new.phase = "waiting" /\ new.seen = seen /\ new.subject = jar
      /\ new.cookie = Keep
  BY <1>1 DEF Request
<1>3. request' = [request EXCEPT ![r] = new]
  BY DEF Send
<1> HIDE DEF new
<1>4. GoodSlot(new)
  BY <1>1, <1>2 DEF GoodSlot
<1> QED
  BY <1>1, <1>2, <1>3, <1>4, SlotStep DEF Send

LEMMA ArriveStep ==
    ASSUME Inv, NEW r \in Requests, Arrive(r)
    PROVE  Inv'
<1>1. request[r] \in Request /\ GoodSlot(request[r])
  BY DEF Inv, TypeOK
<1>2. jar' \in Issued \cup {NoToken} /\ tainted \subseteq Tokens
  BY <1>1 DEF Inv, TypeOK, Arrive, GoodSlot
<1> QED
  BY <1>2, IdleSlot, SlotStep DEF Arrive
(***************************************************************************)
(* A transaction ends                                                      *)
(***************************************************************************)
\* The slots after the end of a transaction: that of its request is idle or
\* answered.
LEMMA SlotsAfterEnd ==
    ASSUME Inv, tx.open, tx' = NoTx, Issued \subseteq Issued',
           \/ tx.request = NoRequest /\ request' = request
           \/ /\ tx.request # NoRequest
              /\ \E new \in Request :
                    /\ request' = [request EXCEPT ![tx.request] = new]
                    /\ new.phase \in {"idle", "answered"} /\ new.seen \subseteq Issued
                    /\ new.phase = "answered" => new.cookie \in Issued' \cup {NoToken}
    PROVE  /\ request' \in [Requests -> Request]
           /\ \A r \in Requests : ~HasLock(request'[r]) /\ GoodSlot(request[r])'
<1>1. /\ request \in [Requests -> Request] /\ tx.request \in Requests \cup {NoRequest}
      /\ \A r \in Requests : GoodSlot(request[r])
      /\ \A r \in Requests : HasLock(request[r]) <=> tx.request = r
  BY DEF Inv, TypeOK, Transaction
<1>2. CASE tx.request = NoRequest
  BY <1>1, <1>2, NoRequestIsNoRequest DEF GoodSlot
<1>3. CASE tx.request # NoRequest
  <2>1. PICK new \in Request :
           /\ request' = [request EXCEPT ![tx.request] = new]
           /\ new.phase \in {"idle", "answered"} /\ new.seen \subseteq Issued
           /\ new.phase = "answered" => new.cookie \in Issued' \cup {NoToken}
    BY <1>3
  <2>2. /\ request' \in [Requests -> Request]
        /\ \A r \in Requests : request'[r] = IF r = tx.request THEN new ELSE request[r]
    BY <1>1, <2>1
  <2> QED
    BY <1>1, <2>1, <2>2 DEF GoodSlot
<1> QED
  BY <1>2, <1>3

LEMMA NoTxType == NoTx \in Transaction /\ ~NoTx.open
<1>1. 0 \in 0..(MaxFailed - 1)
  BY MaxFailedIsPositive
<1>2. NewAccount \in Account
  BY <1>1 DEF NewAccount, Account
<1> QED
  BY <1>2 DEF NoTx, Transaction

LEMMA AbortStep ==
    ASSUME Inv, Abort
    PROVE  Inv'
<1>1. Issued' = Issued
  BY DEF Abort, Issued
<1>2. Idle \in Request /\ Idle.phase = "idle" /\ Idle.seen \subseteq Issued
  BY IdleSlot DEF Idle, GoodSlot
<1>3. /\ request' \in [Requests -> Request]
      /\ \A r \in Requests : ~HasLock(request'[r]) /\ GoodSlot(request[r])'
  BY <1>1, <1>2, SlotsAfterEnd DEF Abort
<1>4. TypeOK'
  BY <1>3, NoTxType DEF Abort, Inv, TypeOK
<1> QED
  BY <1>1, <1>3, <1>4, NoTxType DEF Abort, Inv, OneTokenPerFamily, SessionsFollowTheAccount,
                                    FamiliesAreIssued, CheckedIsTrue, AnswersWithItsToken, Live,
                                    Issued

\* The rows after a commit.
LEMMA CommitRows ==
    ASSUME Inv, Commit
    PROVE  /\ row' \in [Tokens -> Row]
           /\ \A t \in Tokens : t # tx.token => /\ row'[t].family = row[t].family
                                                /\ row'[t].stamp = row[t].stamp
           /\ \A t \in Tokens : t = tx.token => /\ row'[t].family = tx.family
                                                /\ row'[t].stamp = tx.account.stamp
           /\ \A t : t \in Live' <=> t \in Tokens /\ (t = tx.token \/ t \in Live \ tx.revokes)
           /\ \A t : t \in Issued' <=> t \in Tokens /\ (t = tx.token \/ t \in Issued)
<1>1. /\ row \in [Tokens -> Row] /\ tx.family \in Tokens \cup {NoToken} /\ tx.account \in Account
      /\ tx.revokes \subseteq Issued /\ tx.token \notin Issued
  BY DEF Inv, TypeOK, Transaction, GoodWrites, Commit
<1>2. /\ IssuedRow \in Row /\ IssuedRow.family = tx.family
      /\ IssuedRow.stamp = tx.account.stamp /\ IssuedRow.status = "live"
  BY <1>1, AccountType DEF IssuedRow, Row
<1>3. \A t \in Tokens : LET new == [row[t] EXCEPT !.status = "revoked"]
                       IN  /\ new \in Row /\ new.family = row[t].family
                           /\ new.stamp = row[t].stamp /\ new.status = "revoked"
  BY <1>1 DEF Row
<1>4. row' = [t \in Tokens |-> IF t = tx.token THEN IssuedRow
                               ELSE IF t \in tx.revokes THEN [row[t] EXCEPT !.status = "revoked"]
                               ELSE row[t]]
  BY DEF Commit
<1>5. \A t \in Tokens :
         /\ row'[t] \in Row
         /\ t # tx.token => /\ row'[t].family = row[t].family
                            /\ row'[t].stamp = row[t].stamp
                            /\ t \in tx.revokes => row'[t].status = "revoked"
                            /\ t \notin tx.revokes => row'[t].status = row[t].status
         /\ t = tx.token => /\ row'[t].family = tx.family
                            /\ row'[t].stamp = tx.account.stamp
                            /\ row'[t].status = "live"
  BY <1>1, <1>2, <1>3, <1>4
<1>6. row' \in [Tokens -> Row]
  BY <1>4, <1>5
<1>7. \A t : t \in Live' <=> t \in Tokens /\ (t = tx.token \/ t \in Live \ tx.revokes)
  BY <1>5 DEF Live
<1>8. \A t : t \in Issued' <=> t \in Tokens /\ (t = tx.token \/ t \in Issued)
  BY <1>1, <1>5 DEF Issued
<1> QED
  BY <1>5, <1>6, <1>7, <1>8

LEMMA CommitStep ==
    ASSUME Inv, Commit
    PROVE  Inv'
<1> USE CommitRows
<1>1. /\ GoodWrites(tx) /\ TypeOK /\ account' = tx.account /\ tx' = NoTx
      /\ tx.account \in Account /\ tx.token \in Tokens \cup {NoToken}
  BY DEF Inv, TypeOK, Transaction, Commit
<1>2. SessionsFollowTheAccount'
  <2> SUFFICES ASSUME NEW t \in Live' PROVE account'.active /\ row'[t].stamp = account'.stamp
    BY DEF SessionsFollowTheAccount
  <2>1. CASE t = tx.token
    BY <1>1, <2>1, Rows, NoTokenIsNoToken DEF GoodWrites
  <2>2. CASE t # tx.token
    <3>1. t \in Live /\ t \notin tx.revokes /\ t \in Tokens
      BY <2>2
    <3>2. account'.active /\ account'.stamp = account.stamp
      BY <1>1, <3>1 DEF GoodWrites
    <3> QED
      BY <2>2, <3>1, <3>2 DEF Inv, SessionsFollowTheAccount
  <2> QED
    BY <2>1, <2>2
<1>3. OneTokenPerFamily'
  <2> SUFFICES ASSUME NEW t \in Live', NEW u \in Live', row'[t].family = row'[u].family, t # u,
                      u # tx.token
               PROVE  FALSE
    BY DEF OneTokenPerFamily
  <2>1. u \in Live /\ u \notin tx.revokes /\ t \in Tokens /\ u \in Tokens
    OBVIOUS
  <2>2. CASE t = tx.token
    <3>1. u \in OfFamily(tx.family)
      BY <1>1, <2>1, <2>2, Rows
    <3> QED
      BY <1>1, <2>1, <3>1 DEF GoodWrites
  <2>3. CASE t # tx.token
    BY <2>1, <2>3 DEF Inv, OneTokenPerFamily
  <2> QED
    BY <2>2, <2>3
<1>4. FamiliesAreIssued'
  <2> SUFFICES ASSUME NEW t \in Issued' PROVE row'[t].family \in Issued'
    BY DEF FamiliesAreIssued
  <2>1. CASE t = tx.token
    <3>1. CASE tx.family = tx.token
      BY <2>1, <3>1
    <3>2. CASE tx.family # tx.token
      <4>1. PICK u \in Live : row[u].family = tx.family
        BY <1>1, <2>1, <3>2, Rows, NoTokenIsNoToken DEF GoodWrites
      <4> QED
        BY <1>1, <2>1, <4>1, Rows DEF Inv, FamiliesAreIssued
    <3> QED
      BY <3>1, <3>2
  <2>2. CASE t # tx.token
    BY <1>1, <2>2, Rows DEF Inv, FamiliesAreIssued
  <2> QED
    BY <2>1, <2>2
<1>5. Guesses(account', Live' # {})
  <2>1. (Live' # {}) = (tx.token # NoToken \/ ~(Live \subseteq tx.revokes))
    BY <1>1, Rows, NoTokenIsNoToken
  <2> QED
    BY <1>1, <2>1 DEF GoodWrites
<1>6. /\ request' \in [Requests -> Request]
      /\ \A r \in Requests : ~HasLock(request'[r]) /\ GoodSlot(request[r])'
  <2>1. ASSUME tx.request # NoRequest
        PROVE  \E new \in Request :
                  /\ request' = [request EXCEPT ![tx.request] = new]
                  /\ new.phase \in {"idle", "answered"} /\ new.seen \subseteq Issued
                  /\ new.phase = "answered" => new.cookie \in Issued' \cup {NoToken}
    <3> DEFINE cookie == request[tx.request].cookie
               new == IF cookie = Keep THEN Idle
                      ELSE [request[tx.request] EXCEPT !.phase = "answered", !.cookie = cookie]
    <3>1. tx.request \in Requests
      BY <1>1, <2>1 DEF TypeOK, Transaction
    <3>2. request[tx.request] \in Request /\ request[tx.request].seen \subseteq Issued
      BY <1>1, <3>1 DEF Inv, TypeOK, GoodSlot
    <3>3. cookie \in {tx.token, NoToken, Keep}
      BY <2>1 DEF Inv, AnswersWithItsToken, Commit
    <3>4. request' = [request EXCEPT ![tx.request] = new]
      BY <2>1 DEF Commit, Answered
    <3>5. CASE cookie = Keep
      <4>1. Idle \in Request /\ Idle.phase = "idle" /\ Idle.seen \subseteq Issued
        BY IdleSlot DEF Idle, GoodSlot
      <4> QED
        BY <3>4, <3>5, <4>1
    <3>6. CASE cookie # Keep
      <4> DEFINE answered == [request[tx.request] EXCEPT !.phase = "answered", !.cookie = cookie]
      <4>1. new = answered
        BY <3>6
      <4>2. cookie \in Tokens \cup {NoToken, Keep} /\ cookie \in Issued' \cup {NoToken}
        BY <1>1, <3>3, <3>6
      <4> HIDE DEF cookie, new
      <4>3. /\ answered \in Request /\ answered.phase = "answered"
            /\ answered.seen = request[tx.request].seen /\ answered.cookie = cookie
        BY <3>2, <4>2 DEF Request
      <4> HIDE DEF answered
      <4> QED
        BY <3>2, <3>4, <4>1, <4>2, <4>3
    <3> QED
      BY <3>5, <3>6
  <2>2. tx.open /\ (tx.request = NoRequest => request' = request)
    BY DEF Commit
  <2>3. Issued \subseteq Issued'
    BY Rows, <1>1
  <2> QED
    BY <1>1, <2>1, <2>2, <2>3, SlotsAfterEnd
<1>7. tainted' \subseteq Tokens
  <2> SUFFICES ASSUME NEW f \in tainted' PROVE f \in Tokens
    OBVIOUS
  <2>1. PICK t \in Live' : row'[t].family = f
    BY DEF Commit, OfFamily
  <2> QED
    BY <1>1, <1>4, <2>1, Rows DEF FamiliesAreIssued
<1>8. TypeOK'
  BY <1>1, <1>6, <1>7, NoTxType DEF TypeOK, Commit
<1>9. /\ jar' \in Issued' \cup {NoToken} /\ \A r \in Requests : GoodSlot(request[r])'
      /\ CheckedIsTrue'
  BY <1>1, <1>6, Rows DEF Inv, Commit, CheckedIsTrue
<1> QED
  BY <1>1, <1>2, <1>3, <1>4, <1>5, <1>8, <1>9, NoTxType DEF Inv, AnswersWithItsToken

\* A logout leaves the rows alone that the open transaction revokes.
LEMMA LogoutRows ==
    ASSUME Inv, NEW r \in Requests, Logout(r)
    PROVE  /\ row' \in [Tokens -> Row]
           /\ \A t \in Tokens : row'[t].family = row[t].family /\ row'[t].stamp = row[t].stamp
           /\ Issued' = Issued
           /\ Live' \subseteq Live
           /\ Live' \cap tx.revokes = Live \cap tx.revokes
<1> DEFINE seen == request[r].seen
<1>1. row \in [Tokens -> Row] /\ seen \subseteq Issued /\ seen \cap tx.revokes = {}
  BY DEF Inv, TypeOK, GoodSlot, Logout
<1>2. \A t \in Tokens : LET new == [row[t] EXCEPT !.status = "revoked"]
                       IN  /\ new \in Row /\ new.family = row[t].family
                           /\ new.stamp = row[t].stamp /\ new.status = "revoked"
  BY <1>1 DEF Row
<1>3. row' = [t \in Tokens |-> IF t \in seen
                               THEN [row[t] EXCEPT !.status = "revoked"] ELSE row[t]]
  BY DEF Logout
<1> HIDE DEF seen
<1>4. \A t \in Tokens :
         /\ row'[t] \in Row
         /\ row'[t].family = row[t].family
         /\ row'[t].stamp = row[t].stamp
         /\ t \in seen => row'[t].status = "revoked"
         /\ t \notin seen => row'[t].status = row[t].status
  BY <1>1, <1>2, <1>3
<1>5. row' \in [Tokens -> Row]
  BY <1>3, <1>4
<1>6. Issued' = Issued
  BY <1>1, <1>4 DEF Issued
<1>7. \A t : t \in Live' <=> t \in Live /\ t \notin seen
  BY <1>4 DEF Live
<1> QED
  BY <1>1, <1>4, <1>5, <1>6, <1>7

\* What was good to write stays so when fewer are signed in.
LEMMA FewerSignedIn ==
    ASSUME Inv, tx.open, account' = account, tx' = tx,
           Issued' = Issued, Live' \subseteq Live, Live' \cap tx.revokes = Live \cap tx.revokes,
           \A f : /\ OfFamily(f)' \subseteq OfFamily(f)
                 /\ OfFamily(f)' \cap tx.revokes = OfFamily(f) \cap tx.revokes,
           Excused(tx.request) => Excused(tx.request)'
    PROVE  GoodWrites(tx)'
<1>1. GoodWrites(tx) /\ tx.account \in Account
  BY DEF Inv, TypeOK, Transaction
<1>2. Guesses(tx.account, tx.token # NoToken \/ ~(Live' \subseteq tx.revokes))
  <2> DEFINE b == tx.token # NoToken \/ ~(Live \subseteq tx.revokes)
             c == tx.token # NoToken \/ ~(Live' \subseteq tx.revokes)
  <2>1. b \in BOOLEAN /\ c \in BOOLEAN /\ (c => b)
    OBVIOUS
  <2>2. Guesses(tx.account, b)
    BY <1>1 DEF GoodWrites
  <2> HIDE DEF b, c
  <2>3. c = b \/ c = FALSE
    BY <2>1
  <2> QED
    BY <1>1, <2>1, <2>2, <2>3, GuessesWeaken DEF c
<1> QED
  BY <1>1, <1>2 DEF GoodWrites

LEMMA LogoutStep ==
    ASSUME Inv, NEW r \in Requests, Logout(r)
    PROVE  Inv'
<1> USE LogoutRows
<1>1. /\ TypeOK /\ UNCHANGED <<account, tx, jar, tainted>> /\ account \in Account
      /\ request' = Answered(r, NoToken) /\ ~HasLock(request[r])
      /\ request \in [Requests -> Request] /\ \A q \in Requests : GoodSlot(request[q])
  BY DEF Inv, TypeOK, Logout, Waiting
<1>2. PICK new \in Request : /\ Answered(r, NoToken) = [request EXCEPT ![r] = new]
                             /\ ~HasLock(new) /\ GoodSlot(new)
  BY AnsweredSlot
<1>3. /\ request' \in [Requests -> Request]
      /\ \A q \in Requests : HasLock(request'[q]) <=> HasLock(request[q])
      /\ \A q \in Requests : GoodSlot(request'[q])
  BY <1>1, <1>2
<1>4. TypeOK'
  BY <1>1, <1>3 DEF TypeOK
<1>5. \A f : /\ OfFamily(f)' \subseteq OfFamily(f)
            /\ OfFamily(f)' \cap tx.revokes = OfFamily(f) \cap tx.revokes
  BY <1>1, Rows DEF OfFamily
<1>6. /\ tx.open /\ tx.request # NoRequest => tx.request \in Requests /\ tx.request # r
      /\ \A q \in Requests : q # r => request'[q] = request[q]
      /\ request'[r] = new
  BY <1>1, <1>2 DEF TypeOK, Transaction
<1>11. tx.open => GoodWrites(tx)'
  <2>1. tx.open /\ Excused(tx.request) => Excused(tx.request)'
    BY <1>1, <1>6 DEF Excused
  <2> QED
    BY <1>1, <1>5, <2>1, FewerSignedIn
<1>7. OneTokenPerFamily' /\ SessionsFollowTheAccount' /\ FamiliesAreIssued'
  BY <1>1, Rows DEF Inv, OneTokenPerFamily, SessionsFollowTheAccount, FamiliesAreIssued
<1>8. Guesses(account, Live' # {})
  <2> DEFINE b == (Live # {})
             c == (Live' # {})
  <2>1. b \in BOOLEAN /\ c \in BOOLEAN /\ (c => b)
    OBVIOUS
  <2>2. Guesses(account, b)
    BY DEF Inv
  <2> HIDE DEF b, c
  <2>3. c = b \/ c = FALSE
    BY <2>1
  <2> QED
    BY <1>1, <2>1, <2>2, <2>3, GuessesWeaken DEF c
<1>9. \A q \in Requests : GoodSlot(request[q])'
  BY <1>3 DEF GoodSlot
<1>10. AnswersWithItsToken' /\ CheckedIsTrue'
  BY <1>1, <1>2, <1>6 DEF Inv, AnswersWithItsToken, CheckedIsTrue
<1> QED
  BY <1>1, <1>4, <1>7, <1>8, <1>9, <1>10, <1>11 DEF Inv

LEMMA LockOutEndsStep ==
    ASSUME Inv, LockOutEnds
    PROVE  Inv'
<1>1. account \in Account /\ ~tx.open
  BY DEF Inv, TypeOK, LockOutEnds
<1>2. account' = [account EXCEPT !.locked = FALSE, !.wrong = account.failures]
  BY DEF LockOutEnds
<1>3. account.failures \in Nat
  BY <1>1, AccountType
<1>4. account' \in Account
  BY <1>1, <1>2, <1>3 DEF Account
<1>5. account'.active = account.active /\ account'.stamp = account.stamp
  BY <1>1, <1>2 DEF Account
<1>6. account'.wrong = account'.failures
  BY <1>1, <1>2 DEF Account
<1>7. account'.locked = FALSE
  BY <1>1, <1>2 DEF Account
<1>8. Guesses(account', Live' # {})
  BY <1>6, <1>7 DEF Guesses
<1>9. TypeOK'
  BY <1>4 DEF Inv, TypeOK, LockOutEnds
<1>10. CheckedIsTrue'
  BY <1>1 DEF Inv, TypeOK, LockOutEnds, CheckedIsTrue
<1> QED
  BY <1>1, <1>5, <1>8, <1>9, <1>10 DEF LockOutEnds, Inv, OneTokenPerFamily, SessionsFollowTheAccount,
                                FamiliesAreIssued, GoodSlot, AnswersWithItsToken, Live, Issued

LEMMA LoseStep ==
    ASSUME Inv, NEW r \in Requests, Lose(r)
    PROVE  Inv'
<1>1. /\ row \in [Tokens -> Row] /\ jar \in Issued \cup {NoToken} /\ tainted \subseteq Tokens
      /\ ~HasLock(request[r])
  BY DEF Inv, TypeOK, Lose
<1>2. tainted' \subseteq Tokens
  <2>1. CASE request[r].kind = "refresh" /\ request[r].cookie \in Tokens
    <3>0. request[r].cookie \in Issued
      BY <2>1, NoTokenIsNoToken DEF Inv, GoodSlot, Lose
    <3>1. row[request[r].cookie].family \in Tokens
      BY <3>0, Rows DEF Inv, FamiliesAreIssued
    <3> QED
      BY <1>1, <2>1, <3>1 DEF Lose
  <2>2. CASE ~(request[r].kind = "refresh" /\ request[r].cookie \in Tokens)
    BY <1>1, <2>2 DEF Lose
  <2> QED
    BY <2>1, <2>2
<1> QED
  BY <1>1, <1>2, IdleSlot, SlotStep DEF Lose
(***************************************************************************)
(* Requests that write                                                     *)
(***************************************************************************)
\* Tokens of new families: login and change of password.
LEMMA LoginWrites ==
    ASSUME Inv, NEW r \in Requests \cup {NoRequest}, NEW t \in Tokens \ Issued,
           account.active, ~account.locked
    PROVE  LET w == [NewFamily(r, t) EXCEPT !.account = Unlocked(account)]
           IN  /\ w \in Transaction /\ w.open /\ w.request = r /\ w.token = t
               /\ GoodWrites(w)
<1> DEFINE a == Unlocked(account)
           w == [NewFamily(r, t) EXCEPT !.account = Unlocked(account)]
<1>1. a \in Account /\ a.active = account.active /\ a.stamp = account.stamp
      /\ \A b : Guesses(a, b)
  BY UnlockedAccount DEF Inv, TypeOK
<1> HIDE DEF a
<1>2. Writes(r) \in Transaction
  BY WritesType
<1>3. NewFamily(r, t) \in Transaction
  BY <1>2 DEF NewFamily, Transaction
<1>4. w = [NewFamily(r, t) EXCEPT !.account = a]
  BY DEF a
<1> HIDE DEF w
<1>5. w \in Transaction
  BY <1>1, <1>3, <1>4 DEF Transaction
<1>6. w.open /\ w.request = r /\ w.account = a
  BY <1>4 DEF NewFamily, Writes
<1>7. w.revokes = {} /\ w.token = t /\ w.family = t
  BY <1>4 DEF NewFamily, Writes
<1>8. GoodWrites(w)
  BY <1>1, <1>5, <1>6, <1>7, NewFamilyWrites
<1> QED
  BY <1>5, <1>6, <1>7, <1>8 DEF w

LEMMA LoginStep ==
    ASSUME Inv, NEW r \in Requests, Login(r)
    PROVE  Inv'
<1>1. PICK t \in Tokens \ Issued :
         /\ tx' = [NewFamily(r, t) EXCEPT !.account = Unlocked(account)]
         /\ request' = [request EXCEPT ![r] = [Idle EXCEPT
                           !.kind = "login", !.phase = "executed", !.cookie = t]]
  BY DEF Login
<1> DEFINE new == [Idle EXCEPT !.kind = "login", !.phase = "executed", !.cookie = t]
<1>2. tx' \in Transaction /\ tx'.open /\ tx'.request = r /\ GoodWrites(tx')
  BY <1>1, LoginWrites DEF Login
<1>3. new \in Request /\ new.phase = "executed" /\ new.seen = {} /\ new.cookie = t
  BY DEF Idle, Request
<1>4. GoodSlot(new)
  BY <1>3 DEF GoodSlot
<1> HIDE DEF new
<1>5. request' = [request EXCEPT ![r] = new]
  BY <1>1 DEF new
<1>6. tx'.token = t
  BY <1>1, LoginWrites DEF Login
<1> QED
  BY <1>1, <1>2, <1>3, <1>4, <1>5, <1>6, SlotOpens DEF Login

LEMMA LoginElsewhereStep ==
    ASSUME Inv, LoginElsewhere
    PROVE  Inv'
<1>1. PICK t \in Tokens \ Issued : Execute([NewFamily(NoRequest, t) EXCEPT
                                              !.account = Unlocked(account)])
  BY DEF LoginElsewhere
<1> DEFINE w == [NewFamily(NoRequest, t) EXCEPT !.account = Unlocked(account)]
<1>2. w \in Transaction /\ w.open /\ w.request = NoRequest /\ GoodWrites(w)
  BY LoginWrites DEF LoginElsewhere
<1> HIDE DEF w
<1>3. Execute(w)
  BY <1>1 DEF w
<1> QED
  BY <1>2, <1>3, ExecuteOpens

LEMMA LoginWrongStep ==
    ASSUME Inv, LoginWrong
    PROVE  Inv'
<1> DEFINE a == RegisterFailure(account)
           w == [Writes(NoRequest) EXCEPT !.account = a]
<1>1. account \in Account /\ Guesses(account, Live # {}) /\ ~account.locked
  BY DEF Inv, TypeOK, LoginWrong
<1>2. Guesses(account, TRUE)
  BY <1>1, GuessesWeaken
<1>3. /\ a \in Account /\ a.active = account.active /\ a.stamp = account.stamp
      /\ Guesses(a, TRUE) /\ Guesses(a, FALSE)
  BY <1>1, <1>2, FailureIsCounted
<1> HIDE DEF a
<1>4. Guesses(a, Live # {})
  <2>1. CASE (Live # {}) = TRUE
    BY <1>3, <2>1
  <2>2. CASE (Live # {}) = FALSE
    BY <1>3, <2>2
  <2> QED
    BY <2>1, <2>2
<1>5. Writes(NoRequest) \in Transaction
  BY WritesType
<1>6. w \in Transaction
  BY <1>3, <1>5 DEF Transaction
<1>7. w.open /\ w.request = NoRequest /\ w.account = a
  BY DEF Writes
<1>8. w.revokes = {} /\ w.token = NoToken /\ w.family = NoToken
  BY DEF Writes
<1>9. Execute(w)
  BY DEF LoginWrong, a
<1> HIDE DEF w
<1>10. GoodWrites(w)
  BY <1>3, <1>4, <1>6, <1>7, <1>8, AccountWrites
<1> QED
  BY <1>6, <1>7, <1>9, <1>10, ExecuteOpens
LEMMA RefreshStep ==
    ASSUME Inv, NEW r \in Requests, Refresh(r)
    PROVE  Inv'
<1> DEFINE t == request[r].subject
<1>1. t \in Issued /\ t \in Tokens
  BY Rows DEF Inv, GoodSlot, Refresh, Waiting
<1>2. CASE ~Acceptable(t) /\ Refuse(r, NoToken)
  BY <1>2, RefuseStep
<1>3. CASE /\ Acceptable(t) /\ row[t].status = "revoked"
           /\ ExecuteFor(r, ReuseWrites(r, t), NoToken)
  BY <1>1, <1>3, ReuseIsGood, ExecuteForOpens
<1>4. CASE /\ Acceptable(t) /\ row[t].status = "live"
           /\ \/ Refuse(r, NoToken)
              \/ \E new \in Tokens \ Issued : ExecuteFor(r, RotationWrites(r, t, new), new)
  <2>1. CASE Refuse(r, NoToken)
    BY <2>1, RefuseStep
  <2>2. ASSUME NEW new \in Tokens \ Issued, ExecuteFor(r, RotationWrites(r, t, new), new)
        PROVE  Inv'
    <3> DEFINE w == RotationWrites(r, t, new)
    <3>1. t \in Live
      BY <1>1, <1>4, Rows DEF Inv
    <3>2. w \in Transaction /\ w.open /\ w.request = r /\ GoodWrites(w)
      BY <1>4, <3>1, RotationIsGood
    <3>3. w.token = new
      BY DEF RotationWrites, Writes
    <3> HIDE DEF w
    <3>4. ExecuteFor(r, w, new) /\ new \in {w.token, NoToken, Keep}
      BY <2>2, <3>3 DEF w
    <3> QED
      BY <3>2, <3>4, ExecuteForOpens
  <2> QED
    BY <1>4, <2>1, <2>2
<1> QED
  BY <1>2, <1>3, <1>4 DEF Refresh

LEMMA RefreshElsewhereStep ==
    ASSUME Inv, NEW t \in Issued, RefreshElsewhere(t)
    PROVE  Inv'
<1>1. Acceptable(t) /\ t \in Tokens
  BY Rows DEF Inv, RefreshElsewhere
<1>2. CASE row[t].status = "revoked" /\ Execute(ReuseWrites(NoRequest, t))
  BY <1>1, <1>2, ReuseIsGood, ExecuteOpens
<1>3. ASSUME row[t].status = "live",
             NEW new \in Tokens \ Issued, Execute(RotationWrites(NoRequest, t, new))
      PROVE  Inv'
  <2>1. t \in Live
    BY <1>1, <1>3, Rows DEF Inv
  <2> QED
    BY <1>1, <1>3, <2>1, RotationIsGood, ExecuteOpens
<1> QED
  BY <1>2, <1>3 DEF RefreshElsewhere

LEMMA SendsStep ==
    ASSUME Inv, NEW r \in Requests, SendRefresh(r) \/ SendLogout(r) \/ SendChange(r)
    PROVE  Inv'
<1>1. CASE SendRefresh(r)
  BY <1>1, SendStep DEF SendRefresh
<1>2. CASE SendLogout(r)
  <2>1. OfFamily(row[jar].family) \in SUBSET Issued
    BY Rows DEF Inv
  <2> QED
    BY <1>2, <2>1, SendStep DEF SendLogout
<1>3. CASE SendChange(r)
  BY <1>3, SendStep DEF SendChange
<1> QED
  BY <1>1, <1>2, <1>3

\* A request finds its session live: somebody is signed in, so that the account
\* is active.
LEMMA CheckSessionStep ==
    ASSUME Inv, NEW r \in Requests, CheckSession(r)
    PROVE  Inv'
<1> DEFINE family == row[request[r].subject].family
           w == Writes(r)
           new == [request[r] EXCEPT !.phase = "checked", !.seen = OfFamily(family)]
<1>1. CASE Refuse(r, NoToken)
  BY <1>1, RefuseStep
<1>2. CASE ~Refuse(r, NoToken)
  <2>1. /\ SessionLive(family) /\ ~tx.open /\ tx' = w
        /\ request' = [request EXCEPT ![r] = new]
        /\ UNCHANGED <<account, row, jar, tainted>>
        /\ request[r].phase = "waiting"
    BY <1>2 DEF CheckSession, Waiting
  <2>2. /\ request[r] \in Request /\ GoodSlot(request[r])
        /\ OfFamily(family) \subseteq Issued /\ OfFamily(family) \in SUBSET Tokens
    BY Rows DEF Inv, TypeOK
  <2>3. Live # {} /\ OfFamily(family) # {}
    BY <2>1 DEF SessionLive, OfFamily
  <2>4. account \in Account /\ account.active /\ Guesses(account, TRUE)
    <3>1. (Live # {}) = TRUE
      BY <2>3
    <3> QED
      BY <2>3, <3>1 DEF Inv, TypeOK, SessionsFollowTheAccount
  <2>5. /\ new \in Request /\ new.phase = "checked" /\ new.seen = OfFamily(family)
        /\ new.cookie = request[r].cookie
    BY <2>2 DEF Request
  <2>6. /\ w \in Transaction /\ w.open /\ w.request = r /\ w.account = account
        /\ w.revokes = {} /\ w.token = NoToken /\ w.family = NoToken
    BY WritesType DEF Writes
  <2>7. Guesses(account, Live # {})
    BY DEF Inv
  <2> HIDE DEF w, new, family
  <2>8. GoodWrites(w)
    BY <2>6, <2>7, AccountWrites
  <2>9. GoodSlot(new) /\ new.cookie \in {w.token, NoToken, Keep}
    BY <2>1, <2>2, <2>5 DEF GoodSlot
  <2> QED
    BY <2>1, <2>3, <2>4, <2>5, <2>6, <2>8, <2>9, SlotOpens
<1> QED
  BY <1>1, <1>2

\* A new password in an account that is unlocked or left as it counts: the
\* change of password issues a token, the resets do not.
LEMMA ChangePasswordStep ==
    ASSUME Inv, NEW r \in Requests, ChangePassword(r)
    PROVE  Inv'
<1>1. /\ tx.open /\ tx.request = r /\ request[r].kind = "change" /\ request[r].seen # {}
      /\ account.active /\ Guesses(account, TRUE)
  BY DEF Inv, TypeOK, CheckedIsTrue, ChangePassword, Checked
<1>2. ASSUME NEW t \in Tokens \ Issued,
             Executed(r, [NewPassword(NewFamily(r, t)) EXCEPT !.account = Unlocked(@)], t)
      PROVE  Inv'
  <2> DEFINE v == NewPassword(NewFamily(r, t))
             b == v.account
             a == Unlocked(b)
             c == [account EXCEPT !.stamp = @ + 1]
           w == [v EXCEPT !.account = Unlocked(@)]
  <2>1. Live \in SUBSET Tokens
    BY Rows DEF Inv
  <2>2. account.active /\ account \in Account
    BY <1>1 DEF Inv, TypeOK
  <2>3. Writes(r) \in Transaction
    BY WritesType
  <2>4. NewFamily(r, t) \in Transaction
    BY <2>3 DEF NewFamily, Transaction
  <2>5. NewFamily(r, t).account = account
    BY DEF NewFamily, Writes
  <2>6. v = [NewFamily(r, t) EXCEPT !.account = c, !.revokes = Live]
    BY <2>5 DEF NewPassword
  <2>7. c \in Account /\ c.active
    <3>1. account.stamp + 1 \in Nat
      BY <2>2, AccountType
    <3>2. c \in Account
      BY <2>2, <3>1 DEF Account
    <3>3. c.active = account.active
      BY <2>2 DEF Account
    <3> QED
      BY <2>2, <3>2, <3>3
  <2> HIDE DEF c
  <2>8. v \in Transaction
    BY <2>1, <2>4, <2>6, <2>7 DEF Transaction
  <2>9. b \in Account /\ b.active
    BY <2>2, <2>4, <2>6, <2>7 DEF Transaction
  <2>10. v.open /\ v.request = r
    BY <2>6 DEF NewFamily, Writes
  <2>11. v.revokes = Live /\ v.token = t /\ v.family = t
    BY <2>6 DEF NewFamily, Writes
  <2>12. Executed(r, w, t)
    BY <1>2
  <2>13. w = [v EXCEPT !.account = a]
    OBVIOUS
  <2> HIDE DEF v, w, b
  <2>14. a \in Account /\ a.active /\ \A x : Guesses(a, x)
    BY <2>9, UnlockedAccount
  <2> HIDE DEF a
  <2>15. w \in Transaction
    BY <2>8, <2>13, <2>14 DEF Transaction
  <2>16. w.open /\ w.request = r /\ w.account = a
    BY <2>8, <2>10, <2>13 DEF Transaction
  <2>17. w.revokes = Live /\ w.token = t /\ w.family = t
    BY <2>8, <2>11, <2>13 DEF Transaction
  <2>18. Excused(r)
    BY <1>1, NoRequestIsNoRequest DEF Excused, ChangePassword, Checked
  <2>19. GoodWrites(w)
    BY <2>14, <2>15, <2>16, <2>17, <2>18, NewFamilyWrites
  <2> QED
    BY <1>1, <2>12, <2>15, <2>16, <2>17, <2>19, ExecutedOpens
<1> QED
  BY <1>2 DEF ChangePassword

LEMMA GuessPasswordStep ==
    ASSUME Inv, NEW r \in Requests, GuessPassword(r)
    PROVE  Inv'
<1> DEFINE a == RegisterFailure(account)
           ends == IF a.failures = 0 THEN Live ELSE {}
           cookie == IF a.failures = 0 THEN NoToken ELSE Keep
           w == [Writes(r) EXCEPT !.account = a, !.revokes = ends]
<1>1. tx.open /\ tx.request = r /\ Guesses(account, TRUE)
  BY DEF Inv, TypeOK, CheckedIsTrue, GuessPassword, Checked
<1>2. Inv'
  <2>1. Live \in SUBSET Tokens
    BY Rows DEF Inv
  <2>2. account \in Account
    BY DEF Inv, TypeOK
  <2>3. Guesses(account, TRUE)
    BY <1>1
  <2>4. /\ a \in Account /\ a.active = account.active /\ a.stamp = account.stamp
        /\ a.failures # 0 => Guesses(a, TRUE)
        /\ Guesses(a, FALSE)
    BY <2>2, <2>3, FailureIsCounted
  <2> HIDE DEF a
  <2>5. Writes(r) \in Transaction
    BY WritesType
  <2>6. ends \in SUBSET Tokens
    BY <2>1
  <2> HIDE DEF ends
  <2>7. w \in Transaction
    BY <2>4, <2>5, <2>6 DEF Transaction
  <2>8. w.open /\ w.request = r /\ w.account = a
    BY DEF Writes
  <2>9. w.revokes = ends /\ w.token = NoToken /\ w.family = NoToken
    BY DEF Writes
  <2>10. Executed(r, w, cookie)
    BY DEF GuessPassword, a, ends
  <2>. cookie \in {w.token, NoToken, Keep}
    OBVIOUS
  <2> HIDE DEF w, cookie
  <2>11. CASE a.failures = 0
    <3>1. GoodWrites(w)
      BY <2>4, <2>7, <2>8, <2>9, <2>11, EndAllWrites DEF ends
    <3> QED
      BY <2>7, <2>8, <2>10, <1>1, <3>1, ExecutedOpens
  <2>12. CASE a.failures # 0
    <3>1. Guesses(a, Live # {})
      <4>1. Guesses(a, TRUE) /\ Guesses(a, FALSE)
        BY <2>4, <2>12
      <4>2. (Live # {}) = TRUE \/ (Live # {}) = FALSE
        OBVIOUS
      <4> QED
        BY <4>1, <4>2
    <3>2. GoodWrites(w)
      BY <2>4, <2>7, <2>8, <2>9, <2>12, <3>1, AccountWrites DEF ends
    <3> QED
      BY <2>7, <2>8, <2>10, <1>1, <3>2, ExecutedOpens
  <2> QED
    BY <2>11, <2>12
<1> QED
  BY <1>2
LEMMA DeactivateStep ==
    ASSUME Inv, Deactivate
    PROVE  Inv'
<1> DEFINE a == [account EXCEPT !.active = FALSE]
           w == [Writes(NoRequest) EXCEPT !.account.active = FALSE, !.revokes = Live]
<1>1. account \in Account /\ Guesses(account, Live # {})
  BY DEF Inv, TypeOK
<1>2. a \in Account
  BY <1>1 DEF Account
<1>3. a.locked = account.locked /\ a.wrong = account.wrong /\ a.failures = account.failures
  BY <1>1 DEF Account
<1>4. Guesses(a, FALSE)
  BY <1>1, <1>3, GuessesWeaken DEF Guesses
<1>5. w = [Writes(NoRequest) EXCEPT !.account = a, !.revokes = Live]
  BY DEF Writes
<1>6. Execute(w)
  BY DEF Deactivate
<1> HIDE DEF a, w
<1>7. Live \in SUBSET Tokens
  BY Rows DEF Inv
<1>8. Writes(NoRequest) \in Transaction
  BY WritesType
<1>9. w \in Transaction
  BY <1>2, <1>5, <1>7, <1>8 DEF Transaction
<1>10. w.open /\ w.request = NoRequest /\ w.account = a
  BY <1>5 DEF Writes
<1>11. w.revokes = Live /\ w.token = NoToken /\ w.family = NoToken
  BY <1>5 DEF Writes
<1>12. GoodWrites(w)
  BY <1>4, <1>9, <1>10, <1>11, EndAllWrites
<1> QED
  BY <1>6, <1>9, <1>10, <1>12, ExecuteOpens

LEMMA ActivateStep ==
    ASSUME Inv, Activate
    PROVE  Inv'
<1> DEFINE a == [account EXCEPT !.active = TRUE]
           w == [Writes(NoRequest) EXCEPT !.account.active = TRUE]
<1>1. account \in Account /\ Guesses(account, Live # {})
  BY DEF Inv, TypeOK
<1>2. a \in Account
  BY <1>1 DEF Account
<1>3. a.locked = account.locked /\ a.wrong = account.wrong /\ a.failures = account.failures
  BY <1>1 DEF Account
<1>4. Guesses(a, Live # {})
  BY <1>1, <1>3 DEF Guesses
<1>5. w = [Writes(NoRequest) EXCEPT !.account = a]
  BY DEF Writes
<1>6. Execute(w)
  BY DEF Activate
<1>7. Live = {}
  BY DEF Activate, Inv, SessionsFollowTheAccount
<1> HIDE DEF a, w
<1>8. Writes(NoRequest) \in Transaction
  BY WritesType
<1>9. w \in Transaction
  BY <1>2, <1>5, <1>8 DEF Transaction
<1>10. w.open /\ w.request = NoRequest /\ w.account = a
  BY <1>5 DEF Writes
<1>11. w.revokes = {} /\ w.token = NoToken /\ w.family = NoToken
  BY <1>5 DEF Writes
<1>12. GoodWrites(w)
  BY <1>4, <1>7, <1>9, <1>10, <1>11, AccountWrites
<1> QED
  BY <1>6, <1>9, <1>10, <1>12, ExecuteOpens

\* A new password that issues no token.
LEMMA NewPasswordWrites ==
    ASSUME Inv, NEW r \in Requests \cup {NoRequest}
    PROVE  LET v == NewPassword(Writes(r))
           IN  /\ v \in Transaction /\ v.open /\ v.request = r
               /\ v.revokes = Live /\ v.token = NoToken /\ v.family = NoToken
               /\ Guesses(v.account, FALSE)
<1> DEFINE a == [account EXCEPT !.stamp = @ + 1]
           v == NewPassword(Writes(r))
<1>1. account \in Account /\ Guesses(account, Live # {})
  BY DEF Inv, TypeOK
<1>2. account.stamp + 1 \in Nat
  BY <1>1, AccountType
<1>3. a \in Account
  BY <1>1, <1>2 DEF Account
<1>4. a.locked = account.locked /\ a.wrong = account.wrong /\ a.failures = account.failures
  BY <1>1 DEF Account
<1>5. Guesses(a, FALSE)
  BY <1>1, <1>4, GuessesWeaken DEF Guesses
<1>6. v = [Writes(r) EXCEPT !.account = a, !.revokes = Live]
  BY DEF NewPassword, Writes
<1> HIDE DEF a, v
<1>7. Live \in SUBSET Tokens
  BY Rows DEF Inv
<1>8. Writes(r) \in Transaction
  BY WritesType
<1>9. v \in Transaction
  BY <1>3, <1>6, <1>7, <1>8 DEF Transaction
<1>10. v.open /\ v.request = r /\ v.account = a
  BY <1>6 DEF Writes
<1>11. v.revokes = Live /\ v.token = NoToken /\ v.family = NoToken
  BY <1>6 DEF Writes
<1> QED
  BY <1>5, <1>9, <1>10, <1>11 DEF v

LEMMA ManagerResetsPasswordStep ==
    ASSUME Inv, ManagerResetsPassword
    PROVE  Inv'
<1> DEFINE v == NewPassword(Writes(NoRequest))
           b == v.account
           a == Unlocked(b)
           w == [v EXCEPT !.account = Unlocked(@)]
<1>1. /\ v \in Transaction /\ v.open /\ v.request = NoRequest
      /\ v.revokes = Live /\ v.token = NoToken /\ v.family = NoToken
  BY NewPasswordWrites
<1>2. Execute(w)
  BY DEF ManagerResetsPassword
<1>3. w = [v EXCEPT !.account = a]
  OBVIOUS
<1> HIDE DEF v, w
<1>4. b \in Account
  BY <1>1 DEF Transaction
<1> HIDE DEF b
<1>5. a \in Account /\ \A x : Guesses(a, x)
  BY <1>4, UnlockedAccount
<1> HIDE DEF a
<1>6. w \in Transaction
  BY <1>1, <1>3, <1>5 DEF Transaction
<1>7. w.open /\ w.request = NoRequest /\ w.account = a
  BY <1>1, <1>3, <1>5 DEF Transaction
<1>8. w.revokes = Live /\ w.token = NoToken /\ w.family = NoToken
  BY <1>1, <1>3 DEF Transaction
<1>9. GoodWrites(w)
  BY <1>5, <1>6, <1>7, <1>8, EndAllWrites
<1> QED
  BY <1>2, <1>6, <1>7, <1>9, ExecuteOpens

LEMMA ResetPasswordStep ==
    ASSUME Inv, NEW r \in Requests, ResetPassword(r)
    PROVE  Inv'
<1> DEFINE v == NewPassword(Writes(r))
           new == [Idle EXCEPT !.kind = "reset", !.phase = "executed", !.cookie = NoToken]
<1>1. /\ v \in Transaction /\ v.open /\ v.request = r
      /\ v.revokes = Live /\ v.token = NoToken /\ v.family = NoToken
      /\ Guesses(v.account, FALSE)
  BY NewPasswordWrites
<1>2. /\ ~tx.open /\ UNCHANGED <<account, row, jar, tainted>>
      /\ tx' = v /\ request' = [request EXCEPT ![r] = new]
  BY DEF ResetPassword
<1>3. new \in Request /\ new.phase = "executed" /\ new.seen = {} /\ new.cookie = NoToken
  BY DEF Idle, Request
<1> HIDE DEF v, new
<1>4. GoodWrites(v)
  BY <1>1, EndAllWrites
<1>5. GoodSlot(new)
  BY <1>3 DEF GoodSlot
<1> QED
  BY <1>1, <1>2, <1>3, <1>4, <1>5, SlotOpens

(***************************************************************************)
(* The invariant                                                           *)
(***************************************************************************)
LEMMA InitInv == Init => Inv
<1> SUFFICES ASSUME Init PROVE Inv
  OBVIOUS
<1>1. NewAccount \in Account /\ Guesses(NewAccount, Live # {})
  <2>1. 0 \in 0..(MaxFailed - 1)
    BY MaxFailedIsPositive
  <2> QED
    BY <2>1 DEF NewAccount, Account, Guesses
<1>2. NoRow \in Row /\ NoRow.status = "none"
  BY DEF NoRow, Row
<1>3. Issued = {} /\ Live = {}
  BY <1>2 DEF Init, Issued, Live
<1>4. Idle \in Request /\ Idle.phase = "idle" /\ Idle.seen = {}
  BY DEF Idle, Request
<1>5. TypeOK
  BY <1>1, <1>2, <1>4, NoTxType DEF Init, TypeOK
<1>6. (\A r \in Requests : GoodSlot(request[r])) /\ CheckedIsTrue
  BY <1>4 DEF Init, GoodSlot, CheckedIsTrue
<1> QED
  BY <1>1, <1>3, <1>5, <1>6, NoTxType DEF Init, Inv, OneTokenPerFamily, SessionsFollowTheAccount,
                                       FamiliesAreIssued, AnswersWithItsToken

LEMMA StutterInv ==
    ASSUME Inv, UNCHANGED vars
    PROVE  Inv'
<1>1. TypeOK' /\ AnswersWithItsToken'
  BY DEF vars, Inv, TypeOK, AnswersWithItsToken
<1>2. OneTokenPerFamily' /\ SessionsFollowTheAccount' /\ FamiliesAreIssued'
  BY DEF vars, Inv, OneTokenPerFamily, SessionsFollowTheAccount, FamiliesAreIssued, Live, Issued
<1>3. /\ \A r \in Requests : GoodSlot(request[r])'
      /\ jar' \in Issued' \cup {NoToken}
  BY DEF vars, Inv, GoodSlot, Issued
<1>4. CheckedIsTrue' /\ Guesses(account, Live # {})'
  BY DEF vars, Inv, CheckedIsTrue, Live
<1>5. (tx.open => GoodWrites(tx))'
  BY DEF vars, Inv, GoodWrites, Excused, Live, Issued, OfFamily
<1> QED
  BY <1>1, <1>2, <1>3, <1>4, <1>5 DEF Inv

LEMMA NextInv ==
    ASSUME Inv, [Next]_vars
    PROVE  Inv'
<1>1. CASE Commit \/ Abort
  BY <1>1, CommitStep, AbortStep
<1>2. CASE LoginElsewhere \/ LoginWrong
  BY <1>2, LoginElsewhereStep, LoginWrongStep
<1>3. CASE \E t \in Issued : RefreshElsewhere(t)
  BY <1>3, RefreshElsewhereStep
<1>4. CASE Deactivate \/ Activate \/ ManagerResetsPassword
  BY <1>4, DeactivateStep, ActivateStep, ManagerResetsPasswordStep
<1>5. CASE LockOutEnds
  BY <1>5, LockOutEndsStep
<1>6. ASSUME NEW r \in Requests,
             \/ Login(r)
             \/ SendRefresh(r) \/ SendLogout(r) \/ SendChange(r)
             \/ Refresh(r) \/ Logout(r)
             \/ CheckSession(r) \/ ChangePassword(r) \/ GuessPassword(r)
             \/ ResetPassword(r)
             \/ Arrive(r) \/ Lose(r)
      PROVE  Inv'
  BY <1>6, LoginStep, SendsStep, RefreshStep, LogoutStep, CheckSessionStep, ChangePasswordStep,
     GuessPasswordStep, ResetPasswordStep, ArriveStep, LoseStep
<1>7. CASE UNCHANGED vars
  BY <1>7, StutterInv
<1> QED
  BY <1>1, <1>2, <1>3, <1>4, <1>5, <1>6, <1>7 DEF Next

LEMMA SpecInv == Spec => []Inv
<1> QED
  BY InitInv, NextInv, PTL DEF Spec

\* The types of the variables are right, and a request has executed
\* statements under the row lock exactly when the open transaction is its own.
THEOREM TypeCorrect == Spec => []TypeOK
<1>1. Inv => TypeOK
  BY DEF Inv
<1> QED
  BY <1>1, SpecInv, PTL

\* A family never has two tokens that are not revoked, however logins, refreshes
\* and logouts overlap.
THEOREM FamiliesHaveOneToken == Spec => []OneTokenPerFamily
<1>1. Inv => OneTokenPerFamily
  BY DEF Inv
<1> QED
  BY <1>1, SpecInv, PTL

\* Nobody is signed in to an inactive account or with an old password, however
\* logins and refreshes overlap with deactivations and changes of the password.
THEOREM NobodyEscapesTheAccount == Spec => []SessionsFollowTheAccount
<1>1. Inv => SessionsFollowTheAccount
  BY DEF Inv
<1> QED
  BY <1>1, SpecInv, PTL

\* Until a lock-out ends, the password was tried at most twice as often as
\* locks the account, at the sign-in and with changes of the password.
THEOREM GuessesAreBounded == Spec => []GuessesBounded
<1>1. Inv => GuessesBounded
  <2> SUFFICES ASSUME Inv PROVE GuessesBounded
    OBVIOUS
  <2>1. account \in Account /\ Guesses(account, Live # {})
    BY DEF Inv, TypeOK
  <2> QED
    BY <2>1, AccountType DEF Guesses, GuessesBounded
<1> QED
  BY <1>1, SpecInv, PTL

(***************************************************************************)
(* Steps                                                                   *)
(***************************************************************************)
LEMMA RowsChangeBy ==
    ASSUME [Next]_vars
    PROVE  row' = row \/ Commit \/ \E r \in Requests : Logout(r)
BY DEF Next, vars, Abort, Execute, ExecuteFor, Executed, Refuse, Send, LoginElsewhere, LoginWrong,
       RefreshElsewhere, Deactivate, Activate, ManagerResetsPassword, LockOutEnds, Login,
       SendRefresh, SendLogout, SendChange, Refresh, CheckSession, ChangePassword,
       GuessPassword, ResetPassword, Arrive, Lose

\* A family without a live token that was issued gets none.
LEMMA EndedForGood ==
    ASSUME Inv, [Next]_vars, NEW f \in Issued, OfFamily(f) = {}
    PROVE  OfFamily(f)' = {}
<1>1. CASE row' = row
  BY <1>1 DEF OfFamily, Live
<1>2. CASE Commit
  <2> SUFFICES ASSUME NEW u \in Live', row'[u].family = f PROVE FALSE
    BY DEF OfFamily
  <2>1. GoodWrites(tx)
    BY <1>2 DEF Inv, Commit
  <2>2. CASE u = tx.token
    BY <1>2, <2>1, <2>2, CommitRows, Rows, NoTokenIsNoToken DEF Inv, GoodWrites
  <2>3. CASE u # tx.token
    BY <1>2, <2>3, CommitRows, Rows DEF Inv
  <2> QED
    BY <2>2, <2>3
<1>3. ASSUME NEW r \in Requests, Logout(r) PROVE OfFamily(f)' = {}
  BY <1>3, LogoutRows, Rows DEF Inv, OfFamily
<1> QED
  BY <1>1, <1>2, <1>3, RowsChangeBy

\* A session that has ended never comes back, and reuse of a token leaves
\* nothing of its family.
THEOREM EndsAreForGood == Spec => ReuseEndsForGood
<1> DEFINE Step == /\ \A t \in Issued : OfFamily(row[t].family) = {}
                                            => OfFamily(row[t].family)' = {}
                   /\ \A f \in Tokens :
                         Strikes /\ tx.family = f /\ Commit => OfFamily(f)' = {}
<1>1. ASSUME Inv, [Next]_vars PROVE Step
  <2>1. ASSUME NEW t \in Issued, OfFamily(row[t].family) = {}
        PROVE  OfFamily(row[t].family)' = {}
    <3> DEFINE f == row[t].family
    <3>1. f \in Issued /\ t \in Tokens
      BY <1>1, Rows DEF Inv, FamiliesAreIssued
    <3>2. row'[t].family = f
      <4>1. CASE row' = row
        BY <4>1
      <4>2. CASE Commit
        BY <1>1, <3>1, <4>2, CommitRows DEF Inv, GoodWrites, Commit
      <4>3. ASSUME NEW r \in Requests, Logout(r) PROVE row'[t].family = f
        BY <1>1, <3>1, <4>3, LogoutRows
      <4> QED
        BY <1>1, <4>1, <4>2, <4>3, RowsChangeBy
    <3>3. \A g : g = f => OfFamily(g)' = {}
      BY <1>1, <2>1, <3>1, EndedForGood
    <3> QED
      BY <3>2, <3>3
  <2>2. ASSUME NEW f \in Tokens, Strikes, tx.family = f, Commit
        PROVE  OfFamily(f)' = {}
    <3> SUFFICES ASSUME NEW u \in Live', row'[u].family = f PROVE FALSE
      BY DEF OfFamily
    <3>1. tx.token = NoToken /\ GoodWrites(tx)
      BY <1>1, <2>2 DEF Inv, Strikes
    <3>2. u \in Live /\ u \notin tx.revokes /\ row[u].family = f
      BY <1>1, <2>2, <3>1, CommitRows, NoTokenIsNoToken
    <3> QED
      BY <1>1, <2>2, <3>1, <3>2, Rows DEF Inv, GoodWrites
  <2> QED
    BY <2>1, <2>2
<1>2. Inv /\ [Next]_vars => [Step]_vars
  BY <1>1
<1> QED
  BY <1>2, SpecInv, PTL DEF Spec, ReuseEndsForGood

\* An account that is locked out and has nobody signed in stays so: waiting
\* refreshes and changes of the password come to nothing, but for a change of the
\* password that found its session live before a logout ended it.
THEOREM NobodyEntersALockedAccount == Spec => LockedOutStaysOut
<1> DEFINE Step == account.locked /\ Live = {} /\ Live' # {} =>
                      /\ tx.request # NoRequest
                      /\ request[tx.request].kind = "change"
                      /\ request[tx.request].seen # {}
<1>1. ASSUME Inv, [Next]_vars, account.locked, Live = {}, ~Excused(tx.request)
      PROVE  Live' = {}
  <2>1. CASE row' = row
    BY <1>1, <2>1 DEF Live
  <2>2. CASE Commit
    <3>1. tx.token = NoToken
      BY <1>1, <2>2 DEF Inv, GoodWrites, Commit
    <3> QED
      BY <1>1, <2>2, <3>1, CommitRows, NoTokenIsNoToken
  <2>3. ASSUME NEW r \in Requests, Logout(r) PROVE Live' = {}
    BY <1>1, <2>3, LogoutRows
  <2> QED
    BY <1>1, <2>1, <2>2, <2>3, RowsChangeBy
<1>2. ASSUME Inv, [Next]_vars PROVE Step
  BY <1>1, <1>2 DEF Excused
<1>3. Inv /\ [Next]_vars => [Step]_vars
  BY <1>2
<1> QED
  BY <1>3, SpecInv, PTL DEF Spec, LockedOutStaysOut
-----------------------------------------------------------------------------
(***************************************************************************)
(* The browser's own refreshes never look like reuse.                      *)
(*                                                                         *)
(* Every token the browser holds, in its cookie, in a refresh that waits   *)
(* or in an answer on its way, is the live one of its family, unless the   *)
(* family is tainted or has ended (Fresh); but for the cookie, which may   *)
(* be one behind while the answer to its refresh is on its way.  All these *)
(* tokens are different, so that no rotation makes another one stale.      *)
(***************************************************************************)
OpenFamily(f) == f \notin tainted /\ OfFamily(f) # {}

Fresh(t) == t \in Issued /\ (OpenFamily(row[t].family) => t \in Live)

IsRefresh(r) == request[r].kind = "refresh"

\* Token t is on its way to the browser in the answer to request r.
Brings(r, t) == request[r].phase = "answered" /\ request[r].cookie = t /\ t \in Tokens

Replaces(r, t) == IsRefresh(r) /\ request[r].subject = t /\ \E new \in Tokens : Brings(r, new)

JarIsFresh ==
    \A t \in Tokens : t = jar => Fresh(t) \/ \E r \in Requests : Replaces(r, t)

RefreshesAreFresh ==
    \A r \in Requests : IsRefresh(r) =>
        /\ request[r].subject \in Issued
        /\ \A t : t = request[r].subject /\ request[r].phase = "waiting" => Fresh(t)
        /\ \A s \in Requests : IsRefresh(s) => r = s
        /\ \A t : Brings(r, t) => row[t].family = row[request[r].subject].family

AnswersAreFresh ==
    \A r \in Requests : \A t : Brings(r, t) =>
        /\ Fresh(t)
        /\ t # jar
        /\ \A s \in Requests : /\ Brings(s, t) => r = s
                               /\ IsRefresh(s) => request[s].subject # t

\* Of the browser's requests only a refresh continues a family, and it answers
\* with the token that replaces its own.
OwnRotation ==
    /\ tx.open /\ tx.request # NoRequest /\ tx.token # NoToken
    /\ IsRefresh(tx.request) \/ tx.family # tx.token
    =>
    /\ IsRefresh(tx.request)
    /\ request[tx.request].cookie = tx.token
    /\ tx.revokes = {request[tx.request].subject}
    /\ tx.family = row[request[tx.request].subject].family

Browser ==
    /\ JarIsFresh
    /\ RefreshesAreFresh
    /\ AnswersAreFresh
    /\ OwnRotation
    /\ HonestBrowserIsNotStruck

\* A step that leaves every fresh token fresh.
KeepsFresh ==
    /\ \A t : Fresh(t) => Fresh(t)'
    /\ \A t \in Issued : t \in Issued' /\ row'[t].family = row[t].family

(***************************************************************************)
(* Requests that bring the browser no token                                *)
(***************************************************************************)
LEMMA FreshKept ==
    ASSUME row' = row, tainted \subseteq tainted'
    PROVE  KeepsFresh
BY DEF KeepsFresh, Fresh, OpenFamily, OfFamily, Issued, Live

\* A slot changes and brings no token; a refresh in it was there before.
LEMMA SlotChange ==
    ASSUME Inv, Browser, KeepsFresh, jar' = jar, NEW r \in Requests, NEW new,
           request' = [request EXCEPT ![r] = new],
           request[r].phase # "answered",
           ~(new.phase = "answered" /\ new.cookie \in Tokens),
           new.kind = "refresh" => /\ IsRefresh(r)
                                   /\ new.subject = request[r].subject
                                   /\ new.phase = "waiting" => request[r].phase = "waiting",
           OwnRotation', HonestBrowserIsNotStruck'
    PROVE  Browser'
<1>1. request \in [Requests -> Request]
  BY DEF Inv, TypeOK
<1>2. \A q \in Requests : request'[q] = IF q = r THEN new ELSE request[q]
  BY <1>1
<1>3. \A q \in Requests : \A t : Brings(q, t)' <=> Brings(q, t)
  BY <1>2 DEF Brings
<1>4. \A q \in Requests : IsRefresh(q)' =>
         /\ IsRefresh(q)
         /\ request'[q].subject = request[q].subject
         /\ request'[q].phase = "waiting" => request[q].phase = "waiting"
  BY <1>2 DEF IsRefresh
<1>5. /\ \A t : Fresh(t) => Fresh(t)' /\ t \in Issued
      /\ \A t \in Issued : t \in Issued' /\ row'[t].family = row[t].family
  BY DEF KeepsFresh, Fresh
<1>6. JarIsFresh'
  <2>1. \A q \in Requests : \A t : Replaces(q, t) => Replaces(q, t)'
    BY <1>2 DEF Replaces, Brings, IsRefresh
  <2> QED
    BY <1>5, <2>1 DEF Browser, JarIsFresh
<1>7. RefreshesAreFresh'
  <2> SUFFICES ASSUME NEW q \in Requests, IsRefresh(q)'
               PROVE  /\ request'[q].subject \in Issued'
                      /\ \A t : t = request'[q].subject /\ request'[q].phase = "waiting"
                                  => Fresh(t)'
                      /\ \A s \in Requests : IsRefresh(s)' => q = s
                      /\ \A t : Brings(q, t)' => row'[t].family = row'[request'[q].subject].family
    BY DEF RefreshesAreFresh
  <2>1. \A t : Brings(q, t) => t \in Issued
    BY <1>5 DEF Browser, AnswersAreFresh
  <2> QED
    BY <1>3, <1>4, <1>5, <2>1 DEF Browser, RefreshesAreFresh
<1>8. AnswersAreFresh'
  <2> SUFFICES ASSUME NEW q \in Requests, NEW t, Brings(q, t)'
               PROVE  /\ Fresh(t)'
                      /\ t # jar'
                      /\ \A s \in Requests : /\ Brings(s, t)' => q = s
                                             /\ IsRefresh(s)' => request'[s].subject # t
    BY DEF AnswersAreFresh
  <2> QED
    BY <1>3, <1>4, <1>5 DEF Browser, AnswersAreFresh
<1> QED
  BY <1>6, <1>7, <1>8 DEF Browser

\* The open transaction is none of the business of another request.
LEMMA TransactionKept ==
    ASSUME Inv, Browser, tx' = tx, \A t \in Issued : row'[t].family = row[t].family,
           tainted \subseteq tainted', NEW r \in Requests,
           NEW new, request' = [request EXCEPT ![r] = new], ~HasLock(request[r])
    PROVE  OwnRotation' /\ HonestBrowserIsNotStruck'
<1>1. request \in [Requests -> Request]
  BY DEF Inv, TypeOK
<1>2. tx.open /\ tx.request # NoRequest => tx.request \in Requests /\ tx.request # r
  BY DEF Inv, TypeOK, Transaction
<1>3. tx.open /\ tx.request # NoRequest => request'[tx.request] = request[tx.request]
  BY <1>1, <1>2
<1>4. OwnRotation'
  BY <1>2, <1>3 DEF Browser, OwnRotation, IsRefresh, RefreshesAreFresh
<1>5. HonestBrowserIsNotStruck'
  BY DEF Browser, HonestBrowserIsNotStruck, Strikes
<1> QED
  BY <1>4, <1>5

\* A slot is given back, whatever it brought.
LEMMA SlotGone ==
    ASSUME Inv, Browser, UNCHANGED <<row, tx>>, tainted \subseteq tainted', NEW r \in Requests,
           request' = [request EXCEPT ![r] = Idle], ~HasLock(request[r]),
           jar' = jar \/ jar' = NoToken \/ Brings(r, jar'), JarIsFresh'
    PROVE  Browser'
<1>1. request \in [Requests -> Request]
  BY DEF Inv, TypeOK
<1>2. Idle.kind = "none" /\ Idle.phase = "idle"
  BY DEF Idle
<1>3. \A q \in Requests : IsRefresh(q)' \/ (\E t : Brings(q, t)')
                             => q # r /\ request'[q] = request[q]
  BY <1>1, <1>2 DEF IsRefresh, Brings
<1>4. \A q \in Requests : \A t : Brings(q, t)' => Brings(q, t) /\ q # r
  BY <1>3 DEF Brings
<1>5. \A q \in Requests : IsRefresh(q)' => IsRefresh(q) /\ request'[q] = request[q]
  BY <1>3 DEF IsRefresh
<1>6. /\ \A t : Fresh(t) => Fresh(t)'
      /\ \A t \in Issued : t \in Issued'
      /\ row' = row
  BY FreshKept DEF KeepsFresh
<1>7. RefreshesAreFresh'
  <2> SUFFICES ASSUME NEW q \in Requests, IsRefresh(q)'
               PROVE  /\ request'[q].subject \in Issued'
                      /\ \A t : t = request'[q].subject /\ request'[q].phase = "waiting"
                                  => Fresh(t)'
                      /\ \A s \in Requests : IsRefresh(s)' => q = s
                      /\ \A t : Brings(q, t)' => row'[t].family = row'[request'[q].subject].family
    BY DEF RefreshesAreFresh
  <2> QED
    BY <1>4, <1>5, <1>6 DEF Browser, RefreshesAreFresh
<1>8. AnswersAreFresh'
  <2> SUFFICES ASSUME NEW q \in Requests, NEW t, Brings(q, t)'
               PROVE  /\ Fresh(t)'
                      /\ t # jar'
                      /\ \A s \in Requests : /\ Brings(s, t)' => q = s
                                             /\ IsRefresh(s)' => request'[s].subject # t
    BY DEF AnswersAreFresh
  <2>1. Brings(q, t) /\ q # r /\ t \in Tokens /\ t # NoToken
    BY <1>4, NoTokenIsNoToken DEF Brings
  <2> QED
    BY <1>4, <1>5, <1>6, <2>1 DEF Browser, AnswersAreFresh
<1>9. OwnRotation' /\ HonestBrowserIsNotStruck'
  BY <1>6, TransactionKept
<1> QED
  BY <1>7, <1>8, <1>9 DEF Browser

LEMMA AnsweredNothing ==
    ASSUME Inv, NEW r \in Requests, NEW cookie \in {NoToken, Keep}
    PROVE  \E new :
              /\ Answered(r, cookie) = [request EXCEPT ![r] = new]
              /\ ~(new.phase = "answered" /\ new.cookie \in Tokens)
              /\ new.phase # "waiting"
              /\ new.kind = "refresh" => IsRefresh(r) /\ new.subject = request[r].subject
<1>1. CASE cookie = Keep
  <2>1. Answered(r, cookie) = [request EXCEPT ![r] = Idle]
    BY <1>1 DEF Answered
  <2>2. Idle.phase = "idle" /\ Idle.kind = "none"
    BY DEF Idle
  <2> QED
    BY <2>1, <2>2
<1>2. CASE cookie # Keep
  <2> DEFINE new == [request[r] EXCEPT !.phase = "answered", !.cookie = cookie]
  <2>1. Answered(r, cookie) = [request EXCEPT ![r] = new]
    BY <1>2 DEF Answered
  <2>2. request[r] \in Request
    BY DEF Inv, TypeOK
  <2>3. /\ new.phase = "answered" /\ new.cookie = cookie
        /\ new.kind = request[r].kind /\ new.subject = request[r].subject
    BY <2>2 DEF Request
  <2> HIDE DEF new
  <2> QED
    BY <1>2, <2>1, <2>3, NoTokenIsNoToken DEF IsRefresh
<1> QED
  BY <1>1, <1>2

LEMMA RefuseBrowser ==
    ASSUME Inv, Browser, NEW r \in Requests, NEW cookie \in {NoToken, Keep}, Refuse(r, cookie),
           request[r].phase = "waiting"
    PROVE  Browser'
<1>1. PICK new : /\ Answered(r, cookie) = [request EXCEPT ![r] = new]
                 /\ ~(new.phase = "answered" /\ new.cookie \in Tokens)
                 /\ new.phase # "waiting"
                 /\ new.kind = "refresh" => IsRefresh(r) /\ new.subject = request[r].subject
  BY AnsweredNothing
<1>2. request' = [request EXCEPT ![r] = new] /\ UNCHANGED <<row, tx, jar, tainted>>
  BY <1>1 DEF Refuse
<1>3. OwnRotation' /\ HonestBrowserIsNotStruck'
  BY <1>2, TransactionKept
<1> QED
  BY <1>1, <1>2, <1>3, FreshKept, SlotChange

\* Somebody else opens a transaction.
LEMMA ExecuteBrowser ==
    ASSUME Inv, Browser, NEW w, w.request = NoRequest, Execute(w)
    PROVE  Browser'
<1>1. tx'.request = NoRequest /\ UNCHANGED <<row, request, jar, tainted>>
  BY DEF Execute
<1>2. OwnRotation' /\ HonestBrowserIsNotStruck'
  BY <1>1 DEF OwnRotation, HonestBrowserIsNotStruck
<1>3. JarIsFresh' /\ RefreshesAreFresh' /\ AnswersAreFresh'
  BY <1>1 DEF Browser, JarIsFresh, RefreshesAreFresh, AnswersAreFresh, Replaces, Brings, IsRefresh,
              Fresh, OpenFamily, OfFamily, Issued, Live
<1> QED
  BY <1>2, <1>3 DEF Browser

\* A request of the browser has executed its statements, after it has waited.
LEMMA ExecutedBrowser ==
    ASSUME Inv, Browser, NEW w, NEW r \in Requests, NEW cookie, Executed(r, w, cookie),
           request[r].phase # "answered", w.request = r,
           w.token # NoToken /\ (IsRefresh(r) \/ w.family # w.token) =>
               /\ IsRefresh(r)
               /\ cookie = w.token
               /\ w.revokes = {request[r].subject}
               /\ w.family = row[request[r].subject].family,
           w.token = NoToken /\ w.family # NoToken /\ w.revokes # {} => w.family \in tainted
    PROVE  Browser'
<1> DEFINE new == [request[r] EXCEPT !.phase = "executed", !.cookie = cookie]
<1>1. request \in [Requests -> Request] /\ request[r] \in Request
  BY DEF Inv, TypeOK
<1>2. /\ new.phase = "executed" /\ new.cookie = cookie
      /\ new.kind = request[r].kind /\ new.subject = request[r].subject
  BY <1>1 DEF Request
<1>3. request' = [request EXCEPT ![r] = new] /\ tx' = w /\ UNCHANGED <<row, jar, tainted>>
  BY DEF Executed
<1> HIDE DEF new
<1>4. request'[r] = new
  BY <1>1, <1>3
<1>5. OwnRotation'
  BY <1>2, <1>3, <1>4 DEF OwnRotation, IsRefresh
<1>6. HonestBrowserIsNotStruck'
  BY <1>3 DEF HonestBrowserIsNotStruck, Strikes
<1> QED
  BY <1>2, <1>3, <1>5, <1>6, FreshKept, SlotChange DEF IsRefresh

\* Or at once, and then it is no refresh.
LEMMA AtOnceBrowser ==
    ASSUME Inv, Browser, NEW w, NEW r \in Requests, NEW new, w.request = r,
           request[r].phase = "idle", new.kind # "refresh", new.phase = "executed",
           w.token = NoToken => w.family = NoToken, w.token # NoToken => w.family = w.token,
           tx' = w, request' = [request EXCEPT ![r] = new], UNCHANGED <<row, jar, tainted>>
    PROVE  Browser'
<1>1. request'[r] = new
  BY DEF Inv, TypeOK
<1>2. OwnRotation' /\ HonestBrowserIsNotStruck'
  BY <1>1 DEF OwnRotation, HonestBrowserIsNotStruck, Strikes, IsRefresh
<1> QED
  BY <1>2, FreshKept, SlotChange

(***************************************************************************)
(* The steps                                                               *)
(***************************************************************************)
LEMMA SendBrowser ==
    ASSUME Inv, Browser, NEW r \in Requests, NEW kind, NEW seen, Send(r, kind, seen)
    PROVE  Browser'
<1> DEFINE new == [kind |-> kind, phase |-> "waiting", subject |-> jar, seen |-> seen,
                   cookie |-> Keep]
<1>1. /\ request' = [request EXCEPT ![r] = new] /\ request[r].phase = "idle"
      /\ UNCHANGED <<row, tx, jar, tainted>>
  BY DEF Send
<1>2. new.kind = kind /\ new.phase = "waiting" /\ new.subject = jar
  OBVIOUS
<1> HIDE DEF new
<1>3. OwnRotation' /\ HonestBrowserIsNotStruck'
  BY <1>1, TransactionKept
<1>4. CASE kind # "refresh"
  BY <1>1, <1>2, <1>3, <1>4, FreshKept, SlotChange
<1>5. CASE kind = "refresh"
  <2>1. /\ \A q \in Requests : ~IsRefresh(q)
        /\ jar \in Issued
    BY <1>5 DEF Send, OneRefresh, IsRefresh, Inv
  <2>2. \A t : t = jar => Fresh(t)
    BY <2>1, Rows DEF Inv, Browser, JarIsFresh, Replaces
  <2>3. \A q \in Requests : request'[q] = IF q = r THEN new ELSE request[q]
    BY <1>1 DEF Inv, TypeOK
  <2>4. \A q \in Requests : \A t : Brings(q, t)' => Brings(q, t)
    BY <1>2, <2>3 DEF Brings
  <2>5. \A q \in Requests : IsRefresh(q)' => q = r
    BY <2>1, <2>3 DEF IsRefresh
  <2>6. request'[r] = new /\ \A t : ~Brings(r, t)'
    BY <1>2, <2>3 DEF Brings
  <2>7. Issued' = Issued /\ \A t : Fresh(t) => Fresh(t)'
    BY <1>1, FreshKept DEF KeepsFresh, Issued
  <2>8. JarIsFresh'
    BY <1>1, <2>2, <2>7 DEF JarIsFresh
  <2>9. RefreshesAreFresh'
    <3> SUFFICES ASSUME NEW q \in Requests, IsRefresh(q)'
                 PROVE  /\ request'[q].subject \in Issued'
                        /\ \A t : t = request'[q].subject /\ request'[q].phase = "waiting"
                                    => Fresh(t)'
                        /\ \A s \in Requests : IsRefresh(s)' => q = s
                        /\ \A t : Brings(q, t)' =>
                              row'[t].family = row'[request'[q].subject].family
      BY DEF RefreshesAreFresh
    <3> QED
      BY <1>2, <2>1, <2>2, <2>5, <2>6, <2>7
  <2>10. AnswersAreFresh'
    <3> SUFFICES ASSUME NEW q \in Requests, NEW t, Brings(q, t)'
                 PROVE  /\ Fresh(t)'
                        /\ t # jar'
                        /\ \A s \in Requests : /\ Brings(s, t)' => q = s
                                               /\ IsRefresh(s)' => request'[s].subject # t
      BY DEF AnswersAreFresh
    <3> QED
      BY <1>1, <1>2, <2>4, <2>5, <2>6, <2>7 DEF Browser, AnswersAreFresh
  <2> QED
    BY <1>3, <2>8, <2>9, <2>10 DEF Browser
<1> QED
  BY <1>4, <1>5

LEMMA ArriveBrowser ==
    ASSUME Inv, Browser, NEW r \in Requests, Arrive(r)
    PROVE  Browser'
<1>1. /\ request' = [request EXCEPT ![r] = Idle] /\ request[r].phase = "answered"
      /\ UNCHANGED <<row, tx, tainted>> /\ jar' = request[r].cookie
      /\ GoodSlot(request[r])
  BY DEF Arrive, Inv
<1>2. jar' \in Issued \cup {NoToken} /\ Issued \subseteq Tokens
  BY <1>1, Rows DEF GoodSlot, Inv
<1>3. jar' = NoToken \/ Brings(r, jar')
  BY <1>1, <1>2 DEF Brings
<1>4. \A t : Fresh(t) => Fresh(t)'
  BY <1>1, FreshKept DEF KeepsFresh
<1>5. \A t \in Tokens : t = jar' => Fresh(t)'
  BY <1>3, <1>4, NoTokenIsNoToken DEF Browser, AnswersAreFresh
<1>6. JarIsFresh'
  BY <1>5 DEF JarIsFresh
<1> QED
  BY <1>1, <1>3, <1>6, SlotGone

LEMMA LoseBrowser ==
    ASSUME Inv, Browser, NEW r \in Requests, Lose(r)
    PROVE  Browser'
<1>1. /\ request' = [request EXCEPT ![r] = Idle] /\ ~HasLock(request[r])
      /\ UNCHANGED <<row, tx, jar>> /\ tainted \subseteq tainted'
  BY DEF Lose
<1>2. \A q \in Requests : q # r => request'[q] = request[q]
  BY <1>1 DEF Inv, TypeOK
<1>3. \A t : Fresh(t) => Fresh(t)'
  BY <1>1, FreshKept DEF KeepsFresh
<1>4. ASSUME NEW t \in Tokens, Replaces(r, t)
      PROVE  Fresh(t)'
  <2>1. PICK new \in Tokens : Brings(r, new)
    BY <1>4 DEF Replaces
  <2>2. IsRefresh(r) /\ request[r].subject = t /\ request[r].cookie = new
    BY <1>4, <2>1 DEF Replaces, Brings
  <2>3. row[new].family = row[t].family /\ t \in Issued
    BY <2>1, <2>2 DEF Browser, RefreshesAreFresh
  <2>4. tainted' = tainted \cup {row[new].family}
    BY <2>1, <2>2 DEF Lose, IsRefresh
  <2>5. row'[t].family \in tainted' /\ t \in Issued'
    BY <1>1, <2>3, <2>4 DEF Issued
  <2> QED
    BY <2>5 DEF Fresh, OpenFamily
<1>5. \A q \in Requests : \A t : q # r /\ Replaces(q, t) => Replaces(q, t)'
  BY <1>2 DEF Replaces, Brings, IsRefresh
<1>6. JarIsFresh'
  BY <1>1, <1>3, <1>4, <1>5 DEF Browser, JarIsFresh
<1> QED
  BY <1>1, <1>6, SlotGone

LEMMA AbortBrowser ==
    ASSUME Inv, Browser, Abort
    PROVE  Browser'
<1>1. tx' = NoTx /\ UNCHANGED <<row, jar, tainted>> /\ tx.open
  BY DEF Abort
<1>2. OwnRotation' /\ HonestBrowserIsNotStruck'
  BY <1>1, NoTxType DEF OwnRotation, HonestBrowserIsNotStruck, Strikes
<1>3. CASE tx.request = NoRequest
  <2>1. request' = request
    BY <1>3 DEF Abort
  <2>2. JarIsFresh' /\ RefreshesAreFresh' /\ AnswersAreFresh'
    BY <1>1, <2>1 DEF Browser, JarIsFresh, RefreshesAreFresh, AnswersAreFresh, Replaces, Brings,
                      IsRefresh, Fresh, OpenFamily, OfFamily, Issued, Live
  <2> QED
    BY <1>2, <2>2 DEF Browser
<1>4. CASE tx.request # NoRequest
  <2>1. request' = [request EXCEPT ![tx.request] = Idle]
    BY <1>4 DEF Abort
  <2>2. tx.request \in Requests /\ HasLock(request[tx.request])
    BY <1>1, <1>4 DEF Inv, TypeOK, Transaction
  <2>3. Idle.kind = "none" /\ Idle.phase = "idle"
    BY DEF Idle
  <2>4. KeepsFresh
    BY <1>1, FreshKept
  <2>5. \A r \in Requests : r = tx.request => Browser'
    <3> SUFFICES ASSUME NEW r \in Requests, r = tx.request PROVE Browser'
      OBVIOUS
    <3>1. request' = [request EXCEPT ![r] = Idle] /\ HasLock(request[r])
      BY <2>1, <2>2
    <3> QED
      BY <1>1, <1>2, <2>3, <2>4, <3>1, SlotChange
  <2> QED
    BY <2>2, <2>5
<1> QED
  BY <1>3, <1>4

\* The live token of an open family is its only one; it is revoked by a logout
\* together with its family.
LEMMA LogoutBrowser ==
    ASSUME Inv, Browser, NEW r \in Requests, Logout(r)
    PROVE  Browser'
<1>1. /\ request' = Answered(r, NoToken) /\ UNCHANGED <<tx, jar, tainted>>
      /\ request[r].phase = "waiting"
  BY DEF Logout, Waiting
<1>2. /\ \A t \in Tokens : row'[t].family = row[t].family
      /\ Issued' = Issued /\ Issued \subseteq Tokens /\ Live \subseteq Issued
      /\ Live' \subseteq Live
  BY LogoutRows, Rows DEF Inv
<1>3. ASSUME NEW t, Fresh(t) PROVE Fresh(t)'
  <2> SUFFICES ASSUME OpenFamily(row[t].family)' PROVE t \in Live'
    BY <1>2, <1>3 DEF Fresh
  <2>1. t \in Issued /\ t \in Tokens /\ row'[t].family = row[t].family
    BY <1>2, <1>3 DEF Fresh
  <2>2. PICK u \in Live' : row'[u].family = row'[t].family
    BY DEF OpenFamily, OfFamily
  <2>3. u \in Live /\ row[u].family = row[t].family
    BY <1>2, <2>1, <2>2
  <2>4. row[t].family \notin tainted
    BY <1>1, <2>1 DEF OpenFamily
  <2>5. t \in Live
    BY <1>3, <2>3, <2>4 DEF Fresh, OpenFamily, OfFamily
  <2> QED
    BY <2>2, <2>3, <2>5 DEF Inv, OneTokenPerFamily
<1>4. KeepsFresh
  BY <1>2, <1>3 DEF KeepsFresh
<1>5. PICK new : /\ Answered(r, NoToken) = [request EXCEPT ![r] = new]
                 /\ ~(new.phase = "answered" /\ new.cookie \in Tokens)
                 /\ new.phase # "waiting"
                 /\ new.kind = "refresh" => IsRefresh(r) /\ new.subject = request[r].subject
  BY AnsweredNothing
<1>6. OwnRotation' /\ HonestBrowserIsNotStruck'
  BY <1>1, <1>2, <1>5, TransactionKept
<1> QED
  BY <1>1, <1>4, <1>5, <1>6, SlotChange

\* A commit leaves a fresh token fresh, unless it is the browser's refresh of
\* that very token.
LEMMA CommitFresh ==
    ASSUME Inv, Browser, Commit, NEW t, Fresh(t)
    PROVE  \/ Fresh(t)'
           \/ /\ tx.request # NoRequest /\ tx.token \in Tokens
              /\ IsRefresh(tx.request)
              /\ request[tx.request].subject = t
<1>0. PICK f : f = row[t].family
  OBVIOUS
<1>1. /\ tx.open /\ GoodWrites(tx) /\ tx.token \notin Issued /\ tx.token \in Tokens \cup {NoToken}
      /\ t \in Issued /\ t \in Tokens /\ f \in Issued /\ f \in Tokens /\ Live \subseteq Issued
  BY <1>0, Rows DEF Inv, TypeOK, Transaction, GoodWrites, Commit, Fresh, FamiliesAreIssued
<1>2. t \in Issued' /\ row'[t].family = f
  BY <1>0, <1>1, CommitRows
<1> SUFFICES ASSUME f \notin tainted', OfFamily(f)' # {}, t \notin Live'
             PROVE  /\ tx.request # NoRequest /\ tx.token \in Tokens
                    /\ IsRefresh(tx.request)
                    /\ request[tx.request].subject = t
  <2>1. ~(f \notin tainted' /\ OfFamily(f)' # {} /\ t \notin Live') => Fresh(t)'
    BY <1>2 DEF Fresh, OpenFamily, OfFamily
  <2> QED
    BY <2>1
<1>3. /\ tainted' = {g \in tainted \cup IF tx.request = NoRequest THEN {tx.family} ELSE {} :
                        OfFamily(g)' # {}}
      /\ [Next]_vars
  BY DEF Commit, Next
<1>4. f \notin tainted /\ (tx.request = NoRequest => tx.family # f)
  BY <1>3
<1>5. OfFamily(f) # {}
  BY <1>1, <1>3, EndedForGood
<1>6. t \in Live
  BY <1>0, <1>4, <1>5 DEF Fresh, OpenFamily
<1>7. t \in tx.revokes
  BY <1>1, <1>6, CommitRows
<1>8. PICK u \in Live' : row'[u].family = f
  BY DEF OfFamily
<1>9. u = tx.token
  <2> SUFFICES ASSUME u # tx.token PROVE FALSE
    OBVIOUS
  <2>1. u \in Live /\ u \notin tx.revokes /\ u \in Tokens
    BY <1>8, CommitRows
  <2>2. row[u].family = f
    BY <1>8, <2>1, CommitRows
  <2>3. u = t
    BY <1>0, <1>6, <2>1, <2>2 DEF Inv, OneTokenPerFamily
  <2> QED
    BY <1>7, <2>1, <2>3
<1>10. u \in Tokens /\ tx.family = f
  BY <1>8, <1>9, CommitRows
<1>11. tx.request # NoRequest /\ tx.family # tx.token /\ tx.token # NoToken
  BY <1>1, <1>4, <1>9, <1>10, NoTokenIsNoToken
<1>12. IsRefresh(tx.request) /\ tx.revokes = {request[tx.request].subject}
  BY <1>1, <1>11 DEF Browser, OwnRotation
<1> QED
  BY <1>7, <1>9, <1>10, <1>11, <1>12

\* The transaction of request r of the browser commits; it may bring a new token.
LEMMA CommitOfRequest ==
    ASSUME Inv, Browser, Commit, NEW r \in Requests, tx.request = r, r # NoRequest
    PROVE  Browser'
<1>1. /\ tx.open /\ GoodWrites(tx) /\ tx.token \notin Issued /\ tx.token \in Tokens \cup {NoToken}
      /\ tx' = NoTx /\ jar' = jar
      /\ jar \in Issued \cup {NoToken}
      /\ request[r] \in Request /\ request[r].phase = "executed"
  BY DEF Inv, TypeOK, Transaction, GoodWrites, Commit
<1>2. OwnRotation' /\ HonestBrowserIsNotStruck'
  BY <1>1, NoTxType DEF OwnRotation, HonestBrowserIsNotStruck, Strikes
<1>3. \A t \in Issued : /\ t \in Issued' /\ t # tx.token /\ t \in Tokens
                        /\ row'[t].family = row[t].family
  BY <1>1, CommitRows, Rows DEF Inv
<1>4. \A t : Fresh(t) =>
         \/ Fresh(t)'
         \/ tx.token \in Tokens /\ IsRefresh(r) /\ request[r].subject = t
  BY CommitFresh
<1> DEFINE cookie == request[r].cookie
           new == IF cookie = Keep THEN Idle
                  ELSE [request[r] EXCEPT !.phase = "answered", !.cookie = cookie]
<1>5. request' = [request EXCEPT ![r] = new]
  BY DEF Commit, Answered
<1>6. cookie \in {tx.token, NoToken, Keep}
  BY <1>1 DEF Inv, AnswersWithItsToken
<1>7. /\ new.phase \in {"idle", "answered"}
      /\ cookie # Keep => /\ new.phase = "answered" /\ new.cookie = cookie
                          /\ new.kind = request[r].kind /\ new.subject = request[r].subject
      /\ cookie = Keep => new.phase = "idle" /\ new.kind = "none"
  BY <1>1 DEF Idle, Request
<1> HIDE DEF new
<1>8. \A q \in Requests : request'[q] = IF q = r THEN new ELSE request[q]
  BY <1>5 DEF Inv, TypeOK
<1> HIDE DEF cookie
<1>9. \A t : Brings(r, t)' => t = tx.token /\ t \in Tokens /\ cookie = t
  BY <1>6, <1>7, <1>8, NoTokenIsNoToken DEF Brings
<1>10. \A q \in Requests : \A t : q # r => /\ Brings(q, t)' <=> Brings(q, t)
                                           /\ Replaces(q, t) => Replaces(q, t)'
  BY <1>8 DEF Brings, Replaces, IsRefresh
<1>11. \A q \in Requests : IsRefresh(q)' =>
          /\ IsRefresh(q)
          /\ request'[q].subject = request[q].subject
          /\ request'[q].phase = "waiting" => request[q].phase = "waiting" /\ q # r
  BY <1>7, <1>8 DEF IsRefresh
<1>12. ~\E t : Brings(r, t)
  BY <1>1 DEF Brings
<1>13. IsRefresh(r) /\ tx.token \in Tokens =>
          /\ cookie = tx.token
          /\ tx.family = row[request[r].subject].family
  BY <1>1, NoTokenIsNoToken DEF Browser, OwnRotation, cookie
<1>14. JarIsFresh'
  <2> SUFFICES ASSUME NEW t \in Tokens, t = jar
               PROVE  Fresh(t)' \/ \E q \in Requests : Replaces(q, t)'
    BY <1>1 DEF JarIsFresh
  <2>1. CASE \E q \in Requests : Replaces(q, t)
    BY <1>10, <1>12, <2>1 DEF Replaces
  <2>2. CASE Fresh(t)
    <3>1. CASE tx.token \in Tokens /\ IsRefresh(r) /\ request[r].subject = t
      <4>1. cookie = tx.token /\ cookie # Keep
        BY <1>13, <3>1, NoTokenIsNoToken
      <4>2. /\ request'[r].phase = "answered" /\ request'[r].cookie = tx.token
            /\ request'[r].kind = "refresh" /\ request'[r].subject = t
        BY <1>7, <1>8, <3>1, <4>1 DEF IsRefresh
      <4>3. Replaces(r, t)'
        BY <3>1, <4>2 DEF Replaces, Brings, IsRefresh
      <4> QED
        BY <4>3
    <3> QED
      BY <1>4, <2>2, <3>1
  <2> QED
    BY <2>1, <2>2 DEF Browser, JarIsFresh
<1>15. RefreshesAreFresh'
  <2> SUFFICES ASSUME NEW q \in Requests, IsRefresh(q)'
               PROVE  /\ request'[q].subject \in Issued'
                      /\ \A t : t = request'[q].subject /\ request'[q].phase = "waiting"
                                  => Fresh(t)'
                      /\ \A s \in Requests : IsRefresh(s)' => q = s
                      /\ \A t : Brings(q, t)' => row'[t].family = row'[request'[q].subject].family
    BY DEF RefreshesAreFresh
  <2>1. IsRefresh(q) /\ request[q].subject \in Issued /\ request'[q].subject = request[q].subject
    BY <1>11 DEF Browser, RefreshesAreFresh
  <2>2. \A s \in Requests : IsRefresh(s)' => q = s
    BY <1>11, <2>1 DEF Browser, RefreshesAreFresh
  <2>3. ASSUME NEW t, t = request'[q].subject, request'[q].phase = "waiting"
        PROVE  Fresh(t)'
    <3>1. Fresh(t) /\ q # r
      BY <1>11, <2>1, <2>3 DEF Browser, RefreshesAreFresh
    <3>2. ~IsRefresh(r)
      BY <2>1, <3>1 DEF Browser, RefreshesAreFresh
    <3> QED
      BY <1>4, <3>1, <3>2
  <2>4. ASSUME NEW t, Brings(q, t)'
        PROVE  row'[t].family = row'[request'[q].subject].family
    <3>1. CASE q = r
      <4>1. t = tx.token /\ t \in Tokens
        BY <1>9, <2>4, <3>1
      <4>2. row'[t].family = tx.family
        BY <4>1, CommitRows
      <4> QED
        BY <1>3, <1>13, <2>1, <3>1, <4>1, <4>2
    <3>2. CASE q # r
      <4>1. Brings(q, t)
        BY <1>10, <2>4, <3>2
      <4>2. t \in Issued /\ row[t].family = row[request[q].subject].family
        BY <2>1, <4>1 DEF Browser, RefreshesAreFresh, AnswersAreFresh, Fresh
      <4> QED
        BY <1>3, <2>1, <4>2
    <3> QED
      BY <3>1, <3>2
  <2> QED
    BY <1>3, <2>1, <2>2, <2>3, <2>4
<1>16. AnswersAreFresh'
  <2> SUFFICES ASSUME NEW q \in Requests, NEW t, Brings(q, t)'
               PROVE  /\ Fresh(t)'
                      /\ t # jar'
                      /\ \A s \in Requests : /\ Brings(s, t)' => q = s
                                             /\ IsRefresh(s)' => request'[s].subject # t
    BY DEF AnswersAreFresh
  <2>1. \A s \in Requests : /\ IsRefresh(s)' => request'[s].subject \in Issued
                            /\ s # r /\ Brings(s, t)' => t \in Issued
    BY <1>10, <1>11 DEF Browser, RefreshesAreFresh, AnswersAreFresh, Fresh
  <2>2. CASE q = r
    <3>1. t = tx.token /\ t \in Tokens /\ t \notin Issued
      BY <1>1, <1>9, <2>2
    <3>2. t \in Live' /\ t \in Issued'
      BY <3>1, CommitRows
    <3>3. Fresh(t)'
      BY <3>2 DEF Fresh
    <3> QED
      BY <1>1, <2>1, <2>2, <3>1, <3>3, NoTokenIsNoToken
  <2>3. CASE q # r
    <3>1. Brings(q, t) /\ t \in Issued
      BY <1>10, <2>1, <2>3
    <3>2. Fresh(t) /\ t # jar /\ \A s \in Requests : /\ Brings(s, t) => q = s
                                                     /\ IsRefresh(s) => request[s].subject # t
      BY <3>1 DEF Browser, AnswersAreFresh
    <3>3. Fresh(t)'
      BY <1>4, <3>2
    <3>4. ~Brings(r, t)'
      BY <1>1, <1>9, <3>1
    <3> QED
      BY <1>1, <1>10, <1>11, <3>2, <3>3, <3>4
  <2> QED
    BY <2>2, <2>3
<1> QED
  BY <1>2, <1>14, <1>15, <1>16 DEF Browser

\* A commit of somebody else.
LEMMA SameSlots ==
    ASSUME Inv, Browser, KeepsFresh, jar' = jar, request' = request,
           OwnRotation', HonestBrowserIsNotStruck'
    PROVE  Browser'
<1>1. /\ \A t : Fresh(t) => Fresh(t)' /\ t \in Issued
      /\ \A t \in Issued : t \in Issued' /\ row'[t].family = row[t].family
  BY DEF KeepsFresh, Fresh
<1>2. \A q \in Requests : \A t : /\ Brings(q, t)' <=> Brings(q, t)
                                 /\ Replaces(q, t) => Replaces(q, t)'
                                 /\ IsRefresh(q)' <=> IsRefresh(q)
  BY DEF Brings, Replaces, IsRefresh
<1>3. JarIsFresh'
  BY <1>1, <1>2 DEF Browser, JarIsFresh
<1>4. RefreshesAreFresh'
  <2> SUFFICES ASSUME NEW q \in Requests, IsRefresh(q)'
               PROVE  /\ request'[q].subject \in Issued'
                      /\ \A t : t = request'[q].subject /\ request'[q].phase = "waiting"
                                  => Fresh(t)'
                      /\ \A s \in Requests : IsRefresh(s)' => q = s
                      /\ \A t : Brings(q, t)' => row'[t].family = row'[request'[q].subject].family
    BY DEF RefreshesAreFresh
  <2>1. \A t : Brings(q, t) => t \in Issued
    BY <1>1 DEF Browser, AnswersAreFresh
  <2> QED
    BY <1>1, <1>2, <2>1 DEF Browser, RefreshesAreFresh
<1>5. AnswersAreFresh'
  BY <1>1, <1>2 DEF Browser, AnswersAreFresh
<1> QED
  BY <1>3, <1>4, <1>5 DEF Browser

LEMMA CommitBrowser ==
    ASSUME Inv, Browser, Commit
    PROVE  Browser'
<1>1. /\ tx.open /\ GoodWrites(tx) /\ tx.token \notin Issued /\ tx.token \in Tokens \cup {NoToken}
      /\ tx' = NoTx /\ jar' = jar
      /\ jar \in Issued \cup {NoToken}
  BY DEF Inv, TypeOK, Transaction, GoodWrites, Commit
<1>2. OwnRotation' /\ HonestBrowserIsNotStruck'
  BY <1>1, NoTxType DEF OwnRotation, HonestBrowserIsNotStruck, Strikes
<1>3. \A t \in Issued : /\ t \in Issued' /\ t # tx.token /\ t \in Tokens
                        /\ row'[t].family = row[t].family
  BY <1>1, CommitRows, Rows DEF Inv
<1>4. \A t : Fresh(t) => \/ Fresh(t)'
                         \/ /\ tx.request # NoRequest /\ tx.token \in Tokens
                            /\ IsRefresh(tx.request)
                            /\ request[tx.request].subject = t
  BY CommitFresh
<1>5. CASE tx.request = NoRequest
  <2>1. request' = request
    BY <1>5 DEF Commit
  <2>2. KeepsFresh
    BY <1>3, <1>4, <1>5 DEF KeepsFresh
  <2>3. \A q \in Requests : \A t : Brings(q, t)' <=> Brings(q, t)
    BY <2>1 DEF Brings
  <2> QED
    BY <1>1, <1>2, <2>1, <2>2, SameSlots
<1>6. CASE tx.request # NoRequest
  <2>1. tx.request \in Requests /\ HasLock(request[tx.request])
    BY <1>1, <1>6 DEF Inv, TypeOK, Transaction
  <2>2. \A r \in Requests : r = tx.request => Browser'
    <3> SUFFICES ASSUME NEW r \in Requests, r = tx.request PROVE Browser'
      OBVIOUS
    <3> QED
      BY <1>6, CommitOfRequest
  <2> QED
    BY <2>1, <2>2
<1> QED
  BY <1>5, <1>6

\* A waiting refresh of the browser that shows a revoked token has a family that
\* is tainted or over.
LEMMA RefreshBrowser ==
    ASSUME Inv, Browser, NEW r \in Requests, Refresh(r)
    PROVE  Browser'
<1> DEFINE t == request[r].subject
<1>1. request[r].phase = "waiting" /\ IsRefresh(r) /\ Fresh(t) /\ t \in Tokens
  BY Rows DEF Refresh, Waiting, IsRefresh, Inv, Browser, RefreshesAreFresh, Fresh
<1>2. CASE Refuse(r, NoToken)
  BY <1>1, <1>2, RefuseBrowser
<1>3. CASE row[t].status = "revoked" /\ ExecuteFor(r, ReuseWrites(r, t), NoToken)
  <2> DEFINE w == ReuseWrites(r, t)
  <2>1. /\ w.request = r /\ w.token = NoToken /\ w.family = row[t].family
        /\ w.revokes = OfFamily(row[t].family)
    BY DEF ReuseWrites, Writes
  <2>2. t \notin Live
    BY <1>3 DEF Live
  <2>3. w.revokes # {} => w.family \in tainted
    BY <1>1, <2>1, <2>2 DEF Fresh, OpenFamily
  <2>4. Executed(r, w, NoToken)
    BY <1>3 DEF ExecuteFor
  <2> HIDE DEF w, t
  <2> QED
    BY <1>1, <2>1, <2>3, <2>4, ExecutedBrowser
<1>4. ASSUME NEW new \in Tokens \ Issued, ExecuteFor(r, RotationWrites(r, t, new), new)
      PROVE  Browser'
  <2> DEFINE w == RotationWrites(r, t, new)
  <2>1. /\ w.request = r /\ w.token = new /\ w.family = row[t].family
        /\ w.revokes = {t}
    BY DEF RotationWrites, Writes
  <2>2. Executed(r, w, new) /\ new # NoToken
    BY <1>4, NoTokenIsNoToken DEF ExecuteFor
  <2> HIDE DEF w
  <2> QED
    BY <1>1, <2>1, <2>2, ExecutedBrowser
<1> HIDE DEF t
<1> QED
  BY <1>2, <1>3, <1>4 DEF Refresh, t

LEMMA ChangePasswordBrowser ==
    ASSUME Inv, Browser, NEW r \in Requests, ChangePassword(r)
    PROVE  Browser'
<1>1. request[r].phase = "checked" /\ ~IsRefresh(r)
  BY DEF ChangePassword, Checked, IsRefresh
<1>2. ASSUME NEW t \in Tokens \ Issued,
             Executed(r, [NewPassword(NewFamily(r, t)) EXCEPT !.account = Unlocked(@)], t)
      PROVE  Browser'
  <2> DEFINE w == [NewPassword(NewFamily(r, t)) EXCEPT !.account = Unlocked(@)]
  <2>1. w.request = r /\ w.token = t /\ w.family = t
    BY DEF NewPassword, NewFamily, Writes
  <2>2. Executed(r, w, t) /\ t # NoToken
    BY <1>2, NoTokenIsNoToken
  <2> HIDE DEF w
  <2> QED
    BY <1>1, <2>1, <2>2, ExecutedBrowser
<1> QED
  BY <1>2 DEF ChangePassword

LEMMA GuessPasswordBrowser ==
    ASSUME Inv, Browser, NEW r \in Requests, GuessPassword(r)
    PROVE  Browser'
<1> DEFINE failed == RegisterFailure(account)
           locks == failed.failures = 0
           w == [Writes(r) EXCEPT !.account = failed, !.revokes = IF locks THEN Live ELSE {}]
           cookie == IF locks THEN NoToken ELSE Keep
<1>1. request[r].phase = "checked" /\ ~IsRefresh(r)
  BY DEF GuessPassword, Checked, IsRefresh
<1>2. Executed(r, w, cookie)
  BY DEF GuessPassword
<1>3. w.request = r /\ w.token = NoToken /\ w.family = NoToken
  BY DEF Writes
<1> HIDE DEF w, cookie
<1> QED
  BY <1>1, <1>2, <1>3, ExecutedBrowser

\* A request that has found its session live has written nothing yet.
LEMMA CheckSessionBrowser ==
    ASSUME Inv, Browser, NEW r \in Requests, CheckSession(r)
    PROVE  Browser'
<1> DEFINE new == [request[r] EXCEPT !.phase = "checked",
                                     !.seen = OfFamily(row[request[r].subject].family)]
<1>1. request[r].phase = "waiting" /\ ~IsRefresh(r)
  BY DEF CheckSession, Waiting, IsRefresh
<1>2. CASE Refuse(r, NoToken)
  BY <1>1, <1>2, RefuseBrowser
<1>3. CASE ~Refuse(r, NoToken)
  <2>1. tx' = Writes(r) /\ request' = [request EXCEPT ![r] = new] /\ UNCHANGED <<row, jar, tainted>>
    BY <1>3 DEF CheckSession
  <2>2. new.phase = "checked" /\ new.kind = request[r].kind
    BY DEF Inv, TypeOK, Request
  <2>3. tx'.token = NoToken /\ tx'.family = NoToken
    BY <2>1 DEF Writes
  <2>4. OwnRotation' /\ HonestBrowserIsNotStruck'
    BY <2>3 DEF OwnRotation, HonestBrowserIsNotStruck, Strikes
  <2> HIDE DEF new
  <2> QED
    BY <1>1, <2>1, <2>2, <2>4, FreshKept, SlotChange DEF IsRefresh
<1> QED
  BY <1>2, <1>3

\* A sign-in or a new password through a link is no refresh.
LEMMA LoginBrowser ==
    ASSUME Inv, Browser, NEW r \in Requests, Login(r) \/ ResetPassword(r)
    PROVE  Browser'
<1>1. ASSUME NEW t \in Tokens, NEW w, NEW new,
             w = [NewFamily(r, t) EXCEPT !.account = Unlocked(account)],
             new = [Idle EXCEPT !.kind = "login", !.phase = "executed", !.cookie = t],
             request[r].phase = "idle", tx' = w, request' = [request EXCEPT ![r] = new],
             UNCHANGED <<row, jar, tainted>>
      PROVE  Browser'
  <2>1. w.request = r /\ w.token = t /\ w.family = t /\ t # NoToken
    BY <1>1, NoTokenIsNoToken DEF NewFamily, Writes
  <2>2. new.kind # "refresh" /\ new.phase = "executed"
    BY <1>1 DEF Idle
  <2> QED
    BY <1>1, <2>1, <2>2, AtOnceBrowser
<1>2. CASE Login(r)
  BY <1>1, <1>2 DEF Login
<1>3. CASE ResetPassword(r)
  <2> DEFINE w == NewPassword(Writes(r))
             new == [Idle EXCEPT !.kind = "reset", !.phase = "executed", !.cookie = NoToken]
  <2>1. w.request = r /\ w.token = NoToken /\ w.family = NoToken
    BY DEF NewPassword, Writes
  <2>2. new.kind # "refresh" /\ new.phase = "executed"
    BY DEF Idle
  <2>3. /\ request[r].phase = "idle" /\ tx' = w /\ request' = [request EXCEPT ![r] = new]
        /\ UNCHANGED <<row, jar, tainted>>
    BY <1>3 DEF ResetPassword
  <2> HIDE DEF w, new
  <2> QED
    BY <2>1, <2>2, <2>3, AtOnceBrowser
<1> QED
  BY <1>2, <1>3

\* Managers, other devices and whoever has a copy of a token have no slot.
LEMMA OthersBrowser ==
    ASSUME Inv, Browser,
           \/ LoginElsewhere \/ LoginWrong
           \/ \E t \in Issued : RefreshElsewhere(t)
           \/ Deactivate \/ Activate \/ ManagerResetsPassword
    PROVE  Browser'
<1>1. PICK w : w.request = NoRequest /\ Execute(w)
  <2>1. CASE LoginElsewhere
    <3>1. PICK t \in Tokens :
             Execute([NewFamily(NoRequest, t) EXCEPT !.account = Unlocked(account)])
      BY <2>1 DEF LoginElsewhere
    <3>2. [NewFamily(NoRequest, t) EXCEPT !.account = Unlocked(account)].request = NoRequest
      BY DEF NewFamily, Writes
    <3> QED
      BY <3>1, <3>2
  <2>2. CASE LoginWrong
    <3>1. [Writes(NoRequest) EXCEPT !.account = RegisterFailure(account)].request = NoRequest
      BY DEF Writes
    <3> QED
      BY <2>2, <3>1 DEF LoginWrong
  <2>3. ASSUME NEW t \in Issued, RefreshElsewhere(t)
        PROVE  \E w : w.request = NoRequest /\ Execute(w)
    <3>1. ReuseWrites(NoRequest, t).request = NoRequest
      BY DEF ReuseWrites, Writes
    <3>2. \A new : RotationWrites(NoRequest, t, new).request = NoRequest
      BY DEF RotationWrites, Writes
    <3> QED
      BY <2>3, <3>1, <3>2 DEF RefreshElsewhere
  <2>4. CASE Deactivate
    <3>1. [Writes(NoRequest) EXCEPT !.account.active = FALSE, !.revokes = Live].request = NoRequest
      BY DEF Writes
    <3> QED
      BY <2>4, <3>1 DEF Deactivate
  <2>5. CASE Activate
    <3>1. [Writes(NoRequest) EXCEPT !.account.active = TRUE].request = NoRequest
      BY DEF Writes
    <3> QED
      BY <2>5, <3>1 DEF Activate
  <2>6. CASE ManagerResetsPassword
    <3>1. [NewPassword(Writes(NoRequest)) EXCEPT !.account = Unlocked(@)].request = NoRequest
      BY DEF NewPassword, Writes
    <3> QED
      BY <2>6, <3>1 DEF ManagerResetsPassword
  <2> QED
    BY <2>1, <2>2, <2>3, <2>4, <2>5, <2>6
<1> QED
  BY <1>1, ExecuteBrowser

LEMMA NothingBrowser ==
    ASSUME Browser, UNCHANGED <<row, tx, request, jar, tainted>>
    PROVE  Browser'
BY DEF Browser, JarIsFresh, RefreshesAreFresh, AnswersAreFresh, OwnRotation,
       HonestBrowserIsNotStruck, Strikes, Replaces, Brings, IsRefresh, Fresh, OpenFamily,
       OfFamily, Issued, Live

LEMMA InitBrowser == Init => Browser
<1>1. NoTx.open = FALSE
  BY NoTxType DEF NoTx
<1>2. Idle.phase = "idle" /\ Idle.kind = "none"
  BY DEF Idle
<1> QED
  BY <1>1, <1>2, NoTokenIsNoToken
     DEF Init, Browser, JarIsFresh, RefreshesAreFresh, AnswersAreFresh, OwnRotation,
         HonestBrowserIsNotStruck, Strikes, Brings, IsRefresh

LEMMA NextBrowser ==
    ASSUME Inv, Browser, [Next]_vars
    PROVE  Browser'
<1>1. CASE Commit \/ Abort
  BY <1>1, CommitBrowser, AbortBrowser
<1>2. CASE \/ LoginElsewhere \/ LoginWrong
           \/ \E t \in Issued : RefreshElsewhere(t)
           \/ Deactivate \/ Activate \/ ManagerResetsPassword
  BY <1>2, OthersBrowser
<1>3. CASE LockOutEnds \/ UNCHANGED vars
  BY <1>3, NothingBrowser DEF LockOutEnds, vars
<1>4. ASSUME NEW r \in Requests,
             \/ Login(r)
             \/ SendRefresh(r) \/ SendLogout(r) \/ SendChange(r)
             \/ Refresh(r) \/ Logout(r)
             \/ CheckSession(r) \/ ChangePassword(r) \/ GuessPassword(r)
             \/ ResetPassword(r)
             \/ Arrive(r) \/ Lose(r)
      PROVE  Browser'
  <2>1. CASE SendRefresh(r) \/ SendLogout(r) \/ SendChange(r)
    BY <2>1, SendBrowser DEF SendRefresh, SendLogout, SendChange
  <2> QED
    BY <1>4, <2>1, LoginBrowser, RefreshBrowser, LogoutBrowser, CheckSessionBrowser,
       ChangePasswordBrowser, GuessPasswordBrowser, ArriveBrowser, LoseBrowser
<1> QED
  BY <1>1, <1>2, <1>3, <1>4 DEF Next

\* Reuse is found in a request of the browser only if somebody else has refreshed
\* its family or an answer of it got lost: the browser's own refreshes, however
\* they overlap with everything else and in whatever order their answers arrive,
\* never sign it out.
THEOREM TheBrowserIsNotStruck == Spec => []HonestBrowserIsNotStruck
<1>1. Browser => HonestBrowserIsNotStruck
  BY DEF Browser
<1> QED
  BY <1>1, InitBrowser, NextBrowser, SpecInv, PTL DEF Spec
=============================================================================
