------------------------------ MODULE Sessions ------------------------------
(***************************************************************************)
(* endpoints/auth.py, db/redis.py, api/deps.py and the parts of            *)
(* endpoints/users.py that touch a session: one account, the logins and    *)
(* refreshes that run against it, the admins who edit or anonymise it, and *)
(* the whitelist of refresh tokens in Redis.                               *)
(*                                                                         *)
(* pin_login reads the account, then locks the row; SQLAlchemy answers the *)
(* locking SELECT with the object of the first read and writes only the    *)
(* columns that differ from it.  A Redis call that raises may have been    *)
(* executed or not.                                                        *)
(***************************************************************************)
EXTENDS Naturals

CONSTANTS
    Logins, Refreshes, Admins, \* requests that can run at a time
    MaxAttempts, \* _MAX_ATTEMPTS
    MaxSessions, \* bound on the sessions begun
    MaxTokens,   \* bound on the refresh tokens of a session
    MaxFaults,   \* bound on the calls that raise
    None         \* Python's None

ASSUME SessionConstants ==
    /\ {MaxAttempts, MaxSessions, MaxTokens} \subseteq Nat \ {0}
    /\ MaxFaults \in Nat
    /\ None \notin Logins \cup Refreshes \cup Admins \cup 1..MaxSessions
    /\ Logins \cap Refreshes = {} /\ Logins \cap Admins = {} /\ Refreshes \cap Admins = {}

Status == {"ACTIVE", "INACTIVE", "BANNED", "ANONYMIZED"}
Accounts == [status: Status, badge: BOOLEAN, failed: 0..MaxAttempts,
             locked: {"no", "running", "over"}]
Tokens == [session: 1..MaxSessions, nr: 1..MaxTokens]

LoginRows == [at: {"idle", "read", "locked", "issuing"}, loaded: 0..MaxAttempts, fresh: BOOLEAN]
RefreshRows == [at: {"idle", "consumed", "issuing"}, session: 1..MaxSessions \cup {None}]
AdminRows == [at: {"idle", "editing", "locked", "revoking"}, loaded: Accounts \cup {None},
              scan: SUBSET Tokens]

VARIABLES
    account, \* status, badge (is an NFC tag linked), failed, and locked: "over"
             \* while locked_until lies in the past
    holder,  \* the request that holds FOR UPDATE on the account
    login, refresh, admin, \* where each request is, and what it has read
    tokens,  \* the refresh tokens in Redis
    issued,  \* per session: refresh tokens made
    barred,  \* refreshes during which the account was never welcome
    faults

vars == <<account, holder, login, refresh, admin, tokens, issued, barred, faults>>

NoLogin == [at |-> "idle", loaded |-> 0, fresh |-> FALSE]
NoRefresh == [at |-> "idle", session |-> None]
NoAdmin == [at |-> "idle", loaded |-> None, scan |-> {}]

TypeOK ==
    /\ account \in Accounts
    /\ holder \in Logins \cup Admins \cup {None}
    /\ login \in [Logins -> LoginRows]
    /\ refresh \in [Refreshes -> RefreshRows]
    /\ admin \in [Admins -> AdminRows]
    /\ \A l \in Logins : login[l].at = "locked" <=> holder = l
    /\ \A m \in Admins : admin[m].at = "locked" <=> holder = m
    /\ \A m \in Admins : admin[m].at = "editing" => admin[m].loaded \in Accounts
    /\ \A r \in Refreshes : refresh[r].session = None <=> refresh[r].at = "idle"
    /\ tokens \in SUBSET Tokens
    /\ issued \in [1..MaxSessions -> 0..MaxTokens]
    /\ barred \in SUBSET Refreshes
    /\ faults \in 0..MaxFaults

Init ==
    /\ account = [status |-> "ACTIVE", badge |-> TRUE, failed |-> 0, locked |-> "no"]
    /\ holder = None
    /\ login = [l \in Logins |-> NoLogin]
    /\ refresh = [r \in Refreshes |-> NoRefresh]
    /\ admin = [m \in Admins |-> NoAdmin]
    /\ tokens = {}
    /\ issued = [s \in 1..MaxSessions |-> 0]
    /\ barred = {}
    /\ faults = 0

Fault == faults < MaxFaults /\ faults' = faults + 1

(* Who may go on: get_current_user and step 3 of a refresh.                *)
Welcome(a) == a.status = "ACTIVE" /\ a.locked # "running"

(* The row of the account is written; nobody is barred who sees it welcome.*)
Writes(a) == account' = a /\ barred' = IF Welcome(a) THEN {} ELSE barred

-----------------------------------------------------------------------------
(* Time, and the suspensions of the loan endpoints                         *)

LockoutPasses ==
    /\ account.locked = "running"
    /\ Writes([account EXCEPT !.locked = "over"])
    /\ UNCHANGED <<holder, login, refresh, admin, tokens, issued, faults>>

Suspended ==
    /\ holder = None
    /\ account.locked # "running"
    /\ Writes([account EXCEPT !.locked = "running"])
    /\ UNCHANGED <<holder, login, refresh, admin, tokens, issued, faults>>

-----------------------------------------------------------------------------
(* pin_login                                                               *)

(* Step 1, without a lock.  A lockout that is over is wiped in the object. *)
GetActiveUserByNfc(l) ==
    /\ login[l].at = "idle"
    /\ account.badge
    /\ Welcome(account)
    /\ login' = [login EXCEPT ![l] = [at |-> "read", loaded |-> account.failed,
                                      fresh |-> account.locked = "over"]]
    /\ UNCHANGED <<account, holder, refresh, admin, tokens, issued, barred, faults>>

(* Step 2.  The object is the one of step 1, so its checks see nothing new.*)
LockUser(l) ==
    /\ login[l].at = "read"
    /\ holder = None
    /\ holder' = l
    /\ login' = [login EXCEPT ![l].at = "locked"]
    /\ UNCHANGED <<account, refresh, admin, tokens, issued, barred, faults>>

(* NOWAIT: 409.  An object that was wiped is flushed first, and that waits.*)
AccountInUse(l) ==
    /\ login[l].at = "read"
    /\ holder # None
    /\ ~login[l].fresh
    /\ login' = [login EXCEPT ![l] = NoLogin]
    /\ UNCHANGED <<account, holder, refresh, admin, tokens, issued, barred, faults>>

(* The failed attempts the object of l shows.                              *)
Attempts(l) == IF login[l].fresh THEN 0 ELSE login[l].loaded

(* Its columns reach the row if they differ from what was loaded.          *)
Wiped(l) == [account EXCEPT !.locked = IF login[l].fresh THEN "no" ELSE @,
                            !.failed = IF login[l].fresh /\ login[l].loaded # 0 THEN 0 ELSE @]

(* Mutant: the transaction stays open.                                     *)
CommitKeepsLock(l) ==
    /\ login[l].at = "locked"
    /\ UNCHANGED holder

(* The transaction of l commits, and its lock is gone.                     *)
CommitLogin(l) ==
    /\ login[l].at = "locked"
    /\ holder' = None

(* One more failed attempt; the last one allowed locks the account.       *)
WrongPin(l) ==
    LET failed == IF Attempts(l) < MaxAttempts THEN Attempts(l) + 1 ELSE MaxAttempts
    IN  /\ CommitLogin(l)
        /\ Writes([Wiped(l) EXCEPT !.failed = failed,
                                   !.locked = IF failed = MaxAttempts THEN "running" ELSE @])
        /\ login' = [login EXCEPT ![l] = NoLogin]
        /\ UNCHANGED <<refresh, admin, tokens, issued, faults>>

RightPin(l) ==
    /\ CommitLogin(l)
    /\ Writes([Wiped(l) EXCEPT !.failed = IF Attempts(l) # 0 THEN 0 ELSE @])
    /\ login' = [login EXCEPT ![l] = [NoLogin EXCEPT !.at = "issuing"]]
    /\ UNCHANGED <<refresh, admin, tokens, issued, faults>>

(* An exception before the commit.                                         *)
LoginFails(l) ==
    /\ Fault
    /\ login[l].at = "locked"
    /\ holder' = None
    /\ login' = [login EXCEPT ![l] = NoLogin]
    /\ UNCHANGED <<account, refresh, admin, tokens, issued, barred>>

-----------------------------------------------------------------------------
(* Refresh tokens                                                          *)

Made(s) ==
    /\ issued[s] < MaxTokens
    /\ issued' = [issued EXCEPT ![s] = @ + 1]

NextToken(s) == [session |-> s, nr |-> issued[s] + 1]

(* create_and_store: SETEX of another token of the session.                *)
StoreRefreshToken(s) == Made(s) /\ tokens' = tokens \cup {NextToken(s)}

(* The sessions are numbered in the order they begin.                      *)
BeginSession ==
    \E s \in 1..MaxSessions :
        /\ \A other \in 1..MaxSessions : issued[other] = 0 <=> other >= s
        /\ StoreRefreshToken(s)

(* After the commit of the login.                                          *)
StoreFirst(l) ==
    /\ login[l].at = "issuing"
    /\ BeginSession
    /\ login' = [login EXCEPT ![l] = NoLogin]
    /\ UNCHANGED <<account, holder, refresh, admin, barred, faults>>

(* 503, whether the token is stored or not; the PIN has been counted.      *)
StoreFirstFails(l) ==
    /\ Fault
    /\ login[l].at = "issuing"
    /\ BeginSession \/ UNCHANGED <<tokens, issued>>
    /\ login' = [login EXCEPT ![l] = NoLogin]
    /\ UNCHANGED <<account, holder, refresh, admin, barred>>

(* Mutant: the old token is revoked when the new one has been stored.      *)
ConsumeLater(r, t) ==
    /\ refresh[r].at = "idle"
    /\ t \in tokens
    /\ UNCHANGED tokens
    /\ refresh' = [refresh EXCEPT ![r] = [at |-> "consumed", session |-> t.session]]
    /\ barred' = IF Welcome(account) THEN barred ELSE barred \cup {r}
    /\ UNCHANGED <<account, holder, login, admin, issued, faults>>

(* Step 2 of a refresh: one DELETE, which only one request sees succeed.   *)
ConsumeToken(r, t) ==
    /\ refresh[r].at = "idle"
    /\ t \in tokens
    /\ tokens' = tokens \ {t}
    /\ refresh' = [refresh EXCEPT ![r] = [at |-> "consumed", session |-> t.session]]
    /\ barred' = IF Welcome(account) THEN barred ELSE barred \cup {r}
    /\ UNCHANGED <<account, holder, login, admin, issued, faults>>

(* Mutant: any account that is not banned.                                 *)
FetchUnlessBanned(r) ==
    /\ refresh[r].at = "consumed"
    /\ refresh' = [refresh EXCEPT ![r] = IF account.status # "BANNED"
                                         THEN [@ EXCEPT !.at = "issuing"] ELSE NoRefresh]
    /\ barred' = IF account.status # "BANNED" THEN barred ELSE barred \ {r}
    /\ UNCHANGED <<account, holder, login, admin, tokens, issued, faults>>

(* Step 3: 401 unless the account is welcome now; the token is gone.       *)
FetchUser(r) ==
    /\ refresh[r].at = "consumed"
    /\ refresh' = [refresh EXCEPT ![r] = IF Welcome(account)
                                         THEN [@ EXCEPT !.at = "issuing"] ELSE NoRefresh]
    /\ barred' = IF Welcome(account) THEN barred ELSE barred \ {r}
    /\ UNCHANGED <<account, holder, login, admin, tokens, issued, faults>>

StoreNext(r) ==
    /\ refresh[r].at = "issuing"
    /\ StoreRefreshToken(refresh[r].session)
    /\ refresh' = [refresh EXCEPT ![r] = NoRefresh]
    /\ UNCHANGED <<account, holder, login, admin, barred, faults>>

(* 503: the client has lost its old token, and may not know the new one.   *)
StoreNextFails(r) ==
    /\ Fault
    /\ refresh[r].at = "issuing"
    /\ StoreRefreshToken(refresh[r].session) \/ UNCHANGED <<tokens, issued>>
    /\ refresh' = [refresh EXCEPT ![r] = NoRefresh]
    /\ UNCHANGED <<account, holder, login, admin, barred>>

(* A logout, a refresh whose DELETE raised after it was executed, a TTL.   *)
Logout(t) ==
    /\ t \in tokens
    /\ tokens' = tokens \ {t}
    /\ UNCHANGED <<account, holder, login, refresh, admin, issued, barred, faults>>

-----------------------------------------------------------------------------
(* update_user and update_user_nfc                                         *)

GetUser(m) ==
    /\ admin[m].at = "idle"
    /\ admin' = [admin EXCEPT ![m] = [NoAdmin EXCEPT !.at = "editing", !.loaded = account]]
    /\ UNCHANGED <<account, holder, login, refresh, tokens, issued, barred, faults>>

(* The columns of the row that differ from the object get the new value.   *)
Edited(loaded, new) ==
    LET Column(c) == IF new[c] = loaded[c] THEN account[c] ELSE new[c]
    IN  [status |-> Column("status"), badge |-> Column("badge"),
         failed |-> Column("failed"), locked |-> Column("locked")]

(* The UPDATE waits for a lock on the row.  Neither an anonymised account  *)
(* nor a session is looked at.  "unlock" resets the attempts and lockout.  *)
UpdateUser(m, status, badge, unlock) ==
    LET loaded == admin[m].loaded
        new == [status |-> IF status = None THEN loaded.status ELSE status,
                badge |-> IF badge = None THEN loaded.badge ELSE badge,
                failed |-> IF unlock THEN 0 ELSE loaded.failed,
                locked |-> IF unlock THEN "no" ELSE loaded.locked]
    IN  /\ admin[m].at = "editing"
        /\ holder = None
        /\ Writes(Edited(loaded, new))
        /\ admin' = [admin EXCEPT ![m] = NoAdmin]
        /\ UNCHANGED <<holder, login, refresh, tokens, issued, faults>>

-----------------------------------------------------------------------------
(* anonymize_user                                                          *)

LockForAnonymize(m) ==
    /\ admin[m].at = "idle"
    /\ holder = None
    /\ account.status # "ANONYMIZED"
    /\ holder' = m
    /\ admin' = [admin EXCEPT ![m] = [NoAdmin EXCEPT !.at = "locked"]]
    /\ UNCHANGED <<account, login, refresh, tokens, issued, barred, faults>>

(* Open loans, or a commit that fails: nothing has changed.                *)
AnonymizeRefused(m) ==
    /\ admin[m].at = "locked"
    /\ holder' = None
    /\ admin' = [admin EXCEPT ![m] = NoAdmin]
    /\ UNCHANGED <<account, login, refresh, tokens, issued, barred, faults>>

(* After the commit the whitelist is scanned.                              *)
AnonymizeUser(m) ==
    /\ admin[m].at = "locked"
    /\ holder' = None
    /\ Writes([status |-> "ANONYMIZED", badge |-> FALSE, failed |-> 0, locked |-> "no"])
    /\ admin' = [admin EXCEPT ![m] = [NoAdmin EXCEPT !.at = "revoking", !.scan = tokens]]
    /\ UNCHANGED <<login, refresh, tokens, issued, faults>>

(* What was there when the scan began is found; what comes later may be.   *)
RevokeSome(m, t) ==
    /\ admin[m].at = "revoking"
    /\ t \in tokens
    /\ tokens' = tokens \ {t}
    /\ UNCHANGED <<account, holder, login, refresh, admin, issued, barred, faults>>

RevokeEnds(m) ==
    /\ admin[m].at = "revoking"
    /\ \/ admin[m].scan \cap tokens = {} /\ UNCHANGED faults
       \/ Fault
    /\ admin' = [admin EXCEPT ![m] = NoAdmin]
    /\ UNCHANGED <<account, holder, login, refresh, tokens, issued, barred>>

-----------------------------------------------------------------------------
PinLogin(l) ==
    \/ GetActiveUserByNfc(l)
    \/ LockUser(l)
    \/ AccountInUse(l)
    \/ WrongPin(l)
    \/ RightPin(l)
    \/ LoginFails(l)
    \/ StoreFirst(l)
    \/ StoreFirstFails(l)

RefreshAccessToken(r) ==
    \/ \E t \in tokens : ConsumeToken(r, t)
    \/ FetchUser(r)
    \/ StoreNext(r)
    \/ StoreNextFails(r)

Administration(m) ==
    \/ GetUser(m)
    \/ \E status \in (Status \ {"ANONYMIZED"}) \cup {None}, badge \in BOOLEAN \cup {None} :
           \E unlock \in BOOLEAN : UpdateUser(m, status, badge, unlock)
    \/ LockForAnonymize(m)
    \/ AnonymizeRefused(m)
    \/ AnonymizeUser(m)
    \/ \E t \in tokens : RevokeSome(m, t)
    \/ RevokeEnds(m)

Next ==
    \/ \E l \in Logins : PinLogin(l)
    \/ \E r \in Refreshes : RefreshAccessToken(r)
    \/ \E m \in Admins : Administration(m)
    \/ \E t \in tokens : Logout(t)
    \/ LockoutPasses
    \/ Suspended

Spec == Init /\ [][Next]_vars

-----------------------------------------------------------------------------
(* Properties                                                              *)

(* However often a token is presented and whatever raises, a session never *)
(* has two refresh tokens, or one and a request about to make another: two *)
(* refreshes with one token cannot split a session in two.                 *)
OneTokenPerSession ==
    /\ \A t, u \in tokens : t.session = u.session => t = u
    /\ \A q, r \in Refreshes :
           refresh[q].session = refresh[r].session /\ refresh[r] # NoRefresh => q = r
    /\ \A t \in tokens, r \in Refreshes : refresh[r].session # t.session

(* No new token for an account that has been locked out or inactive ever   *)
(* since the request began: the account is read after the old token has    *)
(* been consumed, and a token that was made before a ban says nothing.     *)
RefreshedWhileWelcome ==
    \A r \in Refreshes : refresh[r].at = "issuing" => r \notin barred

=============================================================================
