--------------------------- MODULE SessionsProofs ---------------------------
(***************************************************************************)
(* Proofs about Sessions, for any number of requests, attempts, sessions,  *)
(* tokens and faults.                                                      *)
(***************************************************************************)
EXTENDS Sessions, TLAPS

-----------------------------------------------------------------------------
(* Types, one kind of request after another.                               *)

LEMMA InitTyped == Init => TypeOK
<1> SUFFICES ASSUME Init PROVE TypeOK
  OBVIOUS
<1> USE SessionConstants DEF Init
<1>1. NoLogin \in LoginRows /\ NoLogin.at = "idle"
  BY DEF NoLogin, LoginRows
<1>2. NoRefresh \in RefreshRows /\ NoRefresh.at = "idle" /\ NoRefresh.session = None
  BY DEF NoRefresh, RefreshRows
<1>3. NoAdmin \in AdminRows /\ NoAdmin.at = "idle"
  BY DEF NoAdmin, AdminRows
<1>4. account \in Accounts
  BY DEF Accounts, Status
<1>5. login \in [Logins -> LoginRows] /\ \A l \in Logins : login[l] = NoLogin
  BY <1>1
<1>6. refresh \in [Refreshes -> RefreshRows] /\ \A r \in Refreshes : refresh[r] = NoRefresh
  BY <1>2
<1>7. admin \in [Admins -> AdminRows] /\ \A m \in Admins : admin[m] = NoAdmin
  BY <1>3
<1>8. issued \in [1..MaxSessions -> 0..MaxTokens]
  OBVIOUS
<1>9. faults \in 0..MaxFaults
  OBVIOUS
<1> QED
  BY <1>1, <1>2, <1>3, <1>4, <1>5, <1>6, <1>7, <1>8, <1>9 DEF TypeOK

LEMMA FaultType == TypeOK /\ Fault => faults' \in 0..MaxFaults
<1> SUFFICES ASSUME TypeOK, Fault PROVE faults' \in 0..MaxFaults
  OBVIOUS
<1>1. faults \in 0..MaxFaults
  BY DEF TypeOK
<1>2. faults < MaxFaults /\ faults' = faults + 1
  BY DEF Fault
<1> QED
  BY <1>1, <1>2, SessionConstants

(* The request that changes leaves the others alone; only who is "locked"  *)
(* holds the account.                                                      *)
LEMMA LoginMoves ==
    ASSUME TypeOK, NEW l \in Logins, NEW row \in LoginRows, login' = [login EXCEPT ![l] = row],
           row.at = "locked" <=> holder' = l,
           holder' = holder \/ {holder, holder'} \subseteq {l, None},
           admin' = admin
    PROVE  /\ holder' \in Logins \cup Admins \cup {None}
           /\ login' \in [Logins -> LoginRows]
           /\ \A k \in Logins : login'[k].at = "locked" <=> holder' = k
           /\ \A m \in Admins : admin'[m].at = "locked" <=> holder' = m
<1>1. /\ login'[l] = row
      /\ \A k \in Logins \ {l} : login'[k] = login[k]
  BY DEF TypeOK
<1>2. login' \in [Logins -> LoginRows] /\ holder' \in Logins \cup Admins \cup {None}
  BY DEF TypeOK
<1>3. \A k \in Logins : login'[k].at = "locked" <=> holder' = k
  BY <1>1, SessionConstants DEF TypeOK
<1>4. \A m \in Admins : admin'[m].at = "locked" <=> holder' = m
  BY SessionConstants DEF TypeOK
<1> QED
  BY <1>2, <1>3, <1>4

LEMMA AdminMoves ==
    ASSUME TypeOK, NEW m \in Admins, NEW row \in AdminRows, admin' = [admin EXCEPT ![m] = row],
           row.at = "locked" <=> holder' = m,
           row.at = "editing" => row.loaded \in Accounts,
           holder' = holder \/ {holder, holder'} \subseteq {m, None},
           login' = login
    PROVE  /\ holder' \in Logins \cup Admins \cup {None}
           /\ admin' \in [Admins -> AdminRows]
           /\ \A k \in Logins : login'[k].at = "locked" <=> holder' = k
           /\ \A n \in Admins : admin'[n].at = "locked" <=> holder' = n
           /\ \A n \in Admins : admin'[n].at = "editing" => admin'[n].loaded \in Accounts
<1>1. /\ admin'[m] = row
      /\ \A n \in Admins \ {m} : admin'[n] = admin[n]
  BY DEF TypeOK
<1>2. admin' \in [Admins -> AdminRows] /\ holder' \in Logins \cup Admins \cup {None}
  BY DEF TypeOK
<1>3. \A n \in Admins : admin'[n].at = "locked" <=> holder' = n
  BY <1>1, SessionConstants DEF TypeOK
<1>4. \A k \in Logins : login'[k].at = "locked" <=> holder' = k
  BY SessionConstants DEF TypeOK
<1>5. \A n \in Admins : admin'[n].at = "editing" => admin'[n].loaded \in Accounts
  BY <1>1 DEF TypeOK
<1> QED
  BY <1>2, <1>3, <1>4, <1>5

LEMMA WritesType ==
    ASSUME TypeOK, NEW a \in Accounts, Writes(a)
    PROVE  account' \in Accounts /\ barred' \in SUBSET Refreshes
BY DEF Writes, TypeOK

(* The token a session is given next is a token, and it is counted.        *)
LEMMA StoreType ==
    ASSUME TypeOK, NEW s \in 1..MaxSessions, StoreRefreshToken(s)
    PROVE  /\ NextToken(s) \in Tokens /\ tokens' \in SUBSET Tokens
           /\ issued' \in [1..MaxSessions -> 0..MaxTokens]
           /\ issued'[s] = issued[s] + 1
           /\ \A other \in (1..MaxSessions) \ {s} : issued'[other] = issued[other]
<1>1. issued[s] \in 0..MaxTokens /\ issued[s] < MaxTokens
  BY DEF TypeOK, StoreRefreshToken, Made
<1>2. issued[s] + 1 \in 1..MaxTokens
  BY <1>1, SessionConstants
<1>3. NextToken(s) \in Tokens
  BY <1>2 DEF NextToken, Tokens
<1>4. issued' = [issued EXCEPT ![s] = issued[s] + 1]
  BY DEF StoreRefreshToken, Made
<1>5. issued' \in [1..MaxSessions -> 0..MaxTokens]
  <2>1. issued[s] + 1 \in 0..MaxTokens
    BY <1>2
  <2> QED BY <1>4, <2>1 DEF TypeOK
<1>6. tokens' \in SUBSET Tokens
  BY <1>3 DEF StoreRefreshToken, TypeOK
<1> QED
  BY <1>3, <1>4, <1>5, <1>6 DEF TypeOK

(* What the object of a login shows, and what it leaves in the row.        *)
LEMMA WipedType ==
    ASSUME TypeOK, NEW l \in Logins
    PROVE  Attempts(l) \in 0..MaxAttempts /\ Wiped(l) \in Accounts
<1>1. login[l] \in LoginRows /\ account \in Accounts /\ 0 \in 0..MaxAttempts
  BY SessionConstants DEF TypeOK
<1>2. Attempts(l) \in 0..MaxAttempts
  BY <1>1 DEF Attempts, LoginRows
<1>3. Wiped(l) \in Accounts
  BY <1>1 DEF Wiped, Accounts
<1> QED
  BY <1>2, <1>3

LEMMA LoginTyped == ASSUME TypeOK, NEW l \in Logins, PinLogin(l) PROVE TypeOK'
<1>1. /\ login[l] \in LoginRows /\ NoLogin \in LoginRows /\ NoLogin.at = "idle"
      /\ account \in Accounts /\ holder # None => holder \in Logins \cup Admins
      /\ login[l].at = "locked" <=> holder = l
  BY SessionConstants DEF TypeOK, NoLogin, LoginRows
<1>2. ASSUME NEW row \in LoginRows, login' = [login EXCEPT ![l] = row],
             row.at = "locked" <=> holder' = l,
             holder' = holder \/ {holder, holder'} \subseteq {l, None},
             UNCHANGED <<refresh, admin>>, account' \in Accounts, tokens' \in SUBSET Tokens,
             issued' \in [1..MaxSessions -> 0..MaxTokens],
             barred' \in SUBSET Refreshes, faults' \in 0..MaxFaults
      PROVE  TypeOK'
  BY <1>2, LoginMoves DEF TypeOK
<1>2a. ASSUME UNCHANGED <<refresh, admin>>, NEW row \in LoginRows,
              login' = [login EXCEPT ![l] = row],
              row.at = "locked" <=> holder' = l,
              holder' = holder \/ {holder, holder'} \subseteq {l, None},
              account' = account, barred' = barred, tokens' \in SUBSET Tokens,
              issued' \in [1..MaxSessions -> 0..MaxTokens], faults' \in 0..MaxFaults
       PROVE  TypeOK'
  <2>1. barred' \in SUBSET Refreshes
        /\ account' \in Accounts
    BY <1>2a DEF TypeOK
  <2> QED BY <1>2, <1>2a, <2>1
<1>3. /\ tokens \in SUBSET Tokens /\ issued \in [1..MaxSessions -> 0..MaxTokens]
      /\ barred \in SUBSET Refreshes
      /\ faults \in 0..MaxFaults
  BY DEF TypeOK
<1>4. CASE GetActiveUserByNfc(l)
  <2> DEFINE fresh == account.locked = "over"
             row == [at |-> "read", loaded |-> account.failed, fresh |-> fresh]
  <2>1. row \in LoginRows /\ row.at = "read"
    <3>1. fresh \in BOOLEAN
      OBVIOUS
    <3>2. account.failed \in 0..MaxAttempts
      <4>1. account \in Accounts
        BY DEF TypeOK
      <4> QED BY <4>1 DEF Accounts
    <3> HIDE DEF fresh
    <3> QED BY <3>1, <3>2 DEF LoginRows
  <2>2. login' = [login EXCEPT ![l] = row] /\ holder' = holder /\ holder # l
    BY <1>1, <1>4 DEF GetActiveUserByNfc
  <2> HIDE DEF row
  <2>9. UNCHANGED <<account, refresh, admin, barred>>
    BY <1>4 DEF GetActiveUserByNfc
  <2> QED BY <1>1, <1>2a, <1>3, <1>4, <2>1, <2>2, <2>9 DEF GetActiveUserByNfc
<1>5. CASE LockUser(l)
  <2> DEFINE row == [login[l] EXCEPT !.at = "locked"]
  <2>1. row \in LoginRows /\ row.at = "locked"
    BY <1>1 DEF LoginRows
  <2>2. login' = [login EXCEPT ![l] = row] /\ holder = None /\ holder' = l
    BY <1>5 DEF LockUser, TypeOK
  <2> HIDE DEF row
  <2>9. UNCHANGED <<account, refresh, admin, barred>>
    BY <1>5 DEF LockUser
  <2> QED BY <1>1, <1>2a, <1>3, <1>5, <2>1, <2>2, <2>9 DEF LockUser
<1>6. CASE AccountInUse(l)
  <2>1. holder # l
    BY <1>1, <1>6 DEF AccountInUse
  <2>9. UNCHANGED <<account, refresh, admin, barred>>
    BY <1>6 DEF AccountInUse
  <2> QED BY <1>1, <1>2a, <1>3, <1>6, <2>1, <2>9 DEF AccountInUse
<1>7. ASSUME CommitLogin(l) PROVE holder = l /\ holder' = None /\ l # None
  BY <1>1, <1>7, SessionConstants DEF CommitLogin
<1>8. CASE WrongPin(l)
  <2> DEFINE failed == IF Attempts(l) < MaxAttempts THEN Attempts(l) + 1 ELSE MaxAttempts
             a == [Wiped(l) EXCEPT !.failed = failed,
                                   !.locked = IF failed = MaxAttempts THEN "running" ELSE @]
  <2>1. failed \in 0..MaxAttempts
    BY WipedType, SessionConstants
  <2>3. CommitLogin(l) /\ Writes(a)
    BY <1>8 DEF WrongPin
  <2>4. a \in Accounts
    <3> HIDE DEF failed
    <3> QED BY <2>1, WipedType DEF Accounts
  <2> HIDE DEF a
  <2>5. account' \in Accounts /\ barred' \in SUBSET Refreshes
    BY <2>3, <2>4, WritesType
  <2> QED BY <1>1, <1>2, <1>3, <1>7, <1>8, <2>3, <2>5 DEF WrongPin
<1>9. CASE RightPin(l)
  <2> DEFINE a == [Wiped(l) EXCEPT !.failed = IF Attempts(l) # 0 THEN 0 ELSE @]
             row == [NoLogin EXCEPT !.at = "issuing"]
  <2>1. row \in LoginRows /\ row.at = "issuing" /\ 0 \in 0..MaxAttempts
    BY <1>1, SessionConstants DEF LoginRows
  <2>2. CommitLogin(l) /\ Writes(a) /\ login' = [login EXCEPT ![l] = row]
    BY <1>9 DEF RightPin
  <2>3. a \in Accounts
    BY <2>1, WipedType DEF Accounts
  <2> HIDE DEF a, row
  <2>4. account' \in Accounts /\ barred' \in SUBSET Refreshes
    BY <2>2, <2>3, WritesType
  <2> QED BY <1>1, <1>2, <1>3, <1>7, <1>9, <2>1, <2>2, <2>4 DEF RightPin
<1>10. CASE LoginFails(l)
  <2>1. holder = l /\ holder' = None /\ l # None /\ faults' \in 0..MaxFaults
    BY <1>1, <1>10, FaultType, SessionConstants DEF LoginFails
  <2>9. UNCHANGED <<account, refresh, admin, barred>>
    BY <1>10 DEF LoginFails
  <2> QED BY <1>1, <1>2a, <1>3, <1>10, <2>1, <2>9 DEF LoginFails
<1>11. ASSUME BeginSession
       PROVE  tokens' \in SUBSET Tokens /\ issued' \in [1..MaxSessions -> 0..MaxTokens]
  BY <1>11, StoreType DEF BeginSession
<1>12. CASE StoreFirst(l)
  <2>1. holder # l
    BY <1>1, <1>12 DEF StoreFirst
  <2>9. UNCHANGED <<account, refresh, admin, barred>>
    BY <1>12 DEF StoreFirst
  <2> QED BY <1>1, <1>2a, <1>3, <1>11, <1>12, <2>1, <2>9 DEF StoreFirst
<1>13. CASE StoreFirstFails(l)
  <2>1. holder # l /\ faults' \in 0..MaxFaults
    BY <1>1, <1>13, FaultType DEF StoreFirstFails
  <2>2. tokens' \in SUBSET Tokens /\ issued' \in [1..MaxSessions -> 0..MaxTokens]
    BY <1>3, <1>11, <1>13 DEF StoreFirstFails
  <2>9. UNCHANGED <<account, refresh, admin, barred>>
    BY <1>13 DEF StoreFirstFails
  <2> QED BY <1>1, <1>2a, <1>3, <1>13, <2>1, <2>2, <2>9 DEF StoreFirstFails
<1> QED
  BY <1>4, <1>5, <1>6, <1>8, <1>9, <1>10, <1>12, <1>13 DEF PinLogin

LEMMA RefreshTyped == ASSUME TypeOK, NEW r \in Refreshes, RefreshAccessToken(r) PROVE TypeOK'
<1>1. /\ refresh[r] \in RefreshRows /\ NoRefresh \in RefreshRows
      /\ NoRefresh.at = "idle" /\ NoRefresh.session = None
      /\ refresh[r].session = None <=> refresh[r].at = "idle"
  BY DEF TypeOK, NoRefresh, RefreshRows
<1>2. ASSUME NEW row \in RefreshRows, refresh' = [refresh EXCEPT ![r] = row],
             row.session = None <=> row.at = "idle",
             UNCHANGED <<account, holder, login, admin>>,
             tokens' \in SUBSET Tokens, issued' \in [1..MaxSessions -> 0..MaxTokens],
             barred' \in SUBSET Refreshes, faults' \in 0..MaxFaults
      PROVE  TypeOK'
  <2>1. /\ refresh' \in [Refreshes -> RefreshRows]
        /\ \A q \in Refreshes : refresh'[q].session = None <=> refresh'[q].at = "idle"
    BY <1>2 DEF TypeOK
  <2> QED BY <1>2, <2>1 DEF TypeOK
<1>3. /\ tokens \in SUBSET Tokens /\ issued \in [1..MaxSessions -> 0..MaxTokens]
      /\ barred \in SUBSET Refreshes /\ faults \in 0..MaxFaults
  BY DEF TypeOK
<1>4. ASSUME NEW t \in tokens, ConsumeToken(r, t) PROVE TypeOK'
  <2> DEFINE row == [at |-> "consumed", session |-> t.session]
  <2>1. row \in RefreshRows /\ row.at # "idle" /\ row.session # None
    BY <1>3, SessionConstants DEF Tokens, RefreshRows
  <2>2. refresh' = [refresh EXCEPT ![r] = row] /\ tokens' \in SUBSET Tokens
    BY <1>3, <1>4 DEF ConsumeToken
  <2>3. /\ UNCHANGED <<account, holder, login, admin, issued, faults>>
        /\ barred' \in SUBSET Refreshes
    BY <1>3, <1>4 DEF ConsumeToken
  <2> HIDE DEF row
  <2> QED BY <1>2, <1>3, <2>1, <2>2, <2>3
<1>5. CASE FetchUser(r)
  <2> DEFINE row == IF Welcome(account) THEN [refresh[r] EXCEPT !.at = "issuing"] ELSE NoRefresh
  <2>1. row \in RefreshRows /\ (row.session = None <=> row.at = "idle")
    BY <1>1, <1>5 DEF RefreshRows, FetchUser
  <2>2. refresh' = [refresh EXCEPT ![r] = row] /\ barred' \in SUBSET Refreshes
    BY <1>3, <1>5 DEF FetchUser
  <2>3. UNCHANGED <<account, holder, login, admin, tokens, issued, faults>>
    BY <1>5 DEF FetchUser
  <2> HIDE DEF row
  <2> QED BY <1>2, <1>3, <2>1, <2>2, <2>3
<1>6. ASSUME refresh[r].at = "issuing", StoreRefreshToken(refresh[r].session) \/ UNCHANGED <<tokens, issued>>,
             refresh' = [refresh EXCEPT ![r] = NoRefresh],
             UNCHANGED <<account, holder, login, admin, barred>>,
             faults' \in 0..MaxFaults
      PROVE  TypeOK'
  <2>1. ASSUME StoreRefreshToken(refresh[r].session)
        PROVE  tokens' \in SUBSET Tokens /\ issued' \in [1..MaxSessions -> 0..MaxTokens]
    <3>1. refresh[r].session \in 1..MaxSessions
      BY <1>1, <1>6 DEF RefreshRows
    <3> QED BY <2>1, <3>1, StoreType
  <2> QED BY <1>1, <1>2, <1>3, <1>6, <2>1
<1>7. CASE StoreNext(r)
  BY <1>3, <1>6, <1>7 DEF StoreNext
<1>8. CASE StoreNextFails(r)
  BY <1>6, <1>8, FaultType DEF StoreNextFails
<1> QED
  BY <1>4, <1>5, <1>7, <1>8 DEF RefreshAccessToken

(* The row an edit leaves is an account.                                   *)
LEMMA EditedType ==
    ASSUME TypeOK, NEW loaded \in Accounts, NEW new \in Accounts
    PROVE  Edited(loaded, new) \in Accounts
<1>1. account \in Accounts
  BY DEF TypeOK
<1> QED
  BY <1>1 DEF Edited, Accounts

LEMMA AdminTyped == ASSUME TypeOK, NEW m \in Admins, Administration(m) PROVE TypeOK'
<1>1. /\ admin[m] \in AdminRows /\ NoAdmin \in AdminRows /\ NoAdmin.at = "idle"
      /\ account \in Accounts
      /\ admin[m].at = "locked" <=> holder = m
      /\ m # None /\ 0 \in 0..MaxAttempts
      /\ admin[m].at = "editing" => admin[m].loaded \in Accounts
  BY SessionConstants DEF TypeOK, NoAdmin, AdminRows
<1>2. /\ tokens \in SUBSET Tokens /\ barred \in SUBSET Refreshes /\ faults \in 0..MaxFaults
  BY DEF TypeOK
<1>3. ASSUME NEW row \in AdminRows, admin' = [admin EXCEPT ![m] = row],
             row.at = "locked" <=> holder' = m,
             row.at = "editing" => row.loaded \in Accounts,
             holder' = holder \/ {holder, holder'} \subseteq {m, None},
             UNCHANGED <<login, refresh, issued>>, account' \in Accounts,
             tokens' \in SUBSET Tokens,
             barred' \in SUBSET Refreshes, faults' \in 0..MaxFaults
      PROVE  TypeOK'
  BY <1>3, AdminMoves DEF TypeOK
<1>4. CASE GetUser(m)
  <2> DEFINE row == [NoAdmin EXCEPT !.at = "editing", !.loaded = account]
  <2>1. row \in AdminRows /\ row.at = "editing" /\ row.loaded \in Accounts
    BY <1>1 DEF AdminRows, NoAdmin
  <2>2. /\ admin' = [admin EXCEPT ![m] = row] /\ holder' = holder /\ holder # m
        /\ UNCHANGED <<account, login, refresh, tokens, issued, barred, faults>>
    BY <1>1, <1>4 DEF GetUser
  <2> HIDE DEF row
  <2> QED BY <1>1, <1>2, <1>3, <2>1, <2>2
<1>5. ASSUME NEW status \in (Status \ {"ANONYMIZED"}) \cup {None},
             NEW badge \in BOOLEAN \cup {None}, NEW unlock \in BOOLEAN,
             UpdateUser(m, status, badge, unlock)
      PROVE  TypeOK'
  <2> DEFINE loaded == admin[m].loaded
             new == [status |-> IF status = None THEN loaded.status ELSE status,
                     badge |-> IF badge = None THEN loaded.badge ELSE badge,
                     failed |-> IF unlock THEN 0 ELSE loaded.failed,
                     locked |-> IF unlock THEN "no" ELSE loaded.locked]
  <2>1. loaded \in Accounts /\ holder # m
    BY <1>1, <1>5 DEF UpdateUser
  <2>2. new \in Accounts
    <3>1. (IF status = None THEN loaded.status ELSE status) \in Status
      BY <2>1 DEF Accounts
    <3>2. (IF badge = None THEN loaded.badge ELSE badge) \in BOOLEAN
      BY <2>1 DEF Accounts
    <3>3. (IF unlock THEN 0 ELSE loaded.failed) \in 0..MaxAttempts
      BY <1>1, <2>1 DEF Accounts
    <3>4. (IF unlock THEN "no" ELSE loaded.locked) \in {"no", "running", "over"}
      BY <2>1 DEF Accounts
    <3> HIDE DEF loaded
    <3> QED BY <3>1, <3>2, <3>3, <3>4 DEF Accounts
  <2>3. /\ Writes(Edited(loaded, new))
        /\ admin' = [admin EXCEPT ![m] = NoAdmin]
        /\ UNCHANGED <<holder, login, refresh, tokens, issued, faults>>
    BY <1>5 DEF UpdateUser
  <2> HIDE DEF loaded, new
  <2>4. account' \in Accounts /\ barred' \in SUBSET Refreshes
    BY <2>1, <2>2, <2>3, EditedType, WritesType
  <2> QED BY <1>1, <1>2, <1>3, <2>1, <2>3, <2>4
<1>6. CASE LockForAnonymize(m)
  <2> DEFINE row == [NoAdmin EXCEPT !.at = "locked"]
  <2>1. row \in AdminRows /\ row.at = "locked"
    BY <1>1 DEF AdminRows, NoAdmin
  <2>2. /\ admin' = [admin EXCEPT ![m] = row] /\ holder' = m /\ holder = None
        /\ UNCHANGED <<account, login, refresh, tokens, issued, barred, faults>>
    BY <1>6 DEF LockForAnonymize
  <2> HIDE DEF row
  <2> QED BY <1>1, <1>2, <1>3, <2>1, <2>2
<1>7. CASE AnonymizeRefused(m)
  <2>1. /\ admin' = [admin EXCEPT ![m] = NoAdmin] /\ holder' = None /\ holder = m
        /\ UNCHANGED <<account, login, refresh, tokens, issued, barred, faults>>
    BY <1>1, <1>7 DEF AnonymizeRefused
  <2> QED BY <1>1, <1>2, <1>3, <2>1
<1>8. CASE AnonymizeUser(m)
  <2> DEFINE row == [NoAdmin EXCEPT !.at = "revoking", !.scan = tokens]
             a == [status |-> "ANONYMIZED", badge |-> FALSE, failed |-> 0, locked |-> "no"]
  <2>1. row \in AdminRows /\ row.at = "revoking"
    BY <1>1, <1>2 DEF AdminRows, NoAdmin
  <2>2. a \in Accounts
    BY <1>1 DEF Accounts, Status
  <2>3. /\ admin' = [admin EXCEPT ![m] = row] /\ holder' = None /\ holder = m
        /\ Writes(a)
        /\ UNCHANGED <<login, refresh, tokens, issued, faults>>
    BY <1>1, <1>8 DEF AnonymizeUser
  <2> HIDE DEF row, a
  <2>4. account' \in Accounts /\ barred' \in SUBSET Refreshes
    BY <2>2, <2>3, WritesType
  <2> QED BY <1>1, <1>2, <1>3, <2>1, <2>3, <2>4
<1>9. ASSUME NEW t \in tokens, RevokeSome(m, t) PROVE TypeOK'
  <2>1. /\ tokens' \in SUBSET Tokens
        /\ UNCHANGED <<account, holder, login, refresh, admin, issued, barred, faults>>
    BY <1>2, <1>9 DEF RevokeSome
  <2> QED BY <2>1 DEF TypeOK
<1>10. CASE RevokeEnds(m)
  <2>1. /\ admin' = [admin EXCEPT ![m] = NoAdmin] /\ holder' = holder /\ holder # m
        /\ UNCHANGED <<account, login, refresh, tokens, issued, barred>>
    BY <1>1, <1>10 DEF RevokeEnds
  <2>2. faults' \in 0..MaxFaults
    BY <1>2, <1>10, FaultType DEF RevokeEnds
  <2> QED BY <1>1, <1>2, <1>3, <2>1, <2>2
<1> QED
  BY <1>4, <1>5, <1>6, <1>7, <1>8, <1>9, <1>10 DEF Administration

LEMMA TypeStep == TypeOK /\ [Next]_vars => TypeOK'
<1> SUFFICES ASSUME TypeOK, [Next]_vars PROVE TypeOK'
  OBVIOUS
<1>1. CASE UNCHANGED vars
  BY <1>1 DEF vars, TypeOK
<1>2. ASSUME NEW t \in tokens, Logout(t) PROVE TypeOK'
  <2>1. /\ tokens' \in SUBSET Tokens
        /\ UNCHANGED <<account, holder, login, refresh, admin, issued, barred, faults>>
    BY <1>2 DEF Logout, TypeOK
  <2> QED BY <2>1 DEF TypeOK
<1>3. CASE LockoutPasses \/ Suspended
  <2>1. \E status \in {"over", "running"} : Writes([account EXCEPT !.locked = status])
    BY <1>3 DEF LockoutPasses, Suspended
  <2>2. \A status \in {"over", "running"} : [account EXCEPT !.locked = status] \in Accounts
    BY DEF TypeOK, Accounts
  <2>3. account' \in Accounts /\ barred' \in SUBSET Refreshes
    BY <2>1, <2>2, WritesType
  <2>4. UNCHANGED <<holder, login, refresh, admin, tokens, issued, faults>>
    BY <1>3 DEF LockoutPasses, Suspended
  <2> QED BY <2>3, <2>4 DEF TypeOK
<1> QED
  BY <1>1, <1>2, <1>3, LoginTyped, RefreshTyped, AdminTyped DEF Next

-----------------------------------------------------------------------------
(* One token per session.                                                  *)

(* A session with a token, or with a request about to make one, has begun. *)
BegunInv ==
    /\ \A t \in tokens : issued[t.session] # 0
    /\ \A r \in Refreshes : refresh[r].session # None => issued[refresh[r].session] # 0

TokenInv == BegunInv /\ OneTokenPerSession

(* Tokens and refreshes may go.                                            *)
LEMMA TokensGo ==
    ASSUME TokenInv, tokens' \subseteq tokens, UNCHANGED <<refresh, issued>>
    PROVE  TokenInv'
BY DEF TokenInv, BegunInv, OneTokenPerSession

LEMMA SessionBegins ==
    ASSUME TypeOK, TokenInv, BeginSession, UNCHANGED refresh
    PROVE  TokenInv'
<1>1. PICK s \in 1..MaxSessions :
          issued[s] = 0 /\ StoreRefreshToken(s)
  BY DEF BeginSession
<1>2. /\ issued'[s] = issued[s] + 1
      /\ \A other \in (1..MaxSessions) \ {s} : issued'[other] = issued[other]
      /\ tokens \subseteq Tokens
  BY <1>1, StoreType DEF TypeOK
<1>3. tokens' = tokens \cup {NextToken(s)} /\ NextToken(s).session = s
  BY <1>1 DEF StoreRefreshToken, NextToken
<1>4. issued'[s] # 0
  BY <1>1, <1>2
<1>5. \A t \in tokens : t.session \in 1..MaxSessions /\ t.session # s
  BY <1>1, <1>2 DEF TokenInv, BegunInv, Tokens
<1>6. \A r \in Refreshes :
          refresh[r].session # s /\ refresh[r].session \in 1..MaxSessions \cup {None}
  BY <1>1, SessionConstants DEF TokenInv, BegunInv, TypeOK, RefreshRows
<1>7. BegunInv'
  BY <1>2, <1>3, <1>4, <1>5, <1>6 DEF TokenInv, BegunInv
<1>8. OneTokenPerSession'
  <2> HIDE DEF NextToken
  <2> QED BY <1>3, <1>5, <1>6 DEF TokenInv, OneTokenPerSession
<1> QED
  BY <1>7, <1>8 DEF TokenInv

(* The row of one refresh.                                                 *)
LEMMA RefreshMoves ==
    ASSUME TypeOK, NEW r \in Refreshes, NEW row, refresh' = [refresh EXCEPT ![r] = row]
    PROVE  refresh'[r] = row /\ \A q \in Refreshes \ {r} : refresh'[q] = refresh[q]
BY DEF TypeOK

LEMMA TokenConsumed ==
    ASSUME TypeOK, TokenInv, NEW r \in Refreshes, NEW t \in tokens, ConsumeToken(r, t)
    PROVE  TokenInv'
<1> DEFINE row == [at |-> "consumed", session |-> t.session]
<1>1. /\ refresh' = [refresh EXCEPT ![r] = row] /\ tokens' = tokens \ {t} /\ issued' = issued
      /\ row.session = t.session
  BY DEF ConsumeToken
<1> HIDE DEF row
<1>2. refresh'[r] = row /\ \A q \in Refreshes \ {r} : refresh'[q] = refresh[q]
  BY <1>1, RefreshMoves
<1>3. \A q \in Refreshes : refresh[q].session # t.session
  BY DEF TokenInv, OneTokenPerSession
<1>4. \A u \in tokens' : u.session # t.session
  BY <1>1 DEF TokenInv, OneTokenPerSession
<1>5. BegunInv'
  BY <1>1, <1>2 DEF TokenInv, BegunInv
<1>6. \A p, q \in Refreshes :
          refresh'[p].session = refresh'[q].session /\ refresh'[p] # NoRefresh => p = q
  BY <1>1, <1>2, <1>3 DEF TokenInv, OneTokenPerSession
<1>7. \A u \in tokens', q \in Refreshes : refresh'[q].session # u.session
  BY <1>1, <1>2, <1>4 DEF TokenInv, OneTokenPerSession
<1> QED
  BY <1>1, <1>5, <1>6, <1>7 DEF TokenInv, OneTokenPerSession

LEMMA TokenStored ==
    ASSUME TypeOK, TokenInv, NEW r \in Refreshes, refresh[r].at = "issuing",
           StoreRefreshToken(refresh[r].session), refresh' = [refresh EXCEPT ![r] = NoRefresh]
    PROVE  TokenInv'
<1> DEFINE s == refresh[r].session
<1>1. s \in 1..MaxSessions
  BY DEF TypeOK, RefreshRows
<1>2. refresh'[r] = NoRefresh /\ \A q \in Refreshes \ {r} : refresh'[q] = refresh[q]
  BY RefreshMoves
<1>3. tokens' = tokens \cup {NextToken(s)} /\ NextToken(s).session = s
  BY DEF StoreRefreshToken, NextToken
<1>4. issued[s] \in Nat /\ issued'[s] = issued[s] + 1
  BY <1>1, StoreType DEF TypeOK
<1>5. issued'[s] # 0 /\ \A other \in (1..MaxSessions) \ {s} : issued'[other] = issued[other]
  BY <1>1, <1>4, StoreType
<1>6. \A t \in tokens : t.session \in 1..MaxSessions /\ t.session # s
  BY DEF TypeOK, Tokens, TokenInv, OneTokenPerSession
<1>7. s # None /\ NoRefresh.session = None
  BY <1>1, SessionConstants DEF NoRefresh
<1>8. \A q \in Refreshes \ {r} :
          refresh[q].session # s /\ refresh[q].session \in 1..MaxSessions \cup {None}
  <2>1. refresh[r] # NoRefresh
    BY <1>7
  <2> QED BY <2>1 DEF TokenInv, OneTokenPerSession, TypeOK, RefreshRows
<1>9. \A q \in Refreshes : refresh'[q].session # s
  BY <1>2, <1>7, <1>8
<1>10. \A t \in tokens : t.session # None
  BY <1>6, SessionConstants
<1> HIDE DEF s
<1>11. BegunInv'
  BY <1>2, <1>3, <1>5, <1>6, <1>7, <1>8 DEF TokenInv, BegunInv
<1>12. \A t, u \in tokens' : t.session = u.session => t = u
  BY <1>3, <1>6 DEF TokenInv, OneTokenPerSession
<1>13. \A p, q \in Refreshes :
          refresh'[p].session = refresh'[q].session /\ refresh'[p] # NoRefresh => p = q
  <2> SUFFICES ASSUME NEW p \in Refreshes, NEW q \in Refreshes,
                      refresh'[p].session = refresh'[q].session, refresh'[p] # NoRefresh
               PROVE  p = q
    OBVIOUS
  <2>1. p # r /\ refresh'[p] = refresh[p]
    BY <1>2
  <2>2. CASE q # r
    BY <1>2, <2>1, <2>2 DEF TokenInv, OneTokenPerSession
  <2>3. CASE q = r
    <3>1. refresh[p].session = None
      BY <1>2, <1>7, <2>1, <2>3
    <3>2. refresh[p] = NoRefresh
      <4>1. refresh[p] \in RefreshRows /\ refresh[p].at = "idle"
        BY <3>1 DEF TypeOK
      <4> QED BY <3>1, <4>1 DEF RefreshRows, NoRefresh
    <3> QED BY <2>1, <3>2
  <2> QED BY <2>2, <2>3
<1>14. \A t \in tokens', q \in Refreshes : refresh'[q].session # t.session
  BY <1>2, <1>3, <1>7, <1>9, <1>10 DEF TokenInv, OneTokenPerSession
<1> QED
  BY <1>11, <1>12, <1>13, <1>14 DEF TokenInv, OneTokenPerSession

(* A refresh that makes no token keeps its session or lets it go.          *)
LEMMA RefreshEnds ==
    ASSUME TypeOK, TokenInv, NEW r \in Refreshes, NEW row, refresh' = [refresh EXCEPT ![r] = row],
           row = NoRefresh \/ (row.session = refresh[r].session /\ refresh[r] # NoRefresh),
           UNCHANGED <<tokens, issued>>
    PROVE  TokenInv'
<1>1. refresh'[r] = row /\ \A q \in Refreshes \ {r} : refresh'[q] = refresh[q]
  BY RefreshMoves
<1>2. \A t \in tokens : t.session # None
  BY SessionConstants DEF TypeOK, Tokens
<1>3. NoRefresh.session = None
  BY DEF NoRefresh
<1>4. BegunInv'
  BY <1>1, <1>3 DEF TokenInv, BegunInv
<1>5. \A t \in tokens, q \in Refreshes : refresh'[q].session # t.session
  BY <1>1, <1>2, <1>3 DEF TokenInv, OneTokenPerSession
<1>6. \A p, q \in Refreshes :
          refresh'[p].session = refresh'[q].session /\ refresh'[p] # NoRefresh => p = q
  <2>1. ASSUME NEW p \in Refreshes, refresh[p].session = None PROVE refresh[p] = NoRefresh
    <3>1. refresh[p] \in RefreshRows /\ refresh[p].at = "idle"
      BY <2>1 DEF TypeOK
    <3> QED BY <2>1, <3>1 DEF RefreshRows, NoRefresh
  <2>2. CASE row = NoRefresh
    BY <1>1, <1>3, <2>1, <2>2 DEF TokenInv, OneTokenPerSession
  <2>3. CASE row.session = refresh[r].session /\ refresh[r] # NoRefresh
    BY <1>1, <2>3 DEF TokenInv, OneTokenPerSession
  <2> QED BY <2>2, <2>3
<1> QED
  BY <1>4, <1>5, <1>6 DEF TokenInv, OneTokenPerSession

LEMMA TokenStep == TypeOK /\ TokenInv /\ [Next]_vars => TokenInv'
<1> SUFFICES ASSUME TypeOK, TokenInv, [Next]_vars PROVE TokenInv'
  OBVIOUS
<1>1. CASE UNCHANGED vars
  <2>1. UNCHANGED <<tokens, refresh, issued>>
    BY <1>1 DEF vars
  <2> QED BY <2>1, TokensGo
<1>2. ASSUME NEW l \in Logins, PinLogin(l) PROVE TokenInv'
  <2>1. refresh' = refresh
    BY <1>2 DEF PinLogin, GetActiveUserByNfc, LockUser, AccountInUse, WrongPin, RightPin,
                LoginFails, StoreFirst, StoreFirstFails
  <2>2. BeginSession \/ UNCHANGED <<tokens, issued>>
    BY <1>2 DEF PinLogin, GetActiveUserByNfc, LockUser, AccountInUse, WrongPin, RightPin,
                LoginFails, StoreFirst, StoreFirstFails
  <2> QED BY <2>1, <2>2, SessionBegins, TokensGo
<1>3. ASSUME NEW r \in Refreshes, RefreshAccessToken(r) PROVE TokenInv'
  <2>1. ASSUME NEW t \in tokens, ConsumeToken(r, t) PROVE TokenInv'
    BY <2>1, TokenConsumed
  <2>2. CASE FetchUser(r)
    <3> DEFINE row == IF Welcome(account) THEN [refresh[r] EXCEPT !.at = "issuing"] ELSE NoRefresh
    <3>1. refresh[r] \in RefreshRows /\ refresh[r] # NoRefresh
      BY <2>2 DEF FetchUser, TypeOK, NoRefresh
    <3>2. row = NoRefresh \/ (row.session = refresh[r].session /\ refresh[r] # NoRefresh)
      BY <3>1 DEF RefreshRows
    <3>3. refresh' = [refresh EXCEPT ![r] = row] /\ UNCHANGED <<tokens, issued>>
      BY <2>2 DEF FetchUser
    <3> HIDE DEF row
    <3> QED BY <3>2, <3>3, RefreshEnds
  <2>3. CASE StoreNext(r)
    BY <2>3, TokenStored DEF StoreNext
  <2>4. CASE StoreNextFails(r)
    BY <2>4, TokenStored, RefreshEnds DEF StoreNextFails
  <2> QED BY <1>3, <2>1, <2>2, <2>3, <2>4 DEF RefreshAccessToken
<1>4. ASSUME NEW m \in Admins, Administration(m) PROVE TokenInv'
  <2>1. UNCHANGED <<refresh, issued>>
    BY <1>4 DEF Administration, GetUser, UpdateUser, LockForAnonymize, AnonymizeRefused,
                AnonymizeUser, RevokeSome, RevokeEnds
  <2>2. tokens' \subseteq tokens
    BY <1>4 DEF Administration, GetUser, UpdateUser, LockForAnonymize, AnonymizeRefused,
                AnonymizeUser, RevokeSome, RevokeEnds
  <2> QED BY <2>1, <2>2, TokensGo
<1>5. ASSUME LockoutPasses \/ Suspended \/ \E t \in tokens : Logout(t) PROVE TokenInv'
  <2>1. UNCHANGED <<refresh, issued>> /\ tokens' \subseteq tokens
    BY <1>5 DEF LockoutPasses, Suspended, Logout
  <2> QED BY <2>1, TokensGo
<1> QED
  BY <1>1, <1>2, <1>3, <1>4, <1>5 DEF Next

-----------------------------------------------------------------------------
(* No token for an account that was not welcome.                           *)

WelcomeInv == (Welcome(account) => barred = {}) /\ RefreshedWhileWelcome

LEMMA WritesWelcome ==
    ASSUME WelcomeInv, NEW a, Writes(a), UNCHANGED refresh PROVE WelcomeInv'
<1>1. account' = a /\ (Welcome(a) => barred' = {}) /\ barred' \subseteq barred
  BY DEF Writes
<1> QED
  BY <1>1 DEF WelcomeInv, RefreshedWhileWelcome

LEMMA NothingWritten ==
    ASSUME WelcomeInv, UNCHANGED <<account, refresh, barred>> PROVE WelcomeInv'
BY DEF WelcomeInv, RefreshedWhileWelcome

LEMMA WelcomeStep == TypeOK /\ WelcomeInv /\ [Next]_vars => WelcomeInv'
<1> SUFFICES ASSUME TypeOK, WelcomeInv, [Next]_vars PROVE WelcomeInv'
  OBVIOUS
<1>1. CASE UNCHANGED vars
  BY <1>1, NothingWritten DEF vars
<1>2. ASSUME NEW l \in Logins, PinLogin(l) PROVE WelcomeInv'
  <2>1. refresh' = refresh
    BY <1>2 DEF PinLogin, GetActiveUserByNfc, LockUser, AccountInUse, WrongPin, RightPin,
                LoginFails, StoreFirst, StoreFirstFails
  <2>2. UNCHANGED <<account, barred>> \/ \E a : Writes(a)
    BY <1>2 DEF PinLogin, GetActiveUserByNfc, LockUser, AccountInUse, WrongPin, RightPin,
                LoginFails, StoreFirst, StoreFirstFails
  <2> QED BY <2>1, <2>2, WritesWelcome, NothingWritten
<1>3. ASSUME NEW m \in Admins, Administration(m) PROVE WelcomeInv'
  <2>1. refresh' = refresh
    BY <1>3 DEF Administration, GetUser, UpdateUser, LockForAnonymize, AnonymizeRefused,
                AnonymizeUser, RevokeSome, RevokeEnds
  <2>2. UNCHANGED <<account, barred>> \/ \E a : Writes(a)
    BY <1>3 DEF Administration, GetUser, UpdateUser, LockForAnonymize, AnonymizeRefused,
                AnonymizeUser, RevokeSome, RevokeEnds
  <2> QED BY <2>1, <2>2, WritesWelcome, NothingWritten
<1>4. ASSUME LockoutPasses \/ Suspended \/ \E t \in tokens : Logout(t) PROVE WelcomeInv'
  <2>1. refresh' = refresh
    BY <1>4 DEF LockoutPasses, Suspended, Logout
  <2>2. UNCHANGED <<account, barred>> \/ \E a : Writes(a)
    BY <1>4 DEF LockoutPasses, Suspended, Logout
  <2> QED BY <2>1, <2>2, WritesWelcome, NothingWritten
<1>5. ASSUME NEW r \in Refreshes, NEW t \in tokens, ConsumeToken(r, t) PROVE WelcomeInv'
  <2> DEFINE row == [at |-> "consumed", session |-> t.session]
  <2>1. /\ refresh' = [refresh EXCEPT ![r] = row] /\ account' = account
        /\ barred' = IF Welcome(account) THEN barred ELSE barred \cup {r}
    BY <1>5 DEF ConsumeToken
  <2>2. row.at = "consumed"
    OBVIOUS
  <2> HIDE DEF row
  <2>3. refresh'[r] = row /\ \A q \in Refreshes \ {r} : refresh'[q] = refresh[q]
    BY <2>1, RefreshMoves
  <2> QED BY <2>1, <2>2, <2>3 DEF WelcomeInv, RefreshedWhileWelcome
<1>6. ASSUME NEW r \in Refreshes, FetchUser(r) PROVE WelcomeInv'
  <2> DEFINE row == IF Welcome(account) THEN [refresh[r] EXCEPT !.at = "issuing"] ELSE NoRefresh
  <2>1. /\ refresh' = [refresh EXCEPT ![r] = row] /\ account' = account
        /\ barred' = IF Welcome(account) THEN barred ELSE barred \ {r}
    BY <1>6 DEF FetchUser
  <2>2. row.at = "issuing" => barred = {}
    BY DEF NoRefresh, WelcomeInv
  <2> HIDE DEF row
  <2>3. refresh'[r] = row /\ \A q \in Refreshes \ {r} : refresh'[q] = refresh[q]
    BY <2>1, RefreshMoves
  <2> QED BY <2>1, <2>2, <2>3 DEF WelcomeInv, RefreshedWhileWelcome
<1>7. ASSUME NEW r \in Refreshes, StoreNext(r) \/ StoreNextFails(r) PROVE WelcomeInv'
  <2>1. refresh' = [refresh EXCEPT ![r] = NoRefresh] /\ UNCHANGED <<account, barred>>
    BY <1>7 DEF StoreNext, StoreNextFails
  <2>2. refresh'[r] = NoRefresh /\ \A q \in Refreshes \ {r} : refresh'[q] = refresh[q]
    BY <2>1, RefreshMoves
  <2> QED BY <2>1, <2>2 DEF WelcomeInv, RefreshedWhileWelcome, NoRefresh
<1> QED
  BY <1>1, <1>2, <1>3, <1>4, <1>5, <1>6, <1>7 DEF Next, RefreshAccessToken

-----------------------------------------------------------------------------
(* The theorems.                                                           *)

IInv == TypeOK /\ TokenInv /\ WelcomeInv

LEMMA AlwaysIInv == Spec => []IInv
<1>1. Init => IInv
  <2> SUFFICES ASSUME Init PROVE TokenInv /\ WelcomeInv
    BY InitTyped DEF IInv
  <2>1. tokens = {} /\ barred = {} /\ \A r \in Refreshes : refresh[r] = NoRefresh
    BY DEF Init
  <2>2. TokenInv
    BY <2>1 DEF TokenInv, BegunInv, OneTokenPerSession, NoRefresh
  <2>3. WelcomeInv
    BY <2>1 DEF WelcomeInv, RefreshedWhileWelcome
  <2> QED BY <2>2, <2>3
<1>2. IInv /\ [Next]_vars => IInv'
  BY TypeStep, TokenStep, WelcomeStep DEF IInv
<1> QED
  BY <1>1, <1>2, PTL DEF Spec

(* Every variable keeps its type; in particular nobody holds the account   *)
(* but the request that locked it.                                         *)
THEOREM TypeCorrect == Spec => []TypeOK
<1>1. IInv => TypeOK
  BY DEF IInv
<1> QED
  BY <1>1, AlwaysIInv, PTL

(* A refresh consumes its token by one DELETE before it makes another, so  *)
(* no session has two (auth.py:310-363).                                   *)
THEOREM SessionsDoNotSplit == Spec => []OneTokenPerSession
<1>1. IInv => OneTokenPerSession
  BY DEF IInv, TokenInv
<1> QED
  BY <1>1, AlwaysIInv, PTL

(* No refresh token for an account that was never welcome while its        *)
(* request ran (auth.py:335-363).                                          *)
THEOREM NoTokenForTheBarred == Spec => []RefreshedWhileWelcome
<1>1. IInv => RefreshedWhileWelcome
  BY DEF IInv, WelcomeInv
<1> QED
  BY <1>1, AlwaysIInv, PTL

=============================================================================
