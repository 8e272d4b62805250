--------------------------- MODULE LendingService ---------------------------
(***************************************************************************)
(* The lending core of the backend: loans, assets, lockers and user        *)
(* suspensions, as the REST handlers, the vision callback, the admin       *)
(* endpoints and the two background workers change them.                   *)
(*                                                                         *)
(* One action is one database transaction.  Every handler takes FOR UPDATE *)
(* locks on the rows it writes before it looks at them and holds them to   *)
(* its COMMIT, so what it does under the locks is one atomic step.  What a *)
(* handler reads BEFORE it locks (the quota, the loan found by its barcode,*)
(* phase 1 of a vision evaluation) is a step of its own, and what it       *)
(* remembers from there is a record in inflight until it commits.          *)
(*                                                                         *)
(* A handler may stop anywhere before its commit (409 on a row lock, an    *)
(* illegal transition, a crash, a rollback): RequestAborts.  Whether the   *)
(* kiosk is online is an input of the environment: a handler that refuses  *)
(* an offline kiosk takes no step.                                         *)
(***************************************************************************)
EXTENDS LoanStateMachine, FiniteSets, Naturals

CONSTANTS
    Users, Assets, Lockers, Kiosks,
    Loans,              \* identities of the loan rows that may be inserted
    Handlers,           \* HTTP handlers that may be running at one time
    KioskOf,            \* Lockers -> Kiosks
    Shelf,              \* Assets -> Lockers: where each asset starts
    ShelfStatus,        \* what set-up left in the status of those lockers
    Seed,               \* loan rows written past the API, with a due date
    Admins,             \* users whose role is ADMIN
    MaxConcurrentLoans, \* LOAN_MAX_CONCURRENT_PER_USER
    AssetPatches,       \* asset statuses an admin writes with PATCH /assets
    Relocations,        \* lockers an admin assigns with PATCH /assets
    LockerPatches,      \* locker statuses an admin writes with PATCH /lockers
    NoUser, NoAsset, NoLocker, NoLoan   \* the code's None

SeedRow == [user: Users, asset: Assets, locker: Lockers]

ASSUME CoreConstants ==
    /\ KioskOf \in [Lockers -> Kiosks]
    /\ Shelf \in [Assets -> Lockers]
    /\ ShelfStatus \in LockerStatus
    /\ DOMAIN Seed \subseteq Loans
    /\ Seed \in [DOMAIN Seed -> SeedRow]
    /\ \A l, m \in DOMAIN Seed : Seed[l].asset = Seed[m].asset => l = m
    /\ Admins \subseteq Users
    /\ MaxConcurrentLoans \in Nat
    /\ AssetPatches \subseteq AssetStatus
    /\ Relocations \subseteq Lockers
    /\ LockerPatches \subseteq LockerStatus
    /\ NoUser \notin Users
    /\ NoAsset \notin Assets
    /\ NoLocker \notin Lockers
    /\ NoLoan \notin Loans

VARIABLES
    loans,        \* the loans table
    assets,       \* the assets table
    lockers,      \* locker_status of each row of the lockers table
    evaluations,  \* rows of ai_evaluations: which loan, which photo
    lastReturned, \* per asset, its COMPLETED loan with the latest returned_at
    suspended,    \* users whose locked_until lies in the future
    inflight,     \* what each running handler holds from its unlocked reads
    (* History: what an administrator overruled.                           *)
    declared,     \* assets made AVAILABLE by PATCH while a loan held them
    placed        \* assets given a locker by PATCH while a loan held them

history == <<declared, placed>>

vars == <<loans, assets, lockers, evaluations, lastReturned, suspended, inflight, history>>

(***************************************************************************)
(* A loan row.  stale says whether the cut-off for RESERVED and RETURNING  *)
(* has passed, due the same of the due date, and of both whether a run of  *)
(* the worker concerned has fetched the loan since; late, that the five    *)
(* minutes of the grace period are over, counted from borrowed_at or,      *)
(* before that, reserved_at.                                               *)
(***************************************************************************)
LoanRow ==
    [status: LoanStatus \cup {"NONE"}, user: Users \cup {NoUser},
     asset: Assets \cup {NoAsset}, checkoutLocker: Lockers \cup {NoLocker},
     returnLocker: Lockers \cup {NoLocker}, stale: {"no", "past", "fetched"},
     late: BOOLEAN, due: {"none", "ahead", "past", "fetched"}]

AssetRow ==
    [status: AssetStatus, locker: Lockers \cup {NoLocker}, deleted: BOOLEAN]

Idle == [op |-> "idle"]

Request ==
    {Idle}
    \cup [op: {"checkout"}, user: Users, asset: Assets]
    \cup [op: {"return"}, loan: Loans, kiosk: Kiosks]
    \cup [op: {"vision"}, loan: Loans, type: EvaluationType]

TypeOK ==
    /\ loans \in [Loans -> LoanRow]
    /\ assets \in [Assets -> AssetRow]
    /\ lockers \in [Lockers -> LockerStatus]
    /\ evaluations \subseteq [loan: Loans, type: EvaluationType]
    /\ lastReturned \in [Assets -> Loans \cup {NoLoan}]
    /\ suspended \subseteq Users
    /\ inflight \in [Handlers -> Request]
    /\ declared \subseteq Assets
    /\ placed \subseteq Assets

-----------------------------------------------------------------------------
(* Initial states: the catalogue as set-up left it, the seeded loans out.  *)

NotInserted ==
    [status |-> "NONE", user |-> NoUser, asset |-> NoAsset,
     checkoutLocker |-> NoLocker, returnLocker |-> NoLocker,
     stale |-> "no", late |-> FALSE, due |-> "none"]

SeededLoan(row) ==
    [status |-> "ACTIVE", user |-> row.user, asset |-> row.asset,
     checkoutLocker |-> row.locker, returnLocker |-> NoLocker,
     stale |-> "no", late |-> TRUE, due |-> "ahead"]

SeededOut(a) == \E l \in DOMAIN Seed : Seed[l].asset = a

Init ==
    /\ loans = [l \in Loans |->
                   IF l \in DOMAIN Seed THEN SeededLoan(Seed[l]) ELSE NotInserted]
    /\ assets = [a \in Assets |->
                   IF SeededOut(a)
                   THEN [status |-> "BORROWED", locker |-> NoLocker, deleted |-> FALSE]
                   ELSE [status |-> "AVAILABLE", locker |-> Shelf[a], deleted |-> FALSE]]
    /\ lockers = [k \in Lockers |->
                   IF \E a \in Assets : Shelf[a] = k /\ ~SeededOut(a)
                   THEN ShelfStatus ELSE "AVAILABLE"]
    /\ evaluations = {}
    /\ lastReturned = [a \in Assets |-> NoLoan]
    /\ suspended = {}
    /\ inflight = [h \in Handlers |-> Idle]
    /\ declared = {}
    /\ placed = {}

-----------------------------------------------------------------------------
(* The statuses in which a loan still answers for its asset.               *)
Holding == {"RESERVED", "ACTIVE", "OVERDUE", "RETURNING", "PENDING_INSPECTION"}

Holds(l, a) == loans[l].asset = a /\ loans[l].status \in Holding

Held(a) == \E l \in Loans : Holds(l, a)

(* What was overruled is forgotten once no loan holds the asset any more,  *)
(* which only an action that takes an edge of the table can bring about.   *)
HeldAssets == {a \in Assets : Held(a)}

HistoryKept ==
    /\ declared' = declared \cap HeldAssets'
    /\ placed' = placed \cap HeldAssets'

-----------------------------------------------------------------------------
(* LoanStateMachine.apply_transition on the rows of one loan.              *)

MovedWith(l, to, late) ==
    [loans[l] EXCEPT !.status = to, !.stale = "no", !.late = late]

Moved(l, to) == MovedWith(l, to, loans[l].late)

(* Mutant: a cleared locker_id is taken for "no change".                   *)
AssetsAfterUnlessNone(l, to, where) ==
    LET a == loans[l].asset IN
    [assets EXCEPT ![a] =
        [status  |-> Applied(AssetOutcome(loans[l].status, to), assets[a].status),
         locker  |-> IF where = NoLocker THEN assets[a].locker ELSE where,
         deleted |-> assets[a].deleted]]

(* The asset row of loan l, with locker_id set to where.                   *)
AssetsAfter(l, to, where) ==
    LET a == loans[l].asset IN
    [assets EXCEPT ![a] =
        [status  |-> Applied(AssetOutcome(loans[l].status, to), assets[a].status),
         locker  |-> where,
         deleted |-> assets[a].deleted]]

(* The lockers of ks, those that exist.                                    *)
LockersAfter(l, to, ks) ==
    [k \in Lockers |->
        IF k \in ks THEN Applied(LockerOutcome(loans[l].status, to), lockers[k])
                    ELSE lockers[k]]

LockerIdOfAsset(l) == assets[loans[l].asset].locker

LockerForEval(l, type) ==
    IF type = "CHECKOUT" THEN loans[l].checkoutLocker ELSE loans[l].returnLocker

Accept(h, request) ==
    /\ inflight[h] = Idle
    /\ inflight' = [inflight EXCEPT ![h] = request]

Finish(h) == inflight' = [inflight EXCEPT ![h] = Idle]

-----------------------------------------------------------------------------
(* POST /loans/checkout.                                                   *)

ActiveStatuses ==
    {"ACTIVE", "RESERVED", "RETURNING", "OVERDUE", "DISPUTED", "PENDING_INSPECTION"}

ActiveLoans(u) == {l \in Loans : loans[l].user = u /\ loans[l].status \in ActiveStatuses}

AtQuota(u) == Cardinality(ActiveLoans(u)) >= MaxConcurrentLoans

(* The quota and the overdue block, read without a lock.                   *)
CheckoutBegin(h, u, a) ==
    /\ u \notin suspended
    /\ ~AtQuota(u)
    /\ \A l \in ActiveLoans(u) : loans[l].status # "OVERDUE"
    /\ Accept(h, [op |-> "checkout", user |-> u, asset |-> a])
    /\ UNCHANGED <<loans, assets, lockers, evaluations, lastReturned, suspended, history>>

(* Mutant: the status is not looked at again under the lock.               *)
BorrowableOnSight(a) == ~assets[a].deleted /\ assets[a].locker # NoLocker

Borrowable(a) ==
    /\ ~assets[a].deleted
    /\ assets[a].status = "AVAILABLE"
    /\ assets[a].locker # NoLocker

(* The asset and its locker under lock, the loan inserted as RESERVED.     *)
CheckoutCommit(h, l) ==
    /\ inflight[h].op = "checkout"
    /\ loans[l].status = "NONE"
    /\ LET a == inflight[h].asset IN
       /\ Borrowable(a)
       /\ loans' = [loans EXCEPT ![l] =
                       [NotInserted EXCEPT !.status = "RESERVED",
                                           !.user = inflight[h].user,
                                           !.asset = a,
                                           !.checkoutLocker = assets[a].locker]]
       /\ assets' = [assets EXCEPT ![a].status =
                        Applied(AssetOutcome("NONE", "RESERVED"), @)]
    /\ Finish(h)
    /\ UNCHANGED <<lockers, evaluations, lastReturned, suspended, history>>

-----------------------------------------------------------------------------
(* POST /loans/return/initiate.                                            *)

(* The handler's two 403 answers: the quota counts the loan that would be  *)
(* returned, and only the borrower or an admin may return it.              *)
ReturnForbidden(u, l) ==
    \/ AtQuota(u)
    \/ u \notin Admins /\ loans[l].user # u

(* The loans the barcode resolves to; scalar_one_or_none raises on two.    *)
LoansOfBarcode(a) ==
    {l \in Loans : loans[l].asset = a
                   /\ loans[l].status \in {"ACTIVE", "RESERVED", "OVERDUE"}}

Returnable == {"ACTIVE", "OVERDUE"}

(* Everything up to the row lock.                                          *)
ReturnBegin(h, u, l, kiosk) ==
    /\ u \notin suspended
    /\ loans[l].status \in Returnable
    /\ ~ReturnForbidden(u, l)
    /\ ~assets[loans[l].asset].deleted
    /\ LoansOfBarcode(loans[l].asset) = {l}
    /\ Accept(h, [op |-> "return", loan |-> l, kiosk |-> kiosk])
    /\ UNCHANGED <<loans, assets, lockers, evaluations, lastReturned, suspended, history>>

(* The WHERE clause of the locking SELECT.                                 *)
StillReturnable(l) ==
    loans[l].status \in Returnable /\ loans[l].returnLocker = NoLocker

(* The loan under lock, then a free locker of the kiosk.  SKIP LOCKED may  *)
(* pass over any of the free ones, so k is any of them.                    *)
ReturnCommit(h, k) ==
    /\ inflight[h].op = "return"
    /\ lockers[k] = "AVAILABLE"
    /\ KioskOf[k] = inflight[h].kiosk
    /\ LET l == inflight[h].loan IN
       /\ StillReturnable(l)
       /\ loans' = [loans EXCEPT ![l] = [Moved(l, "RETURNING") EXCEPT !.returnLocker = k]]
       /\ lockers' = LockersAfter(l, "RETURNING", {k})
    /\ Finish(h)
    /\ UNCHANGED <<assets, evaluations, lastReturned, suspended, history>>

-----------------------------------------------------------------------------
(* POST /vision/analyze.  Phase 1 validates without a lock; the calls to   *)
(* the vision service follow with no session open; phase 2 locks the loan, *)
(* the asset and the locker, and applies whatever the answer calls for to  *)
(* the status the loan has by then.                                        *)

VisionBegin(h, l, type) ==
    /\ loans[l].status = (IF type = "CHECKOUT" THEN "RESERVED" ELSE "RETURNING")
    /\ LockerForEval(l, type) # NoLocker
    /\ ~assets[loans[l].asset].deleted
    /\ Accept(h, [op |-> "vision", loan |-> l, type |-> type])
    /\ UNCHANGED <<loans, assets, lockers, evaluations, lastReturned, suspended, history>>

Judging(h, l, type) ==
    /\ inflight[h] = [op |-> "vision", loan |-> l, type |-> type]
    /\ LockerForEval(l, type) # NoLocker

VisionTransition(l, type, to, assetLocker) ==
    /\ Legal(loans[l].status, to)
    /\ loans' = [loans EXCEPT ![l] = Moved(l, to)]
    /\ assets' = AssetsAfter(l, to, assetLocker)
    /\ lockers' = LockersAfter(l, to, {LockerForEval(l, type)})

(* Mutant: the loan's one evaluation row is replaced.                      *)
ReplaceEvaluation(l, type) ==
    evaluations' = {e \in evaluations : e.loan # l} \cup {[loan |-> l, type |-> type]}

RecordEvaluation(l, type) ==
    evaluations' = evaluations \cup {[loan |-> l, type |-> type]}

(* The vision service failed or timed out: quarantine, no evaluation row.  *)
VisionFailed(h, l, type) ==
    /\ Judging(h, l, type)
    /\ VisionTransition(l, type, "PENDING_INSPECTION", LockerForEval(l, type))
    /\ Finish(h)
    /\ HistoryKept
    /\ UNCHANGED <<evaluations, lastReturned, suspended>>

(* The locker is empty after a checkout: borrowed_at starts the grace      *)
(* period anew.                                                            *)
CheckoutConfirmed(h, l) ==
    /\ Judging(h, l, "CHECKOUT")
    /\ Legal(loans[l].status, "ACTIVE")
    /\ loans' = [loans EXCEPT ![l] = MovedWith(l, "ACTIVE", FALSE)]
    /\ assets' = AssetsAfter(l, "ACTIVE", NoLocker)
    /\ lockers' = LockersAfter(l, "ACTIVE", {LockerForEval(l, "CHECKOUT")})
    /\ RecordEvaluation(l, "CHECKOUT")
    /\ Finish(h)
    /\ HistoryKept
    /\ UNCHANGED <<lastReturned, suspended>>

(* The locker still holds something after a checkout.                      *)
CheckoutFraud(h, l) ==
    /\ Judging(h, l, "CHECKOUT")
    /\ VisionTransition(l, "CHECKOUT", "FRAUD_SUSPECTED", LockerForEval(l, "CHECKOUT"))
    /\ RecordEvaluation(l, "CHECKOUT")
    /\ Finish(h)
    /\ HistoryKept
    /\ UNCHANGED <<lastReturned, suspended>>

(* An empty locker or a damaged item after a return.                       *)
ReturnQuarantined(h, l) ==
    /\ Judging(h, l, "RETURN")
    /\ VisionTransition(l, "RETURN", "PENDING_INSPECTION", LockerForEval(l, "RETURN"))
    /\ RecordEvaluation(l, "RETURN")
    /\ Finish(h)
    /\ HistoryKept
    /\ UNCHANGED <<lastReturned, suspended>>

(* A full locker and no damage after a return.                             *)
ReturnConfirmed(h, l) ==
    /\ Judging(h, l, "RETURN")
    /\ VisionTransition(l, "RETURN", "COMPLETED", LockerForEval(l, "RETURN"))
    /\ RecordEvaluation(l, "RETURN")
    /\ lastReturned' = [lastReturned EXCEPT ![loans[l].asset] = l]
    /\ Finish(h)
    /\ HistoryKept
    /\ UNCHANGED suspended

(* A handler gives up before its commit.                                   *)
RequestAborts(h) ==
    /\ inflight[h] # Idle
    /\ Finish(h)
    /\ UNCHANGED <<loans, assets, lockers, evaluations, lastReturned, suspended, history>>

-----------------------------------------------------------------------------
(* POST /loans/{loan_id}/report-damage, inside the grace period.  The asset*)
(* and the CHECKOUT locker go to MAINTENANCE, wherever the item is by then;*)
(* the borrower and whoever returned the item last are suspended.          *)
PreviousBorrowers(a) ==
    {loans[m].user : m \in {n \in Loans : lastReturned[a] = n}}

ReportDamage(l) ==
    /\ loans[l].status \in {"ACTIVE", "FRAUD_SUSPECTED"}
    /\ loans[l].user \notin suspended
    /\ ~loans[l].late
    /\ loans' = [loans EXCEPT ![l] = Moved(l, "DISPUTED")]
    /\ assets' = AssetsAfter(l, "DISPUTED", LockerIdOfAsset(l))
    /\ lockers' = LockersAfter(l, "DISPUTED", {loans[l].checkoutLocker})
    /\ suspended' = IF SuspendsUsers(loans[l].status, "DISPUTED")
                    THEN suspended \cup {loans[l].user}
                                   \cup PreviousBorrowers(loans[l].asset)
                    ELSE suspended
    /\ HistoryKept
    /\ UNCHANGED <<evaluations, lastReturned, inflight>>

-----------------------------------------------------------------------------
(* PATCH /admin/evaluations/{id}/judge.  Any evaluation of the loan may be *)
(* judged, and again: the handler does not ask whether it is the one that  *)
(* put the loan in quarantine, nor whether it was judged before.  A loan   *)
(* handed back starts its grace period anew, as at pick-up.                *)

JudgeApproves(e) ==
    LET l == e.loan IN
    /\ Legal(loans[l].status, "DISPUTED")
    /\ loans' = [loans EXCEPT ![l] = Moved(l, "DISPUTED")]
    /\ assets' = AssetsAfter(l, "DISPUTED", LockerIdOfAsset(l))
    /\ lockers' = LockersAfter(l, "DISPUTED", {LockerForEval(l, e.type)})
    /\ HistoryKept
    /\ UNCHANGED <<evaluations, lastReturned, suspended, inflight>>

JudgeRejects(e) ==
    LET l  == e.loan
        to == IF e.type = "CHECKOUT" THEN "ACTIVE" ELSE "COMPLETED"
    IN
    /\ Legal(loans[l].status, to)
    /\ loans' = [loans EXCEPT ![l] = MovedWith(l, to, loans[l].late /\ to # "ACTIVE")]
    /\ assets' = AssetsAfter(l, to, IF to = "ACTIVE" THEN NoLocker ELSE LockerIdOfAsset(l))
    /\ lockers' = LockersAfter(l, to, {LockerForEval(l, e.type)})
    /\ lastReturned' = IF to = "COMPLETED"
                       THEN [lastReturned EXCEPT ![loans[l].asset] = l]
                       ELSE lastReturned
    /\ HistoryKept
    /\ UNCHANGED <<evaluations, suspended, inflight>>

-----------------------------------------------------------------------------
(* The background workers.  A batch query without locks leaves out deleted *)
(* assets; the transaction on one fetched loan then looks at the loan's    *)
(* status and date again under the row lock, and not at the asset's        *)
(* deletion.  A fetched loan whose row is locked, or whose transaction     *)
(* fails, is left to a later query.                                        *)

(* Mutant: the batch query joins the locker by the asset's locker_id.      *)
TimedOutInLocker(l) ==
    /\ loans[l].status \in {"RESERVED", "RETURNING"}
    /\ loans[l].stale = "past"
    /\ LockerIdOfAsset(l) # NoLocker

TimedOut(l) ==
    /\ loans[l].status \in {"RESERVED", "RETURNING"}
    /\ loans[l].stale = "past"
    /\ ~assets[loans[l].asset].deleted

FetchTimedOut(l) ==
    /\ TimedOut(l)
    /\ loans' = [loans EXCEPT ![l] = [loans[l] EXCEPT !.stale = "fetched"]]
    /\ UNCHANGED <<assets, lockers, evaluations, lastReturned, suspended, inflight, history>>

SkipTimedOut(l) ==
    /\ loans[l].stale = "fetched"
    /\ loans' = [loans EXCEPT ![l] = [loans[l] EXCEPT !.stale = "past"]]
    /\ UNCHANGED <<assets, lockers, evaluations, lastReturned, suspended, inflight, history>>

TimeoutReserved(l) ==
    /\ loans[l].status = "RESERVED"
    /\ loans[l].stale = "fetched"
    /\ loans' = [loans EXCEPT ![l] = Moved(l, "PENDING_INSPECTION")]
    /\ assets' = AssetsAfter(l, "PENDING_INSPECTION", loans[l].checkoutLocker)
    /\ lockers' = LockersAfter(l, "PENDING_INSPECTION", {loans[l].checkoutLocker})
    /\ HistoryKept
    /\ UNCHANGED <<evaluations, lastReturned, suspended, inflight>>

(* Both lockers of the loan go to MAINTENANCE, the checkout locker too,    *)
(* whatever has happened to it since the item left it.                     *)
TimeoutReturning(l) ==
    /\ loans[l].status = "RETURNING"
    /\ loans[l].stale = "fetched"
    /\ loans' = [loans EXCEPT ![l] = Moved(l, "PENDING_INSPECTION")]
    /\ assets' = AssetsAfter(l, "PENDING_INSPECTION", LockerIdOfAsset(l))
    /\ lockers' = LockersAfter(l, "PENDING_INSPECTION",
                               {loans[l].checkoutLocker, loans[l].returnLocker})
    /\ HistoryKept
    /\ UNCHANGED <<evaluations, lastReturned, suspended, inflight>>

FetchOverdue(l) ==
    /\ loans[l].status = "ACTIVE"
    /\ loans[l].due = "past"
    /\ ~assets[loans[l].asset].deleted
    /\ loans' = [loans EXCEPT ![l] = [loans[l] EXCEPT !.due = "fetched"]]
    /\ UNCHANGED <<assets, lockers, evaluations, lastReturned, suspended, inflight, history>>

SkipOverdue(l) ==
    /\ loans[l].due = "fetched"
    /\ loans' = [loans EXCEPT ![l] = [loans[l] EXCEPT !.due = "past"]]
    /\ UNCHANGED <<assets, lockers, evaluations, lastReturned, suspended, inflight, history>>

MarkOverdue(l) ==
    /\ loans[l].status = "ACTIVE"
    /\ loans[l].due = "fetched"
    /\ loans' = [loans EXCEPT ![l] = Moved(l, "OVERDUE")]
    /\ UNCHANGED <<assets, lockers, evaluations, lastReturned, suspended, inflight, history>>

-----------------------------------------------------------------------------
(* The admin's hands on the equipment tables.                              *)

(* PATCH /assets: no look at the loans of the asset, none at the locker.   *)
UpdateAsset(a, status, locker) ==
    /\ assets' = [assets EXCEPT ![a] =
                     [status  |-> Applied(status, assets[a].status),
                      locker  |-> IF locker = NoLocker THEN assets[a].locker ELSE locker,
                      deleted |-> assets[a].deleted]]
    /\ declared' = IF status = "AVAILABLE" /\ Held(a) THEN declared \cup {a} ELSE declared
    /\ placed' = IF locker # NoLocker /\ Held(a) THEN placed \cup {a} ELSE placed
    /\ UNCHANGED <<loans, lockers, evaluations, lastReturned, suspended, inflight>>

(* PATCH /lockers: takes no row lock and asks nothing.                     *)
UpdateLockerStatus(k, status) ==
    /\ lockers' = [lockers EXCEPT ![k] = status]
    /\ UNCHANGED <<loans, assets, evaluations, lastReturned, suspended, inflight, history>>

(* DELETE /assets: refused for ACTIVE and RESERVED loans only.             *)
BlocksDeletion == {"ACTIVE", "RESERVED"}

SoftDeleteAsset(a) ==
    /\ \A l \in Loans : loans[l].asset = a => loans[l].status \notin BlocksDeletion
    /\ assets' = [assets EXCEPT ![a] = [status  |-> assets[a].status,
                                        locker  |-> NoLocker,
                                        deleted |-> TRUE]]
    /\ lockers' = [k \in Lockers |-> IF k = assets[a].locker THEN "AVAILABLE" ELSE lockers[k]]
    /\ UNCHANGED <<loans, evaluations, lastReturned, suspended, inflight, history>>

-----------------------------------------------------------------------------
(* Time: deadlines pass, suspensions run out.                              *)

DeadlinePasses(l) ==
    /\ loans[l].status \in {"RESERVED", "RETURNING"}
    /\ loans[l].stale = "no"
    /\ loans' = [loans EXCEPT ![l] = [loans[l] EXCEPT !.stale = "past"]]
    /\ UNCHANGED <<assets, lockers, evaluations, lastReturned, suspended, inflight, history>>

(* The grace period outlasts the worker's cut-off for a reservation, and   *)
(* matters to no loan that is settled.                                     *)
GraceEnds(l) ==
    /\ loans[l].status \notin {"NONE", "COMPLETED", "DISPUTED"}
    /\ loans[l].status = "RESERVED" => loans[l].stale # "no"
    /\ ~loans[l].late
    /\ loans' = [loans EXCEPT ![l] = [loans[l] EXCEPT !.late = TRUE]]
    /\ UNCHANGED <<assets, lockers, evaluations, lastReturned, suspended, inflight, history>>

DueDatePasses(l) ==
    /\ loans[l].due = "ahead"
    /\ loans' = [loans EXCEPT ![l] = [loans[l] EXCEPT !.due = "past"]]
    /\ UNCHANGED <<assets, lockers, evaluations, lastReturned, suspended, inflight, history>>

SuspensionEnds(u) ==
    /\ u \in suspended
    /\ suspended' = suspended \ {u}
    /\ UNCHANGED <<loans, assets, lockers, evaluations, lastReturned, inflight, history>>

-----------------------------------------------------------------------------
Checkout ==
    \E h \in Handlers :
        \/ \E u \in Users, a \in Assets : CheckoutBegin(h, u, a)
        \/ \E l \in Loans : CheckoutCommit(h, l)

Return ==
    \E h \in Handlers :
        \/ \E u \in Users, l \in Loans, kiosk \in Kiosks : ReturnBegin(h, u, l, kiosk)
        \/ \E k \in Lockers : ReturnCommit(h, k)

AnalyzeImage ==
    \E h \in Handlers, l \in Loans :
        \/ \E type \in EvaluationType :
              VisionBegin(h, l, type) \/ VisionFailed(h, l, type)
        \/ CheckoutConfirmed(h, l)
        \/ CheckoutFraud(h, l)
        \/ ReturnQuarantined(h, l)
        \/ ReturnConfirmed(h, l)

JudgeEvaluation == \E e \in evaluations : JudgeApproves(e) \/ JudgeRejects(e)

Workers ==
    \E l \in Loans :
        \/ FetchTimedOut(l)
        \/ SkipTimedOut(l)
        \/ TimeoutReserved(l)
        \/ TimeoutReturning(l)
        \/ FetchOverdue(l)
        \/ SkipOverdue(l)
        \/ MarkOverdue(l)

Equipment ==
    \/ \E a \in Assets, s \in AssetPatches \cup {"KEEP"}, k \in Relocations \cup {NoLocker} :
          UpdateAsset(a, s, k)
    \/ \E k \in Lockers, s \in LockerPatches : UpdateLockerStatus(k, s)
    \/ \E a \in Assets : SoftDeleteAsset(a)

Time ==
    \/ \E l \in Loans : DeadlinePasses(l) \/ GraceEnds(l) \/ DueDatePasses(l)
    \/ \E u \in Users : SuspensionEnds(u)

Next ==
    \/ Checkout
    \/ Return
    \/ AnalyzeImage
    \/ \E h \in Handlers : RequestAborts(h)
    \/ \E l \in Loans : ReportDamage(l)
    \/ JudgeEvaluation
    \/ Workers
    \/ Equipment
    \/ Time

Spec == Init /\ [][Next]_vars

-----------------------------------------------------------------------------
(* Properties.                                                             *)

(* No asset is ever assigned to two loans at once, whatever the checkouts, *)
(* late vision results, verdicts and timeouts that race for it, unless an  *)
(* administrator declares it AVAILABLE over the head of a loan that holds  *)
(* it.  The code relies on the row lock and the AVAILABLE check in         *)
(* checkout for it, and PATCH /assets asks for neither.                    *)
OneHolder ==
    \A l, m \in Loans, a \in Assets \ declared : Holds(l, a) /\ Holds(m, a) => l = m

(* An asset that checkout would hand out is held by no loan: neither one   *)
(* that is out, nor one that waits in quarantine for an inspection.  Only  *)
(* an administrator's own word, given while the loan runs, overrides it.   *)
BorrowableMeansFree ==
    \A a \in Assets \ declared :
        assets[a].status = "AVAILABLE" => \A l \in Loans : ~Holds(l, a)

(* While its loan is out or on its way back an asset sits in no locker;    *)
(* vision clears locker_id at pick-up and sets it again when the return is *)
(* judged, and no stale photo may put it back in between.  An administrator*)
(* who overruled the running loan of the asset may have.                   *)
OnLoanOutOfLocker ==
    \A l \in Loans :
        /\ loans[l].status \in {"ACTIVE", "OVERDUE", "RETURNING"}
        /\ loans[l].asset \notin declared \cup placed
        => LockerIdOfAsset(l) = NoLocker

(* No item leaves or comes back unseen: a loan past its pick-up has a      *)
(* CHECKOUT evaluation (the seeded ones apart), a completed one a RETURN   *)
(* evaluation, although failed photos and timeouts leave no row at all.    *)
EvidenceKept ==
    \A l \in Loans :
        /\ loans[l].status \in {"ACTIVE", "OVERDUE", "RETURNING", "COMPLETED"}
              /\ l \notin DOMAIN Seed
           => [loan |-> l, type |-> "CHECKOUT"] \in evaluations
        /\ loans[l].status = "COMPLETED"
           => [loan |-> l, type |-> "RETURN"] \in evaluations

(* A late or duplicate photo, a second verdict or a worker never reopens a *)
(* settled loan: COMPLETED and DISPUTED are final, and a suspected fraud   *)
(* can only become a dispute.                                              *)
SettledStaysSettled ==
    [][\A l \in Loans :
          /\ loans[l].status \in {"COMPLETED", "DISPUTED"}
             => loans'[l].status = loans[l].status
          /\ loans[l].status = "FRAUD_SUSPECTED"
             => loans'[l].status \in {"FRAUD_SUSPECTED", "DISPUTED"}]_vars

(* The abstract custody of assets, and the loans that gave theirs up.  An  *)
(* asset declared AVAILABLE over a running loan is off the books.          *)
CustodyOf == [a \in Assets |-> IF a \in declared THEN {} ELSE {l \in Loans : Holds(l, a)}]

Settled == {"COMPLETED", "DISPUTED", "FRAUD_SUSPECTED"}

LetGo == {l \in Loans : loans[l].status \in Settled}

Custody == INSTANCE AssetCustody WITH custody <- CustodyOf, released <- LetGo,
                                      offBooks <- declared

(* The lending core implements the abstract custody protocol.              *)
ImplementsCustody == Custody!Spec

-----------------------------------------------------------------------------
(* What the documents say of the code and the code does not do.            *)

(* return/initiate is documented for "an active loan".  A loan handed back *)
(* to its borrower by a verdict keeps its return locker, and the locking   *)
(* SELECT finds such a loan no more.                                       *)
ActiveCanBeReturned ==
    \A l \in Loans : loans[l].status \in Returnable => StillReturnable(l)

-----------------------------------------------------------------------------
(* Liveness.  The worker runs every minute and fetches every timed-out loan*)
(* again until none is left, a loan it comes to again and again is not     *)
(* locked or failing each time, and time passes.                           *)

Fairness ==
    \A l \in Loans :
        /\ WF_vars(FetchTimedOut(l))
        /\ SF_vars(TimeoutReserved(l))
        /\ SF_vars(TimeoutReturning(l))
        /\ WF_vars(DeadlinePasses(l))

LiveSpec == Spec /\ Fairness

Waiting(l) == loans[l].status \in {"RESERVED", "RETURNING"}

(* A reservation or a return whose photo never comes, or fails to arrive   *)
(* for good, does not hang: it ends, unless its asset leaves the catalogue *)
(* meanwhile.                                                              *)
WaitingEnds ==
    \A l \in Loans : Waiting(l) ~> (~Waiting(l) \/ assets[loans[l].asset].deleted)

=============================================================================
