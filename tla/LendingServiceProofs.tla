------------------------ MODULE LendingServiceProofs ------------------------
(***************************************************************************)
(* Proofs about LendingService, for any number of users, assets, lockers,  *)
(* loans and running handlers.                                             *)
(***************************************************************************)
EXTENDS LendingService, TLAPS

(* A loan row that was inserted has its user, its asset and the locker it  *)
(* was checked out from; nothing ever clears them.                         *)
RowsFilled ==
    \A l \in Loans : loans[l].status # "NONE" =>
        /\ loans[l].user \in Users
        /\ loans[l].asset \in Assets
        /\ loans[l].checkoutLocker \in Lockers

(* The loan last returned for an asset is an inserted row.                 *)
ReturnedInserted ==
    \A a \in Assets : \A l \in Loans : lastReturned[a] = l => loans[l].status # "NONE"

Typed == TypeOK /\ RowsFilled /\ ReturnedInserted

-----------------------------------------------------------------------------
(* The transition table.                                                   *)

(* What a transition leaves in an asset's status column is a status.       *)
LEMMA AssetOutcomeType ==
    ASSUME NEW from, NEW to, NEW old \in AssetStatus
    PROVE  Applied(AssetOutcome(from, to), old) \in AssetStatus
BY DEF Applied, AssetOutcome, AssetStatus

(* What a transition leaves in a locker's status column is a status.       *)
LEMMA LockerOutcomeType ==
    ASSUME NEW from, NEW to, NEW old \in LockerStatus
    PROVE  Applied(LockerOutcome(from, to), old) \in LockerStatus
BY DEF Applied, LockerOutcome, LockerStatus

(* An edge of the table ends in a loan status, and starts in NONE only to  *)
(* reserve.                                                                *)
LEMMA LegalEnds ==
    ASSUME NEW from, NEW to, Legal(from, to)
    PROVE  /\ to \in LoanStatus
           /\ from = "NONE" <=> to = "RESERVED"
BY DEF Legal, Transitions, LoanStatus

(* No loan comes back to holding its asset once it let go.                 *)
LEMMA HoldingIsNotReentered ==
    ASSUME NEW from, NEW to, Legal(from, to), to \in Holding, from # "NONE"
    PROVE  from \in Holding
BY DEF Legal, Transitions, Holding

(* An edge that makes the asset AVAILABLE ends the loan's hold on it.      *)
LEMMA AvailableReleases ==
    ASSUME NEW from, NEW to, NEW old, Legal(from, to), from # "NONE", to # "RETURNING",
           Applied(AssetOutcome(from, to), old) = "AVAILABLE"
    PROVE  to \notin Holding /\ from \in Holding
BY DEF Legal, Transitions, Holding, Applied, AssetOutcome

-----------------------------------------------------------------------------
(* The rows apply_transition writes.                                       *)

(* A moved loan keeps its user, asset and lockers.                         *)
LEMMA MovedWithType ==
    ASSUME TypeOK, NEW l \in Loans, NEW to \in LoanStatus, NEW late \in BOOLEAN
    PROVE  /\ MovedWith(l, to, late) \in LoanRow
           /\ MovedWith(l, to, late).status = to
           /\ MovedWith(l, to, late).user = loans[l].user
           /\ MovedWith(l, to, late).asset = loans[l].asset
           /\ MovedWith(l, to, late).checkoutLocker = loans[l].checkoutLocker
           /\ MovedWith(l, to, late).returnLocker = loans[l].returnLocker
BY DEF TypeOK, MovedWith, LoanRow

(* So does one whose grace period is left alone.                           *)
LEMMA MovedType ==
    ASSUME TypeOK, NEW l \in Loans, NEW to \in LoanStatus
    PROVE  /\ loans[l].late \in BOOLEAN
           /\ Moved(l, to) \in LoanRow
           /\ Moved(l, to).status = to
           /\ Moved(l, to).user = loans[l].user
           /\ Moved(l, to).asset = loans[l].asset
           /\ Moved(l, to).checkoutLocker = loans[l].checkoutLocker
           /\ Moved(l, to).returnLocker = loans[l].returnLocker
<1>1. loans[l].late \in BOOLEAN
  BY DEF TypeOK, LoanRow
<1> QED
  BY <1>1, MovedWithType DEF Moved

(* The asset table after a transition, typed and row by row.               *)
LEMMA AssetsAfterType ==
    ASSUME TypeOK, NEW l \in Loans, NEW to, loans[l].asset \in Assets,
           NEW where \in Lockers \cup {NoLocker}
    PROVE  /\ AssetsAfter(l, to, where) \in [Assets -> AssetRow]
           /\ AssetsAfter(l, to, where)[loans[l].asset].status =
                 Applied(AssetOutcome(loans[l].status, to), assets[loans[l].asset].status)
           /\ AssetsAfter(l, to, where)[loans[l].asset].locker = where
           /\ AssetsAfter(l, to, where)[loans[l].asset].deleted =
                 assets[loans[l].asset].deleted
           /\ \A a \in Assets : a # loans[l].asset => AssetsAfter(l, to, where)[a] = assets[a]
<1> DEFINE b == loans[l].asset
           s == Applied(AssetOutcome(loans[l].status, to), assets[b].status)
<1>1. assets[b] \in AssetRow /\ assets[b].status \in AssetStatus
  BY DEF TypeOK, AssetRow
<1>2. s \in AssetStatus
  BY <1>1, AssetOutcomeType
<1> DEFINE row == [status |-> s, locker |-> where, deleted |-> assets[b].deleted]
<1>3. AssetsAfter(l, to, where) = [assets EXCEPT ![b] = row]
  BY DEF AssetsAfter
<1> HIDE DEF s
<1>4. row \in AssetRow /\ row.status = s /\ row.locker = where
         /\ row.deleted = assets[b].deleted
  BY <1>1, <1>2 DEF AssetRow
<1> HIDE DEF row
<1>5. /\ [assets EXCEPT ![b] = row] \in [Assets -> AssetRow]
      /\ [assets EXCEPT ![b] = row][b] = row
      /\ \A a \in Assets : a # b => [assets EXCEPT ![b] = row][a] = assets[a]
  BY <1>4 DEF TypeOK
<1>6. QED
  BY <1>3, <1>4, <1>5 DEF s

(* The lockers after a transition.                                         *)
LEMMA LockersAfterType ==
    ASSUME TypeOK, NEW l, NEW to, NEW ks
    PROVE  LockersAfter(l, to, ks) \in [Lockers -> LockerStatus]
BY LockerOutcomeType DEF TypeOK, LockersAfter

-----------------------------------------------------------------------------
(* Every action that moves an existing loan along the table and writes its *)
(* asset, seen as one step: what it does to the loans and the assets.      *)
Transition(l, to) ==
    /\ Legal(loans[l].status, to)
    /\ to \notin {"RESERVED", "RETURNING"}
    /\ \E late \in BOOLEAN : loans' = [loans EXCEPT ![l] = MovedWith(l, to, late)]
    /\ \E where \in Lockers \cup {NoLocker} : assets' = AssetsAfter(l, to, where)

(* The locker a verdict or a photo is about is a locker, or none.          *)
LEMMA LockerForEvalType ==
    ASSUME TypeOK, NEW l \in Loans, NEW type
    PROVE  LockerForEval(l, type) \in Lockers \cup {NoLocker}
BY DEF TypeOK, LoanRow, LockerForEval

(* locker_id of the asset of an inserted loan.                             *)
LEMMA LockerIdOfAssetType ==
    ASSUME TypeOK, NEW l \in Loans, loans[l].asset \in Assets
    PROVE  LockerIdOfAsset(l) \in Lockers \cup {NoLocker}
BY DEF TypeOK, AssetRow, LockerIdOfAsset

(* The vision callback, the reports, the verdicts and the timeouts.        *)
Moves(l) ==
    \/ \E h \in Handlers :
          \/ \E type \in EvaluationType : VisionFailed(h, l, type)
          \/ CheckoutConfirmed(h, l)
          \/ CheckoutFraud(h, l)
          \/ ReturnQuarantined(h, l)
          \/ ReturnConfirmed(h, l)
    \/ ReportDamage(l)
    \/ \E e \in evaluations : e.loan = l /\ (JudgeApproves(e) \/ JudgeRejects(e))
    \/ TimeoutReserved(l)
    \/ TimeoutReturning(l)

(* Each of those actions takes one edge of the table, never one that       *)
(* reserves or that starts a return.                                       *)
LEMMA MovesAreTransitions ==
    ASSUME Typed, NEW l \in Loans, Moves(l)
    PROVE  \E to \in LoanStatus : Transition(l, to)
<1>1. ASSUME NEW to, Legal(loans[l].status, to), to \notin {"RESERVED", "RETURNING"},
             loans' = [loans EXCEPT ![l] = Moved(l, to)],
             NEW where \in Lockers \cup {NoLocker}, assets' = AssetsAfter(l, to, where)
      PROVE  \E t \in LoanStatus : Transition(l, t)
  <2>1. to \in LoanStatus /\ loans[l].late \in BOOLEAN
    BY <1>1, LegalEnds DEF Typed, TypeOK, LoanRow
  <2>2. loans' = [loans EXCEPT ![l] = MovedWith(l, to, loans[l].late)]
    BY <1>1 DEF Moved
  <2> QED
    BY <1>1, <2>1, <2>2 DEF Transition
<1>2. ASSUME NEW type, NEW to, NEW where \in Lockers \cup {NoLocker},
             VisionTransition(l, type, to, where), to \notin {"RESERVED", "RETURNING"}
      PROVE  \E t \in LoanStatus : Transition(l, t)
  BY <1>1, <1>2 DEF VisionTransition
<1>3. TypeOK
  BY DEF Typed
<1>4. loans[l].status # "NONE" => LockerIdOfAsset(l) \in Lockers \cup {NoLocker}
  BY LockerIdOfAssetType, <1>3 DEF Typed, RowsFilled
<1>5. ASSUME NEW h \in Handlers, NEW type \in EvaluationType, VisionFailed(h, l, type)
      PROVE  \E t \in LoanStatus : Transition(l, t)
  BY <1>2, <1>3, <1>5, LockerForEvalType DEF VisionFailed
<1>6. ASSUME NEW h \in Handlers, CheckoutConfirmed(h, l)
      PROVE  \E t \in LoanStatus : Transition(l, t)
  BY <1>6 DEF CheckoutConfirmed, Transition, LoanStatus
<1>7. ASSUME NEW h \in Handlers, CheckoutFraud(h, l)
      PROVE  \E t \in LoanStatus : Transition(l, t)
  BY <1>2, <1>3, <1>7, LockerForEvalType DEF CheckoutFraud
<1>8. ASSUME NEW h \in Handlers, ReturnQuarantined(h, l)
      PROVE  \E t \in LoanStatus : Transition(l, t)
  BY <1>2, <1>3, <1>8, LockerForEvalType DEF ReturnQuarantined
<1>9. ASSUME NEW h \in Handlers, ReturnConfirmed(h, l)
      PROVE  \E t \in LoanStatus : Transition(l, t)
  BY <1>2, <1>3, <1>9, LockerForEvalType DEF ReturnConfirmed
<1>10. ASSUME ReportDamage(l)
       PROVE  \E t \in LoanStatus : Transition(l, t)
  <2>1. Legal(loans[l].status, "DISPUTED") /\ loans[l].status # "NONE"
    BY <1>10 DEF ReportDamage, Legal, Transitions
  <2> QED
    BY <1>1, <1>4, <1>10, <2>1 DEF ReportDamage
<1>11. ASSUME NEW e \in evaluations, e.loan = l, JudgeApproves(e)
       PROVE  \E t \in LoanStatus : Transition(l, t)
  <2>1. Legal(loans[l].status, "DISPUTED") /\ loans[l].status # "NONE"
    BY <1>11 DEF JudgeApproves, Legal, Transitions
  <2> QED
    BY <1>1, <1>4, <1>11, <2>1 DEF JudgeApproves
<1>12. ASSUME NEW e \in evaluations, e.loan = l, JudgeRejects(e)
       PROVE  \E t \in LoanStatus : Transition(l, t)
  <2> DEFINE to == IF e.type = "CHECKOUT" THEN "ACTIVE" ELSE "COMPLETED"
             where == IF to = "ACTIVE" THEN NoLocker ELSE LockerIdOfAsset(l)
             late == loans[l].late /\ to # "ACTIVE"
  <2>1. /\ Legal(loans[l].status, to)
        /\ loans' = [loans EXCEPT ![l] = MovedWith(l, to, late)]
        /\ assets' = AssetsAfter(l, to, where)
    BY <1>12 DEF JudgeRejects
  <2>2. to \notin {"RESERVED", "RETURNING"}
    OBVIOUS
  <2>3. loans[l].status # "NONE"
    BY <2>1, <2>2, LegalEnds
  <2>4. where \in Lockers \cup {NoLocker}
    BY <1>4, <2>3
  <2>5. late \in BOOLEAN /\ to \in LoanStatus
    BY DEF LoanStatus
  <2> HIDE DEF to, where, late
  <2> QED
    BY <2>1, <2>2, <2>4, <2>5 DEF Transition
<1>13. ASSUME TimeoutReserved(l)
       PROVE  \E t \in LoanStatus : Transition(l, t)
  <2>1. Legal(loans[l].status, "PENDING_INSPECTION")
    BY <1>13 DEF TimeoutReserved, Legal, Transitions
  <2>2. loans[l].checkoutLocker \in Lockers \cup {NoLocker}
    BY <1>3 DEF TypeOK, LoanRow
  <2> QED
    BY <1>1, <1>13, <2>1, <2>2 DEF TimeoutReserved
<1>14. ASSUME TimeoutReturning(l)
       PROVE  \E t \in LoanStatus : Transition(l, t)
  <2>1. Legal(loans[l].status, "PENDING_INSPECTION") /\ loans[l].status # "NONE"
    BY <1>14 DEF TimeoutReturning, Legal, Transitions
  <2> QED
    BY <1>1, <1>4, <1>14, <2>1 DEF TimeoutReturning
<1> QED
  BY <1>5, <1>6, <1>7, <1>8, <1>9, <1>10, <1>11, <1>12, <1>13, <1>14 DEF Moves

(* Each of them forgets what was overruled of assets nobody holds any more.*)
LEMMA MovesKeepHistory ==
    ASSUME NEW l \in Loans, Moves(l)
    PROVE  HistoryKept
BY DEF Moves, VisionFailed, CheckoutConfirmed, CheckoutFraud, ReturnQuarantined,
   ReturnConfirmed, ReportDamage, JudgeApproves, JudgeRejects, TimeoutReserved,
   TimeoutReturning

-----------------------------------------------------------------------------
(* Type correctness.                                                       *)

(* The initial tables are typed.                                           *)
LEMMA TypedInit == Init => Typed
<1> SUFFICES ASSUME Init PROVE Typed
  OBVIOUS
<1> USE CoreConstants
<1>1. \A l \in DOMAIN Seed : Seed[l] \in SeedRow
  OBVIOUS
<1>2. NotInserted \in LoanRow
  BY DEF NotInserted, LoanRow
<1>3. ASSUME NEW l \in DOMAIN Seed
      PROVE  /\ SeededLoan(Seed[l]) \in LoanRow
             /\ SeededLoan(Seed[l]).user \in Users
             /\ SeededLoan(Seed[l]).asset \in Assets
             /\ SeededLoan(Seed[l]).checkoutLocker \in Lockers
  BY <1>1 DEF SeededLoan, LoanRow, SeedRow, LoanStatus
<1>4. loans \in [Loans -> LoanRow] /\ RowsFilled
  BY <1>2, <1>3 DEF Init, RowsFilled, NotInserted
<1>5. assets \in [Assets -> AssetRow]
  BY DEF Init, AssetRow, AssetStatus
<1>6. lockers \in [Lockers -> LockerStatus]
  BY DEF Init, LockerStatus
<1>7. inflight \in [Handlers -> Request]
  BY DEF Init, Request
<1> QED
  BY <1>4, <1>5, <1>6, <1>7 DEF Init, Typed, TypeOK, ReturnedInserted

(* A transition keeps the loan and the asset table typed.                  *)
LEMMA TransitionTyped ==
    ASSUME Typed, NEW l \in Loans, NEW to \in LoanStatus, Transition(l, to)
    PROVE  /\ loans' \in [Loans -> LoanRow]
           /\ RowsFilled'
           /\ assets' \in [Assets -> AssetRow]
           /\ loans[l].asset \in Assets
           /\ \A m \in Loans : loans[m].status # "NONE" => loans'[m].status # "NONE"
           /\ loans'[l].status # "NONE"
<1>1. TypeOK /\ RowsFilled
  BY DEF Typed
<1> PICK late \in BOOLEAN : loans' = [loans EXCEPT ![l] = MovedWith(l, to, late)]
  BY DEF Transition
<1> DEFINE row == MovedWith(l, to, late)
<1>2. /\ row \in LoanRow
      /\ row.status = to
      /\ row.user = loans[l].user
      /\ row.asset = loans[l].asset
      /\ row.checkoutLocker = loans[l].checkoutLocker
  BY <1>1, MovedWithType
<1>3. loans[l].status # "NONE"
  BY LegalEnds DEF Transition
<1>4. /\ loans[l].user \in Users
      /\ loans[l].asset \in Assets
      /\ loans[l].checkoutLocker \in Lockers
  BY <1>1, <1>3 DEF RowsFilled
<1>5. loans' = [loans EXCEPT ![l] = row]
  OBVIOUS
<1> HIDE DEF row
<1>6. loans' \in [Loans -> LoanRow]
  BY <1>1, <1>2, <1>5 DEF TypeOK
<1>7. RowsFilled'
  BY <1>1, <1>2, <1>4, <1>5 DEF TypeOK, RowsFilled
<1>8. assets' \in [Assets -> AssetRow]
  BY <1>1, <1>4, AssetsAfterType DEF Transition
<1>9. row.status # "NONE"
  BY <1>2 DEF LoanStatus
<1>10. /\ \A m \in Loans : loans[m].status # "NONE" => loans'[m].status # "NONE"
       /\ loans'[l].status # "NONE"
  BY <1>1, <1>5, <1>9 DEF TypeOK
<1> QED
  BY <1>4, <1>6, <1>7, <1>8, <1>10

(* The columns a transition writes besides, each by its own action.        *)
LEMMA MovesTyped ==
    ASSUME Typed, NEW l \in Loans, Moves(l)
    PROVE  Typed'
<1>1. PICK to \in LoanStatus : Transition(l, to)
  BY MovesAreTransitions
<1>2. /\ loans' \in [Loans -> LoanRow]
      /\ RowsFilled'
      /\ assets' \in [Assets -> AssetRow]
      /\ loans[l].user \in Users
      /\ loans[l].asset \in Assets
  <2>1. loans[l].status # "NONE"
    BY <1>1, LegalEnds DEF Transition
  <2> QED
    BY <1>1, <2>1, TransitionTyped DEF Typed, RowsFilled
<1>3. lockers' \in [Lockers -> LockerStatus]
  <2>1. ASSUME NEW t, NEW ks, lockers' = LockersAfter(l, t, ks)
        PROVE  lockers' \in [Lockers -> LockerStatus]
    BY <2>1, LockersAfterType DEF Typed
  <2>2. ASSUME NEW type, NEW t, NEW where, VisionTransition(l, type, t, where)
        PROVE  lockers' \in [Lockers -> LockerStatus]
    BY <2>1, <2>2 DEF VisionTransition
  <2>3. CASE \E h \in Handlers, type \in EvaluationType : VisionFailed(h, l, type)
    BY <2>2, <2>3 DEF VisionFailed
  <2>4. CASE \E h \in Handlers : CheckoutConfirmed(h, l) \/ CheckoutFraud(h, l)
    BY <2>1, <2>2, <2>4 DEF CheckoutConfirmed, CheckoutFraud
  <2>5. CASE \E h \in Handlers : ReturnQuarantined(h, l) \/ ReturnConfirmed(h, l)
    BY <2>2, <2>5 DEF ReturnQuarantined, ReturnConfirmed
  <2>6. CASE ReportDamage(l) \/ TimeoutReserved(l) \/ TimeoutReturning(l)
    BY <2>1, <2>6 DEF ReportDamage, TimeoutReserved, TimeoutReturning
  <2>7. CASE \E e \in evaluations : e.loan = l /\ JudgeApproves(e)
    BY <2>1, <2>7 DEF JudgeApproves
  <2>8. CASE \E e \in evaluations : e.loan = l /\ JudgeRejects(e)
    BY <2>1, <2>8 DEF JudgeRejects
  <2> QED
    BY <2>3, <2>4, <2>5, <2>6, <2>7, <2>8 DEF Moves
<1>4. evaluations' \subseteq [loan: Loans, type: EvaluationType]
  <2>1. ASSUME NEW type \in EvaluationType, RecordEvaluation(l, type)
        PROVE  evaluations' \subseteq [loan: Loans, type: EvaluationType]
    BY <2>1 DEF RecordEvaluation, Typed, TypeOK
  <2>2. "CHECKOUT" \in EvaluationType /\ "RETURN" \in EvaluationType
    BY DEF EvaluationType
  <2>3. CASE UNCHANGED evaluations
    BY <2>3 DEF Typed, TypeOK
  <2> QED
    BY <2>1, <2>2, <2>3 DEF Moves, VisionFailed, CheckoutConfirmed, CheckoutFraud,
       ReturnQuarantined, ReturnConfirmed, ReportDamage, JudgeApproves, JudgeRejects,
       TimeoutReserved, TimeoutReturning
<1>5. lastReturned' \in [Assets -> Loans \cup {NoLoan}] /\ ReturnedInserted'
  <2>1. lastReturned' = lastReturned
           \/ lastReturned' = [lastReturned EXCEPT ![loans[l].asset] = l]
    BY DEF Moves, VisionFailed, CheckoutConfirmed, CheckoutFraud,
       ReturnQuarantined, ReturnConfirmed, ReportDamage, JudgeApproves, JudgeRejects,
       TimeoutReserved, TimeoutReturning
  <2>2. /\ \A m \in Loans : loans[m].status # "NONE" => loans'[m].status # "NONE"
        /\ loans'[l].status # "NONE"
    BY <1>1, TransitionTyped
  <2> QED
    BY <1>2, <2>1, <2>2 DEF Typed, TypeOK, ReturnedInserted
<1>6. inflight' \in [Handlers -> Request]
  BY DEF Typed, TypeOK, Moves, VisionFailed, CheckoutConfirmed, CheckoutFraud,
     ReturnQuarantined, ReturnConfirmed, Finish, Request, ReportDamage,
     JudgeApproves, JudgeRejects, TimeoutReserved, TimeoutReturning
<1>7. suspended' \subseteq Users
  <2>1. CASE ReportDamage(l)
    <3>1. PreviousBorrowers(loans[l].asset) \subseteq Users
      BY <1>2 DEF PreviousBorrowers, Typed, RowsFilled, ReturnedInserted
    <3> QED
      BY <1>2, <2>1, <3>1 DEF ReportDamage, Typed, TypeOK
  <2>2. CASE UNCHANGED suspended
    BY <2>2 DEF Typed, TypeOK
  <2> QED
    BY <2>1, <2>2 DEF Moves, VisionFailed, CheckoutConfirmed, CheckoutFraud,
       ReturnQuarantined, ReturnConfirmed, JudgeApproves, JudgeRejects,
       TimeoutReserved, TimeoutReturning
<1>8. declared' \subseteq Assets /\ placed' \subseteq Assets
  BY MovesKeepHistory DEF HistoryKept, Typed, TypeOK
<1> QED
  BY <1>2, <1>3, <1>4, <1>5, <1>6, <1>7, <1>8 DEF Typed, TypeOK

-----------------------------------------------------------------------------
(* A step either moves a loan or is one of the remaining actions.          *)
Bookkeeping ==
    \/ \E h \in Handlers, u \in Users, a \in Assets : CheckoutBegin(h, u, a)
    \/ \E h \in Handlers, u \in Users, l \in Loans, kiosk \in Kiosks :
          ReturnBegin(h, u, l, kiosk)
    \/ \E h \in Handlers, l \in Loans, type \in EvaluationType : VisionBegin(h, l, type)
    \/ \E h \in Handlers : RequestAborts(h)
    \/ \E k \in Lockers, s \in LockerPatches : UpdateLockerStatus(k, s)
    \/ \E u \in Users : SuspensionEnds(u)

Ticks(l) ==
    \/ DeadlinePasses(l) \/ GraceEnds(l) \/ DueDatePasses(l)
    \/ FetchTimedOut(l) \/ SkipTimedOut(l) \/ FetchOverdue(l) \/ SkipOverdue(l)

(* Next, regrouped for the proofs.                                         *)
LEMMA StepCases ==
    ASSUME Typed, Next
    PROVE  \/ \E l \in Loans : Moves(l) \/ MarkOverdue(l) \/ Ticks(l)
           \/ \E h \in Handlers, l \in Loans : CheckoutCommit(h, l)
           \/ \E h \in Handlers, k \in Lockers : ReturnCommit(h, k)
           \/ \E a \in Assets, s \in AssetPatches \cup {"KEEP"},
                 k \in Relocations \cup {NoLocker} : UpdateAsset(a, s, k)
           \/ \E a \in Assets : SoftDeleteAsset(a)
           \/ Bookkeeping
<1>1. \A e \in evaluations : e.loan \in Loans
  BY DEF Typed, TypeOK
<1>2. CASE JudgeEvaluation
  BY <1>1, <1>2 DEF JudgeEvaluation, Moves
<1>3. CASE AnalyzeImage
  BY <1>3 DEF AnalyzeImage, Moves, Bookkeeping
<1>4. CASE Workers
  BY <1>4 DEF Workers, Moves, Ticks
<1>5. CASE Checkout \/ Return
  BY <1>5 DEF Checkout, Return, Bookkeeping
<1>6. CASE Equipment \/ Time
  BY <1>6 DEF Equipment, Time, Ticks, Bookkeeping
<1>7. CASE \E h \in Handlers : RequestAborts(h)
  BY <1>7 DEF Bookkeeping
<1>8. CASE \E l \in Loans : ReportDamage(l)
  BY <1>8 DEF Moves
<1> QED
  BY <1>2, <1>3, <1>4, <1>5, <1>6, <1>7, <1>8 DEF Next

(* The clock, and the queries of the workers, write dates and nothing else.*)
LEMMA TickShape ==
    ASSUME Typed, NEW l \in Loans, Ticks(l)
    PROVE  /\ \E row \in LoanRow : /\ loans' = [loans EXCEPT ![l] = row]
                                  /\ row.status = loans[l].status
                                  /\ row.user = loans[l].user
                                  /\ row.asset = loans[l].asset
                                  /\ row.checkoutLocker = loans[l].checkoutLocker
                                  /\ row.returnLocker = loans[l].returnLocker
           /\ UNCHANGED <<assets, lockers, evaluations, lastReturned, suspended, inflight, history>>
<1> DEFINE Same(row) == /\ row \in LoanRow
                        /\ row.status = loans[l].status
                        /\ row.user = loans[l].user
                        /\ row.asset = loans[l].asset
                        /\ row.checkoutLocker = loans[l].checkoutLocker
                        /\ row.returnLocker = loans[l].returnLocker
<1>0. loans[l] \in LoanRow
  BY DEF Typed, TypeOK
<1>1. ASSUME NEW s \in {"no", "past", "fetched"} PROVE Same([loans[l] EXCEPT !.stale = s])
  BY <1>0 DEF LoanRow
<1>2. ASSUME NEW d \in {"none", "ahead", "past", "fetched"}
      PROVE  Same([loans[l] EXCEPT !.due = d])
  BY <1>0 DEF LoanRow
<1>3. Same([loans[l] EXCEPT !.late = TRUE])
  BY <1>0 DEF LoanRow
<1>4. \E row : Same(row) /\ loans' = [loans EXCEPT ![l] = row]
  <2> HIDE DEF Same
  <2>1. CASE DeadlinePasses(l) \/ FetchTimedOut(l) \/ SkipTimedOut(l)
    BY <1>1, <2>1 DEF DeadlinePasses, FetchTimedOut, SkipTimedOut
  <2>2. CASE DueDatePasses(l) \/ FetchOverdue(l) \/ SkipOverdue(l)
    BY <1>2, <2>2 DEF DueDatePasses, FetchOverdue, SkipOverdue
  <2>3. CASE GraceEnds(l)
    BY <1>3, <2>3 DEF GraceEnds
  <2> QED
    BY <2>1, <2>2, <2>3 DEF Ticks
<1>5. UNCHANGED <<assets, lockers, evaluations, lastReturned, suspended, inflight, history>>
  BY DEF Ticks, DeadlinePasses, GraceEnds, DueDatePasses, FetchTimedOut, SkipTimedOut,
     FetchOverdue, SkipOverdue
<1> QED
  BY <1>4, <1>5

(* Every step keeps them typed, one action at a time.                      *)
LEMMA TypedStep == Typed /\ [Next]_vars => Typed'
<1> SUFFICES ASSUME Typed, [Next]_vars PROVE Typed'
  OBVIOUS
<1> USE CoreConstants
<1>1. CASE UNCHANGED vars
  BY <1>1 DEF vars, history, Typed, TypeOK, RowsFilled, ReturnedInserted
<1>2. ASSUME NEW l \in Loans, Moves(l) PROVE Typed'
  BY <1>2, MovesTyped
<1>3. ASSUME NEW l \in Loans, MarkOverdue(l) \/ Ticks(l) PROVE Typed'
  <2>1. PICK row \in LoanRow : /\ loans' = [loans EXCEPT ![l] = row]
                               /\ row.user = loans[l].user
                               /\ row.asset = loans[l].asset
                               /\ row.checkoutLocker = loans[l].checkoutLocker
                               /\ row.status = "NONE" <=> loans[l].status = "NONE"
    <3>1. CASE MarkOverdue(l)
      BY <3>1, MovedType DEF MarkOverdue, Typed, LoanStatus
    <3> QED
      BY <1>3, <3>1, TickShape
  <2>2. UNCHANGED <<assets, lockers, evaluations, lastReturned, suspended, inflight, history>>
    BY <1>3, TickShape DEF MarkOverdue
  <2> QED
    BY <2>1, <2>2 DEF Typed, TypeOK, RowsFilled, ReturnedInserted, history
<1>4. ASSUME NEW h \in Handlers, NEW l \in Loans, CheckoutCommit(h, l) PROVE Typed'
  <2> DEFINE a == inflight[h].asset
             row == [NotInserted EXCEPT !.status = "RESERVED", !.user = inflight[h].user,
                                        !.asset = a, !.checkoutLocker = assets[a].locker]
  <2>1. inflight[h] \in Request /\ inflight[h].op = "checkout"
    BY <1>4 DEF CheckoutCommit, Typed, TypeOK
  <2>2. a \in Assets /\ inflight[h].user \in Users
    BY <2>1 DEF Request, Idle
  <2>3. assets[a].locker \in Lockers /\ assets[a] \in AssetRow
    BY <1>4, <2>2 DEF CheckoutCommit, Borrowable, Typed, TypeOK, AssetRow
  <2>4. row \in LoanRow /\ row.status # "NONE" /\ row.user \in Users
           /\ row.asset \in Assets /\ row.checkoutLocker \in Lockers
    BY <2>2, <2>3 DEF NotInserted, LoanRow, LoanStatus
  <2>5. loans' = [loans EXCEPT ![l] = row]
    BY <1>4 DEF CheckoutCommit
  <2>6. assets' \in [Assets -> AssetRow]
    BY <1>4, <2>2, <2>3, AssetOutcomeType DEF CheckoutCommit, Typed, TypeOK, AssetRow
  <2>7. inflight' \in [Handlers -> Request]
    BY <1>4 DEF CheckoutCommit, Finish, Request, Typed, TypeOK
  <2>8. UNCHANGED <<lockers, evaluations, lastReturned, suspended, declared, placed>>
    BY <1>4 DEF CheckoutCommit, history
  <2> HIDE DEF row
  <2> QED
    BY <2>4, <2>5, <2>6, <2>7, <2>8 DEF Typed, TypeOK, RowsFilled, ReturnedInserted
<1>5. ASSUME NEW h \in Handlers, NEW k \in Lockers, ReturnCommit(h, k) PROVE Typed'
  <2> DEFINE l == inflight[h].loan
             row == [Moved(l, "RETURNING") EXCEPT !.returnLocker = k]
  <2>1. inflight[h] \in Request /\ inflight[h].op = "return"
    BY <1>5 DEF ReturnCommit, Typed, TypeOK
  <2>2. l \in Loans
    BY <2>1 DEF Request, Idle
  <2>3. loans[l].status # "NONE"
    BY <1>5 DEF ReturnCommit, StillReturnable, Returnable
  <2>4. /\ row \in LoanRow
        /\ row.status = "RETURNING"
        /\ row.user = loans[l].user
        /\ row.asset = loans[l].asset
        /\ row.checkoutLocker = loans[l].checkoutLocker
    <3>1. /\ Moved(l, "RETURNING") \in LoanRow
          /\ Moved(l, "RETURNING").status = "RETURNING"
          /\ Moved(l, "RETURNING").user = loans[l].user
          /\ Moved(l, "RETURNING").asset = loans[l].asset
          /\ Moved(l, "RETURNING").checkoutLocker = loans[l].checkoutLocker
      BY <2>2, MovedType DEF Typed, LoanStatus
    <3> HIDE DEF l
    <3> QED
      BY <3>1 DEF LoanRow
  <2>5. loans' = [loans EXCEPT ![l] = row]
    BY <1>5 DEF ReturnCommit
  <2>6. lockers' \in [Lockers -> LockerStatus]
    BY <1>5, LockersAfterType DEF ReturnCommit, Typed
  <2>7. inflight' \in [Handlers -> Request]
    BY <1>5 DEF ReturnCommit, Finish, Request, Typed, TypeOK
  <2>8. UNCHANGED <<assets, evaluations, lastReturned, suspended, declared, placed>>
    BY <1>5 DEF ReturnCommit, history
  <2> HIDE DEF row, l
  <2> QED
    BY <2>2, <2>3, <2>4, <2>5, <2>6, <2>7, <2>8
    DEF Typed, TypeOK, RowsFilled, ReturnedInserted
<1>6. ASSUME NEW a \in Assets, NEW s \in AssetPatches \cup {"KEEP"},
             NEW k \in Relocations \cup {NoLocker}, UpdateAsset(a, s, k)
      PROVE  Typed'
  <2>1. Applied(s, assets[a].status) \in AssetStatus
    BY DEF Applied, Typed, TypeOK, AssetRow
  <2>2. assets' \in [Assets -> AssetRow]
    BY <1>6, <2>1 DEF UpdateAsset, Typed, TypeOK, AssetRow
  <2> QED
    BY <1>6, <2>2 DEF UpdateAsset, Typed, TypeOK, RowsFilled, ReturnedInserted
<1>7. ASSUME NEW a \in Assets, SoftDeleteAsset(a) PROVE Typed'
  <2>1. assets' \in [Assets -> AssetRow]
    BY <1>7 DEF SoftDeleteAsset, Typed, TypeOK, AssetRow
  <2>2. lockers' \in [Lockers -> LockerStatus]
    BY <1>7 DEF SoftDeleteAsset, Typed, TypeOK, LockerStatus
  <2> QED
    BY <1>7, <2>1, <2>2 DEF SoftDeleteAsset, history, Typed, TypeOK, RowsFilled, ReturnedInserted
<1>8. CASE Bookkeeping
  <2>1. UNCHANGED <<loans, assets, evaluations, lastReturned, declared, placed>>
    BY <1>8 DEF history, Bookkeeping, CheckoutBegin, ReturnBegin, VisionBegin, RequestAborts,
       UpdateLockerStatus, SuspensionEnds
  <2>2. lockers' \in [Lockers -> LockerStatus]
    BY <1>8 DEF Bookkeeping, CheckoutBegin, ReturnBegin, VisionBegin, RequestAborts,
       UpdateLockerStatus, SuspensionEnds, Typed, TypeOK
  <2>3. suspended' \subseteq Users
    BY <1>8 DEF Bookkeeping, CheckoutBegin, ReturnBegin, VisionBegin, RequestAborts,
       UpdateLockerStatus, SuspensionEnds, Typed, TypeOK
  <2>4. inflight' \in [Handlers -> Request]
    BY <1>8 DEF Bookkeeping, CheckoutBegin, ReturnBegin, VisionBegin, RequestAborts,
       UpdateLockerStatus, SuspensionEnds, Accept, Finish, Request, Typed, TypeOK
  <2> QED
    BY <2>1, <2>2, <2>3, <2>4 DEF Typed, TypeOK, RowsFilled, ReturnedInserted
<1> QED
  BY <1>1, <1>2, <1>3, <1>4, <1>5, <1>6, <1>7, <1>8, StepCases

(* Types and filled rows hold in every reachable state.                    *)
LEMMA AlwaysTyped == Spec => []Typed
<1>1. QED
  BY TypedInit, TypedStep, PTL DEF Spec

(* Every reachable state is well typed.                                    *)
THEOREM TypeCorrect == Spec => []TypeOK
<1>1. Typed => TypeOK
  BY DEF Typed
<1> QED
  BY <1>1, AlwaysTyped, PTL

-----------------------------------------------------------------------------
(* What was overruled.  An asset leaves the history only when no loan      *)
(* holds it, and gets into it only by an administrator's hand.             *)

Patches(a) ==
    \E s \in AssetPatches \cup {"KEEP"}, k \in Relocations \cup {NoLocker} : UpdateAsset(a, s, k)

LEMMA HistorySteps ==
    ASSUME Typed, [Next]_vars
    PROVE  \/ UNCHANGED <<declared, placed>>
           \/ HistoryKept
           \/ \E a \in Assets : Patches(a)
<1>1. CASE UNCHANGED vars
  BY <1>1 DEF vars, history
<1>2. CASE \E l \in Loans : Moves(l)
  BY <1>2, MovesKeepHistory
<1>3. CASE \E l \in Loans : MarkOverdue(l) \/ Ticks(l)
  BY <1>3, TickShape DEF MarkOverdue, history
<1>4. CASE \/ \E h \in Handlers, l \in Loans : CheckoutCommit(h, l)
           \/ \E h \in Handlers, k \in Lockers : ReturnCommit(h, k)
           \/ \E a \in Assets : SoftDeleteAsset(a)
  BY <1>4 DEF CheckoutCommit, ReturnCommit, SoftDeleteAsset, history
<1>5. CASE Bookkeeping
  BY <1>5 DEF Bookkeeping, CheckoutBegin, ReturnBegin, VisionBegin, RequestAborts,
     UpdateLockerStatus, SuspensionEnds, history
<1> QED
  BY <1>1, <1>2, <1>3, <1>4, <1>5, StepCases DEF Patches

LEMMA HistoryLapses ==
    ASSUME Typed, [Next]_vars, NEW a \in Assets,
           \/ a \in declared /\ a \notin declared'
           \/ a \in placed /\ a \notin placed'
    PROVE  \A l \in Loans : ~Holds(l, a)'
<1>1. CASE HistoryKept
  BY <1>1 DEF HistoryKept, HeldAssets, Held
<1>2. CASE \E b \in Assets : Patches(b)
  BY <1>2 DEF Patches, UpdateAsset
<1> QED
  BY <1>1, <1>2, HistorySteps

-----------------------------------------------------------------------------
(* Custody.  Neither OneHolder nor BorrowableMeansFree is inductive alone: *)
(* checkout preserves the first only because the second holds before, and  *)
(* a completed return preserves the second only because the first does.    *)
(* Both are taken asset by asset, as an asset may join the exempted ones   *)
(* or come back from them.                                                 *)
CustodyAt(a) ==
    /\ \A l, m \in Loans : Holds(l, a) /\ Holds(m, a) => l = m
    /\ assets[a].status = "AVAILABLE" => \A l \in Loans : ~Holds(l, a)

DeclaredHeld == declared \subseteq HeldAssets

CustodyInv == Typed /\ OneHolder /\ BorrowableMeansFree /\ DeclaredHeld

LEMMA CustodyPointwise ==
    OneHolder /\ BorrowableMeansFree <=> \A a \in Assets \ declared : CustodyAt(a)
BY DEF OneHolder, BorrowableMeansFree, CustodyAt

LEMMA CustodyPointwiseNext ==
    ASSUME \A a \in Assets \ declared' : CustodyAt(a)'
    PROVE  (OneHolder /\ BorrowableMeansFree)'
BY DEF OneHolder, BorrowableMeansFree, CustodyAt

(* Only seeded loans hold an asset at the start, each one of its own.      *)
LEMMA CustodyInit == Init => CustodyInv
<1> SUFFICES ASSUME Init PROVE OneHolder /\ BorrowableMeansFree /\ DeclaredHeld
  BY TypedInit DEF CustodyInv
<1> USE CoreConstants
<1>1. ASSUME NEW l \in Loans, NEW a \in Assets, Holds(l, a)
      PROVE  l \in DOMAIN Seed /\ Seed[l].asset = a
  BY <1>1 DEF Init, Holds, Holding, NotInserted, SeededLoan
<1>2. OneHolder
  BY <1>1 DEF OneHolder
<1>3. ASSUME NEW l \in Loans, NEW a \in Assets, Holds(l, a)
      PROVE  assets[a].status # "AVAILABLE"
  BY <1>1, <1>3 DEF Init, SeededOut
<1>4. BorrowableMeansFree
  BY <1>3 DEF BorrowableMeansFree
<1>5. DeclaredHeld
  BY DEF Init, DeclaredHeld
<1> QED
  BY <1>2, <1>4, <1>5

(* A step under which no loan begins to hold the asset and which does not  *)
(* make it AVAILABLE while it is held keeps its custody.                   *)
LEMMA CustodyKept ==
    ASSUME NEW a \in Assets, CustodyAt(a),
           \A l \in Loans : Holds(l, a)' => Holds(l, a),
           \A l \in Loans :
               Holds(l, a)' /\ assets[a].status # "AVAILABLE" => assets'[a].status # "AVAILABLE"
    PROVE  CustodyAt(a)'
<1>1. ASSUME NEW l \in Loans, NEW m \in Loans, Holds(l, a)', Holds(m, a)'
      PROVE  l = m
  BY <1>1 DEF CustodyAt
<1>2. ASSUME NEW l \in Loans, Holds(l, a)'
      PROVE  assets'[a].status # "AVAILABLE"
  BY <1>2 DEF CustodyAt
<1> QED
  BY <1>1, <1>2 DEF CustodyAt

(* What a transition does to the statuses custody looks at.                *)
LEMMA TransitionShape ==
    ASSUME Typed, NEW l \in Loans, NEW to \in LoanStatus, Transition(l, to)
    PROVE  /\ loans[l].asset \in Assets
           /\ loans'[l].status = to /\ loans'[l].asset = loans[l].asset
           /\ \A m \in Loans : m # l => loans'[m] = loans[m]
           /\ \A a \in Assets : a # loans[l].asset => assets'[a] = assets[a]
           /\ assets'[loans[l].asset].status =
                 Applied(AssetOutcome(loans[l].status, to), assets[loans[l].asset].status)
<1>1. TypeOK /\ loans[l].asset \in Assets
  BY TransitionTyped DEF Typed
<1>2. PICK late \in BOOLEAN : loans' = [loans EXCEPT ![l] = MovedWith(l, to, late)]
  BY DEF Transition
<1>3. loans'[l] = MovedWith(l, to, late) /\ \A m \in Loans : m # l => loans'[m] = loans[m]
  BY <1>1, <1>2 DEF TypeOK
<1>4. MovedWith(l, to, late).status = to /\ MovedWith(l, to, late).asset = loans[l].asset
  BY <1>1, MovedWithType
<1>5. PICK where \in Lockers \cup {NoLocker} : assets' = AssetsAfter(l, to, where)
  BY DEF Transition
<1> QED
  BY <1>1, <1>3, <1>4, <1>5, AssetsAfterType

(* No photo, report, verdict or timeout breaks the custody of an asset.    *)
LEMMA MovesKeepCustody ==
    ASSUME Typed, NEW l \in Loans, Moves(l), NEW a \in Assets, CustodyAt(a)
    PROVE  CustodyAt(a)'
<1>1. PICK to \in LoanStatus : Transition(l, to)
  BY MovesAreTransitions
<1> DEFINE b == loans[l].asset
           from == loans[l].status
<1>2. /\ b \in Assets
      /\ loans'[l].status = to /\ loans'[l].asset = b
      /\ \A m \in Loans : m # l => loans'[m] = loans[m]
      /\ \A c \in Assets : c # b => assets'[c] = assets[c]
      /\ assets'[b].status = Applied(AssetOutcome(from, to), assets[b].status)
  BY <1>1, TransitionShape
<1>3. Legal(from, to) /\ from # "NONE" /\ to # "RETURNING"
  BY <1>1, LegalEnds DEF Transition
<1>4. ASSUME NEW m \in Loans, Holds(m, a)'
      PROVE  Holds(m, a)
  BY <1>2, <1>3, <1>4, HoldingIsNotReentered DEF Holds
<1>5. ASSUME NEW m \in Loans, Holds(m, a)', assets[a].status # "AVAILABLE"
      PROVE  assets'[a].status # "AVAILABLE"
  <2>1. CASE a # b
    BY <1>2, <1>5, <2>1
  <2>2. CASE a = b
    <3>1. SUFFICES ASSUME assets'[b].status = "AVAILABLE" PROVE FALSE
      BY <2>2
    <3>2. to \notin Holding /\ from \in Holding
      BY <1>2, <1>3, <3>1, AvailableReleases
    <3>3. Holds(l, a) /\ Holds(m, a)
      BY <1>4, <1>5, <2>2, <3>2 DEF Holds
    <3>4. m = l
      BY <3>3 DEF CustodyAt
    <3> QED
      BY <1>2, <1>5, <3>2, <3>4 DEF Holds
  <2> QED
    BY <2>1, <2>2
<1> QED
  BY <1>4, <1>5, CustodyKept

(* checkout: the asset was AVAILABLE under the lock.                       *)
LEMMA CheckoutShape ==
    ASSUME Typed, NEW h \in Handlers, NEW l \in Loans, CheckoutCommit(h, l)
    PROVE  /\ UNCHANGED declared
           /\ \E a \in Assets :
                 /\ assets[a].status = "AVAILABLE"
                 /\ loans[l].status = "NONE"
                 /\ loans'[l].status = "RESERVED" /\ loans'[l].asset = a
                 /\ \A m \in Loans : m # l => loans'[m] = loans[m]
                 /\ assets'[a].status = "BORROWED"
                 /\ \A b \in Assets : b # a => assets'[b] = assets[b]
<1> DEFINE a == inflight[h].asset
           row == [NotInserted EXCEPT !.status = "RESERVED", !.user = inflight[h].user,
                                      !.asset = a, !.checkoutLocker = assets[a].locker]
<1>1. inflight[h] \in Request /\ inflight[h].op = "checkout"
  BY DEF CheckoutCommit, Typed, TypeOK
<1>2. a \in Assets
  BY <1>1 DEF Request, Idle
<1>3. assets[a].status = "AVAILABLE" /\ UNCHANGED declared
  BY DEF CheckoutCommit, Borrowable, history
<1>4. row.status = "RESERVED" /\ row.asset = a
  BY DEF NotInserted
<1>5. loans' = [loans EXCEPT ![l] = row]
  BY DEF CheckoutCommit
<1>6. assets' = [assets EXCEPT ![a].status =
                    Applied(AssetOutcome("NONE", "RESERVED"), assets[a].status)]
  BY DEF CheckoutCommit
<1>7. Applied(AssetOutcome("NONE", "RESERVED"), assets[a].status) = "BORROWED"
  BY DEF Applied, AssetOutcome
<1>8. assets'[a].status = "BORROWED" /\ \A b \in Assets : b # a => assets'[b] = assets[b]
  BY <1>2, <1>6, <1>7 DEF Typed, TypeOK, AssetRow
<1> HIDE DEF row, a
<1>9. loans'[l] = row /\ \A m \in Loans : m # l => loans'[m] = loans[m]
  BY <1>5 DEF Typed, TypeOK
<1> QED
  BY <1>2, <1>3, <1>4, <1>8, <1>9 DEF CheckoutCommit

(* return/initiate: one loan goes from a returnable status to RETURNING.   *)
LEMMA ReturnShape ==
    ASSUME Typed, NEW h \in Handlers, NEW k \in Lockers, ReturnCommit(h, k)
    PROVE  /\ \E l \in Loans : /\ loans[l].status \in Returnable
                               /\ loans'[l].status = "RETURNING"
                               /\ loans'[l].asset = loans[l].asset
                               /\ \A m \in Loans : m # l => loans'[m] = loans[m]
           /\ UNCHANGED assets
<1> DEFINE l == inflight[h].loan
           row == [Moved(l, "RETURNING") EXCEPT !.returnLocker = k]
<1>1. inflight[h] \in Request /\ inflight[h].op = "return"
  BY DEF ReturnCommit, Typed, TypeOK
<1>2. l \in Loans
  BY <1>1 DEF Request, Idle
<1>3. row.status = "RETURNING" /\ row.asset = loans[l].asset
  BY <1>2, MovedType DEF Typed, LoanRow, LoanStatus
<1>4. loans' = [loans EXCEPT ![l] = row]
  BY DEF ReturnCommit
<1>5. loans[l].status \in Returnable /\ UNCHANGED assets
  BY DEF ReturnCommit, StillReturnable
<1> HIDE DEF row, l
<1>6. loans'[l] = row /\ \A m \in Loans : m # l => loans'[m] = loans[m]
  BY <1>2, <1>4 DEF Typed, TypeOK
<1> QED
  BY <1>2, <1>3, <1>5, <1>6

(* The overdue worker and the clock leave custody alone.                   *)
LEMMA QuietShape ==
    ASSUME Typed, NEW l \in Loans, MarkOverdue(l) \/ Ticks(l)
    PROVE  /\ UNCHANGED assets
           /\ \A m \in Loans : /\ loans'[m].asset = loans[m].asset
                               /\ \/ loans'[m].status = loans[m].status
                                  \/ loans[m].status = "ACTIVE" /\ loans'[m].status = "OVERDUE"
<1>1. CASE MarkOverdue(l)
  <2>1. Moved(l, "OVERDUE").status = "OVERDUE" /\ Moved(l, "OVERDUE").asset = loans[l].asset
    BY MovedType DEF Typed, LoanStatus
  <2> QED
    BY <1>1, <2>1 DEF MarkOverdue, Typed, TypeOK
<1>2. CASE Ticks(l)
  BY <1>2, TickShape DEF Typed, TypeOK
<1> QED
  BY <1>1, <1>2

(* Every step keeps the custody of an asset that is not, or no longer,     *)
(* overruled.                                                              *)
LEMMA CustodyAtStep ==
    ASSUME CustodyInv, [Next]_vars, NEW a \in Assets, a \notin declared'
    PROVE  CustodyAt(a)'
<1>0. Typed
  BY DEF CustodyInv
<1>a. CASE a \in declared
  BY <1>0, <1>a, HistoryLapses DEF CustodyAt
<1>b. CASE a \notin declared
  <2>0. CustodyAt(a)
    BY <1>b, CustodyPointwise DEF CustodyInv
  <2>1. CASE UNCHANGED vars
    BY <2>0, <2>1 DEF vars, CustodyAt, Holds
  <2>2. ASSUME NEW l \in Loans, Moves(l) PROVE CustodyAt(a)'
    BY <1>0, <2>0, <2>2, MovesKeepCustody
  <2>3. ASSUME NEW l \in Loans, MarkOverdue(l) \/ Ticks(l) PROVE CustodyAt(a)'
    <3>1. /\ UNCHANGED assets
          /\ \A m \in Loans : /\ loans'[m].asset = loans[m].asset
                              /\ \/ loans'[m].status = loans[m].status
                                 \/ loans[m].status = "ACTIVE" /\ loans'[m].status = "OVERDUE"
      BY <1>0, <2>3, QuietShape
    <3> QED
      BY <2>0, <3>1, CustodyKept DEF Holds, Holding
  <2>4. ASSUME NEW h \in Handlers, NEW l \in Loans, CheckoutCommit(h, l)
        PROVE  CustodyAt(a)'
    <3>1. PICK b \in Assets :
             /\ assets[b].status = "AVAILABLE"
             /\ loans[l].status = "NONE"
             /\ loans'[l].status = "RESERVED" /\ loans'[l].asset = b
             /\ \A m \in Loans : m # l => loans'[m] = loans[m]
             /\ assets'[b].status = "BORROWED"
             /\ \A c \in Assets : c # b => assets'[c] = assets[c]
      BY <1>0, <2>4, CheckoutShape
    <3>2. \A m \in Loans : Holds(m, a)' => Holds(m, a) \/ (m = l /\ b = a)
      BY <3>1 DEF Holds
    <3>3. CASE a = b
      <4>1. \A m \in Loans : ~Holds(m, a)
        BY <2>0, <3>1, <3>3 DEF CustodyAt
      <4>2. assets'[a].status # "AVAILABLE"
        BY <3>1, <3>3
      <4>3. \A m \in Loans : Holds(m, a)' => m = l
        BY <3>2, <4>1
      <4> QED
        BY <4>2, <4>3 DEF CustodyAt
    <3>4. CASE a # b
      BY <2>0, <3>1, <3>2, <3>4, CustodyKept
    <3> QED
      BY <3>3, <3>4
  <2>5. ASSUME NEW h \in Handlers, NEW k \in Lockers, ReturnCommit(h, k)
        PROVE  CustodyAt(a)'
    <3>1. /\ \E l \in Loans : /\ loans[l].status \in Returnable
                              /\ loans'[l].status = "RETURNING"
                              /\ loans'[l].asset = loans[l].asset
                              /\ \A m \in Loans : m # l => loans'[m] = loans[m]
          /\ UNCHANGED assets
      BY <1>0, <2>5, ReturnShape
    <3>2. \A m \in Loans : Holds(m, a)' => Holds(m, a)
      BY <3>1 DEF Holds, Holding, Returnable
    <3> QED
      BY <2>0, <3>1, <3>2, CustodyKept
  <2>6. ASSUME NEW b \in Assets, NEW s \in AssetPatches \cup {"KEEP"},
               NEW k \in Relocations \cup {NoLocker}, UpdateAsset(b, s, k)
        PROVE  CustodyAt(a)'
    <3>1. \A l \in Loans : Holds(l, a)' <=> Holds(l, a)
      BY <2>6 DEF UpdateAsset, Holds
    <3>2. CASE a = b /\ s = "AVAILABLE"
      <4>1. \A l \in Loans : ~Holds(l, a)
        BY <2>6, <3>2 DEF UpdateAsset, Held
      <4> QED
        BY <3>1, <4>1 DEF CustodyAt
    <3>3. CASE ~(a = b /\ s = "AVAILABLE")
      <4>1. assets[a].status # "AVAILABLE" => assets'[a].status # "AVAILABLE"
        BY <1>0, <2>6, <3>3 DEF UpdateAsset, Applied, Typed, TypeOK, AssetRow
      <4> QED
        BY <2>0, <3>1, <4>1, CustodyKept
    <3> QED
      BY <3>2, <3>3
  <2>7. ASSUME NEW b \in Assets, SoftDeleteAsset(b) PROVE CustodyAt(a)'
    <3>1. UNCHANGED loans
      BY <2>7 DEF SoftDeleteAsset
    <3>2. assets'[a].status = assets[a].status
      BY <1>0, <2>7 DEF SoftDeleteAsset, Typed, TypeOK, AssetRow
    <3> QED
      BY <2>0, <3>1, <3>2, CustodyKept DEF Holds
  <2>8. CASE Bookkeeping
    <3>1. UNCHANGED <<loans, assets>>
      BY <2>8 DEF Bookkeeping, CheckoutBegin, ReturnBegin, VisionBegin, RequestAborts,
         UpdateLockerStatus, SuspensionEnds
    <3> QED
      BY <2>0, <3>1, CustodyKept DEF Holds
  <2> QED
    BY <1>0, <2>1, <2>2, <2>3, <2>4, <2>5, <2>6, <2>7, <2>8, StepCases
<1> QED
  BY <1>a, <1>b

(* Where a transition may lead from each side.                             *)
LEMMA LegalSides ==
    ASSUME NEW from, NEW to, Legal(from, to), from # "NONE"
    PROVE  /\ to \in Holding \cup Settled
           /\ from \in Settled => to \in Settled
           /\ from \in Holding \cup Settled
BY DEF Legal, Transitions, Holding, Settled

(* No status is on both sides.                                             *)
LEMMA SidesApart == Holding \cap Settled = {}
BY DEF Holding, Settled

(* Steps that move no loan, or move it within Holding, release nothing.    *)
LEMMA HeldKept ==
    ASSUME Typed, [Next]_vars, NEW a \in Assets, Held(a)
    PROVE  Held(a)' \/ HistoryKept
<1>1. PICK m \in Loans : Holds(m, a)
  BY DEF Held
<1>2. ASSUME UNCHANGED loans PROVE Held(a)'
  BY <1>1, <1>2 DEF Held, Holds
<1>3. CASE UNCHANGED vars
  BY <1>2, <1>3 DEF vars
<1>4. CASE \E l \in Loans : Moves(l)
  BY <1>4, MovesKeepHistory
<1>5. ASSUME NEW l \in Loans, MarkOverdue(l) \/ Ticks(l) PROVE Held(a)'
  <2>1. /\ loans'[m].asset = loans[m].asset
        /\ \/ loans'[m].status = loans[m].status
           \/ loans[m].status = "ACTIVE" /\ loans'[m].status = "OVERDUE"
    BY <1>5, QuietShape
  <2>2. Holds(m, a)'
    BY <1>1, <2>1 DEF Holds, Holding
  <2> QED
    BY <2>2 DEF Held
<1>6. ASSUME NEW h \in Handlers, NEW l \in Loans, CheckoutCommit(h, l) PROVE Held(a)'
  <2>1. loans[l].status = "NONE" /\ \A n \in Loans : n # l => loans'[n] = loans[n]
    BY <1>6, CheckoutShape
  <2>2. m # l
    BY <1>1, <2>1 DEF Holds, Holding
  <2> QED
    BY <1>1, <2>1, <2>2 DEF Held, Holds
<1>7. ASSUME NEW h \in Handlers, NEW k \in Lockers, ReturnCommit(h, k) PROVE Held(a)'
  <2>1. PICK l \in Loans : /\ loans'[l].status = "RETURNING"
                           /\ loans'[l].asset = loans[l].asset
                           /\ \A n \in Loans : n # l => loans'[n] = loans[n]
    BY <1>7, ReturnShape
  <2>2. Holds(m, a)'
    BY <1>1, <2>1 DEF Holds, Holding
  <2> QED
    BY <2>2 DEF Held
<1>8. CASE \/ \E b \in Assets, s \in AssetPatches \cup {"KEEP"}, k \in Relocations \cup {NoLocker} :
                UpdateAsset(b, s, k)
           \/ \E b \in Assets : SoftDeleteAsset(b)
  BY <1>2, <1>8 DEF UpdateAsset, SoftDeleteAsset
<1>9. CASE Bookkeeping
  BY <1>2, <1>9 DEF Bookkeeping, CheckoutBegin, ReturnBegin, VisionBegin, RequestAborts,
     UpdateLockerStatus, SuspensionEnds
<1> QED
  BY <1>3, <1>4, <1>5, <1>6, <1>7, <1>8, <1>9, StepCases

(* An overruled asset is held.                                             *)
LEMMA DeclaredHeldStep ==
    ASSUME CustodyInv, [Next]_vars
    PROVE  DeclaredHeld'
<1> SUFFICES ASSUME NEW a \in declared' PROVE a \in HeldAssets'
  BY DEF DeclaredHeld
<1>0. Typed /\ Typed'
  BY TypedStep DEF CustodyInv
<1>1. a \in Assets
  BY <1>0 DEF Typed, TypeOK
<1>2. CASE HistoryKept
  BY <1>2 DEF HistoryKept
<1>3. CASE ~HistoryKept /\ a \in declared
  <2>1. Held(a)
    BY <1>3 DEF CustodyInv, DeclaredHeld, HeldAssets
  <2> QED
    BY <1>0, <1>1, <1>3, <2>1, HeldKept DEF HeldAssets
<1>4. CASE ~HistoryKept /\ a \notin declared
  <2>1. PICK b \in Assets : Patches(b)
    BY <1>0, <1>4, HistorySteps
  <2>2. PICK s \in AssetPatches \cup {"KEEP"}, k \in Relocations \cup {NoLocker} :
           UpdateAsset(b, s, k)
    BY <2>1 DEF Patches
  <2>3. Held(a) /\ UNCHANGED loans
    BY <1>4, <2>2 DEF UpdateAsset
  <2> QED
    BY <1>1, <2>3 DEF HeldAssets, Held, Holds
<1> QED
  BY <1>2, <1>3, <1>4

LEMMA CustodyStep ==
    ASSUME CustodyInv, [Next]_vars
    PROVE  CustodyInv'
<1>1. \A a \in Assets \ declared' : CustodyAt(a)'
  BY CustodyAtStep
<1>2. (OneHolder /\ BorrowableMeansFree)'
  BY <1>1, CustodyPointwiseNext
<1> QED
  BY <1>2, TypedStep, DeclaredHeldStep DEF CustodyInv

(* The invariant behind the custody theorems, in every reachable state.    *)
LEMMA AlwaysCustody == Spec => []CustodyInv
<1>1. CustodyInv /\ [Next]_vars => CustodyInv'
  BY CustodyStep
<1> QED
  BY <1>1, CustodyInit, PTL DEF Spec

(* No asset is held by two loans, and none that can be borrowed is held at *)
(* all, save one that an administrator declared AVAILABLE while a loan had *)
(* it: whatever administrators write, and to whichever other assets.       *)
THEOREM SingleCustody == Spec => [](OneHolder /\ BorrowableMeansFree)
<1>1. CustodyInv => OneHolder /\ BorrowableMeansFree
  BY DEF CustodyInv
<1> QED
  BY <1>1, AlwaysCustody, PTL

(* Checkout never hands out an asset that some loan still answers for, one *)
(* in quarantine included, unless an administrator told it to.             *)
THEOREM FreeToBorrow == Spec => []BorrowableMeansFree
<1>1. CustodyInv => BorrowableMeansFree
  BY DEF CustodyInv
<1> QED
  BY <1>1, AlwaysCustody, PTL

-----------------------------------------------------------------------------
(* Refinement: every step of the lending core takes or releases custody of *)
(* one asset, puts one off the books, settles a loan of such an asset, or  *)
(* leaves custody alone.                                                   *)

(* A step that leaves every loan's asset, and on which side of Holding and *)
(* Settled it stands, is invisible to custody.                             *)
LEMMA CustodyStutters ==
    ASSUME \A m \in Loans : /\ loans'[m].asset = loans[m].asset
                            /\ loans'[m].status \in Holding <=> loans[m].status \in Holding
                            /\ loans'[m].status \in Settled <=> loans[m].status \in Settled,
           UNCHANGED declared
    PROVE  UNCHANGED Custody!vars
<1>1. CustodyOf' = CustodyOf
  BY DEF CustodyOf, Holds
<1>2. LetGo' = LetGo
  BY DEF LetGo
<1> QED
  BY <1>1, <1>2 DEF Custody!vars

(* A new reservation takes custody of an asset nobody holds.               *)
LEMMA CheckoutTakes ==
    ASSUME NEW a \in Assets, NEW l \in Loans, a \notin declared,
           \A m \in Loans : ~Holds(m, a),
           loans[l].status = "NONE",
           loans'[l].status = "RESERVED", loans'[l].asset = a,
           \A m \in Loans : m # l => loans'[m] = loans[m],
           UNCHANGED declared
    PROVE  Custody!Take(a, l)
<1>1. CustodyOf[a] = {} /\ l \notin LetGo /\ \A b \in Assets : l \notin CustodyOf[b]
  BY DEF CustodyOf, LetGo, Settled, Holds, Holding
<1>2. \A m \in Loans, b \in Assets : Holds(m, b)' <=> Holds(m, b) \/ (m = l /\ b = a)
  BY DEF Holds, Holding
<1>3. ASSUME NEW b \in Assets
      PROVE  {m \in Loans : Holds(m, b)'} = IF b = a THEN {l} ELSE {m \in Loans : Holds(m, b)}
  BY <1>2
<1>4. CustodyOf' = [CustodyOf EXCEPT ![a] = {l}]
  BY <1>3 DEF CustodyOf
<1>5. LetGo' = LetGo
  BY DEF LetGo, Settled
<1> QED
  BY <1>1, <1>4, <1>5 DEF Custody!Take, Custody!HoldsNothing

(* One of an overruled asset changes nobody's custody.                     *)
LEMMA CheckoutOffBooks ==
    ASSUME NEW a \in Assets, NEW l \in Loans, a \in declared,
           loans[l].status = "NONE",
           loans'[l].status = "RESERVED", loans'[l].asset = a,
           \A m \in Loans : m # l => loans'[m] = loans[m],
           UNCHANGED declared
    PROVE  UNCHANGED Custody!vars
<1>1. \A m \in Loans, b \in Assets : b # a => (Holds(m, b)' <=> Holds(m, b))
  BY DEF Holds, Holding
<1>2. ASSUME NEW b \in Assets, b \notin declared
      PROVE  {m \in Loans : Holds(m, b)'} = {m \in Loans : Holds(m, b)}
  BY <1>1, <1>2
<1>3. CustodyOf' = CustodyOf
  BY <1>2 DEF CustodyOf
<1>4. LetGo' = LetGo
  BY DEF LetGo, Settled
<1> QED
  BY <1>3, <1>4 DEF Custody!vars

(* When one loan leaves Holding, only its own asset may cease to be held.  *)
LEMMA SettlingLapses ==
    ASSUME Typed, DeclaredHeld, HistoryKept, NEW l \in Loans,
           \A m \in Loans : m # l => loans'[m] = loans[m]
    PROVE  declared' \in {declared, declared \ {loans[l].asset}}
<1>1. ASSUME NEW c \in declared, c # loans[l].asset PROVE c \in declared'
  <2>1. c \in Assets /\ \E m \in Loans : Holds(m, c)
    BY DEF DeclaredHeld, HeldAssets, Held
  <2>2. PICK m \in Loans : Holds(m, c)
    BY <2>1
  <2>3. Holds(m, c)'
    BY <1>1, <2>2 DEF Holds
  <2> QED
    BY <2>1, <2>3 DEF HistoryKept, HeldAssets, Held
<1>2. declared' \subseteq declared
  BY DEF HistoryKept
<1> QED
  BY <1>1, <1>2

(* A loan that leaves Holding gives up the asset only it held.             *)
LEMMA SettlingReleases ==
    ASSUME OneHolder, NEW l \in Loans, loans[l].asset \in Assets,
           loans[l].asset \notin declared, UNCHANGED declared,
           loans[l].status \in Holding, loans'[l].status \in Settled,
           loans'[l].asset = loans[l].asset,
           \A m \in Loans : m # l => loans'[m] = loans[m]
    PROVE  Custody!Release(loans[l].asset, l)
<1> DEFINE a == loans[l].asset
<1>1. CustodyOf[a] = {l}
  BY DEF CustodyOf, OneHolder, Holds
<1>2. \A m \in Loans, b \in Assets : Holds(m, b)' <=> Holds(m, b) /\ m # l
  BY DEF Holds, Holding, Settled
<1>3. \A m \in Loans : ~(Holds(m, a) /\ m # l)
  BY DEF OneHolder, Holds
<1>4. ASSUME NEW b \in Assets
      PROVE  {m \in Loans : Holds(m, b)'} = IF b = a THEN {} ELSE {m \in Loans : Holds(m, b)}
  BY <1>2, <1>3 DEF Holds
<1>5. CustodyOf' = [CustodyOf EXCEPT ![a] = {}]
  BY <1>4 DEF CustodyOf
<1>6. LetGo' = LetGo \cup {l}
  BY DEF LetGo
<1> QED
  BY <1>1, <1>5, <1>6 DEF Custody!Release

(* One of an overruled asset is settled, and the last one lifts the ban.   *)
LEMMA SettlingOffBooks ==
    ASSUME NEW l \in Loans, loans[l].asset \in Assets, HistoryKept,
           loans[l].asset \in declared, declared' \in {declared, declared \ {loans[l].asset}},
           loans[l].status \in Holding, loans'[l].status \in Settled,
           loans'[l].asset = loans[l].asset,
           \A m \in Loans : m # l => loans'[m] = loans[m]
    PROVE  Custody!Settle(loans[l].asset, l)
<1> DEFINE a == loans[l].asset
<1>1. l \notin LetGo
  BY SidesApart DEF LetGo
<1>2. \A b \in Assets : l \notin CustodyOf[b]
  BY DEF CustodyOf, Holds
<1>3. \A m \in Loans, b \in Assets : b # a => (Holds(m, b)' <=> Holds(m, b))
  BY DEF Holds
<1>4. a \notin declared' => \A m \in Loans : ~Holds(m, a)'
  BY DEF HistoryKept, HeldAssets, Held
<1>5. ASSUME NEW b \in Assets
      PROVE  (IF b \in declared' THEN {} ELSE {m \in Loans : Holds(m, b)'}) =
             (IF b \in declared THEN {} ELSE {m \in Loans : Holds(m, b)})
  <2>1. CASE b = a
    BY <1>4, <2>1
  <2>2. CASE b # a
    BY <1>3, <2>2
  <2> QED
    BY <2>1, <2>2
<1>6. CustodyOf' = CustodyOf
  BY <1>5 DEF CustodyOf
<1>7. LetGo' = LetGo \cup {l}
  BY DEF LetGo
<1> QED
  BY <1>1, <1>2, <1>6, <1>7 DEF Custody!Settle, Custody!HoldsNothing

(* Photos, reports, verdicts and timeouts release custody or leave it.     *)
LEMMA MovesImplement ==
    ASSUME CustodyInv, NEW l \in Loans, Moves(l)
    PROVE  [Custody!Next]_Custody!vars
<1>1. PICK to \in LoanStatus : Transition(l, to)
  BY MovesAreTransitions DEF CustodyInv
<1>2. /\ loans[l].asset \in Assets
      /\ loans'[l].status = to /\ loans'[l].asset = loans[l].asset
      /\ \A m \in Loans : m # l => loans'[m] = loans[m]
  BY <1>1, TransitionShape DEF CustodyInv
<1>3. Legal(loans[l].status, to) /\ loans[l].status # "NONE"
  BY <1>1, LegalEnds DEF Transition
<1>4. HistoryKept /\ declared' \in {declared, declared \ {loans[l].asset}}
  BY <1>2, MovesKeepHistory, SettlingLapses DEF CustodyInv
<1>5. CASE loans[l].status \in Holding /\ to \in Settled
  <2>1. CASE loans[l].asset \in declared
    BY <1>2, <1>4, <1>5, <2>1, SettlingOffBooks DEF Custody!Next
  <2>2. CASE loans[l].asset \notin declared
    <3>1. UNCHANGED declared
      BY <1>4, <2>2
    <3> QED
      BY <1>2, <1>5, <2>2, <3>1, SettlingReleases DEF Custody!Next, CustodyInv
  <2> QED
    BY <2>1, <2>2
<1>6. CASE ~(loans[l].status \in Holding /\ to \in Settled)
  <2>1. \A m \in Loans : /\ loans'[m].asset = loans[m].asset
                         /\ loans'[m].status \in Holding <=> loans[m].status \in Holding
                         /\ loans'[m].status \in Settled <=> loans[m].status \in Settled
    BY <1>2, <1>3, <1>6, LegalSides, SidesApart
  <2>2. \A m \in Loans, a \in Assets : Holds(m, a)' <=> Holds(m, a)
    BY <2>1 DEF Holds
  <2>3. UNCHANGED declared
    BY <1>4, <2>2 DEF HistoryKept, HeldAssets, Held, CustodyInv, DeclaredHeld
  <2> QED
    BY <2>1, <2>3, CustodyStutters
<1> QED
  BY <1>5, <1>6

(* An administrator's AVAILABLE puts a held asset off the books.           *)
LEMMA PatchImplements ==
    ASSUME CustodyInv, NEW a \in Assets, NEW s, NEW k, UpdateAsset(a, s, k)
    PROVE  [Custody!Next]_Custody!vars
<1>1. UNCHANGED loans /\ declared' \in {declared, declared \cup {a}}
  BY DEF UpdateAsset
<1>2. CASE UNCHANGED declared
  BY <1>1, <1>2, CustodyStutters
<1>3. CASE ~UNCHANGED declared
  <2>1. declared' = declared \cup {a} /\ a \notin declared
    BY <1>1, <1>3
  <2>2. Held(a)
    BY <1>3 DEF UpdateAsset
  <2>3. CustodyOf[a] # {}
    BY <2>1, <2>2 DEF CustodyOf, Held
  <2>4. CustodyOf' = [CustodyOf EXCEPT ![a] = {}]
    BY <1>1, <2>1 DEF CustodyOf, Holds
  <2>5. LetGo' = LetGo
    BY <1>1 DEF LetGo
  <2>6. Custody!Declare(a)
    BY <2>1, <2>3, <2>4, <2>5 DEF Custody!Declare
  <2> QED
    BY <2>6 DEF Custody!Next
<1> QED
  BY <1>2, <1>3

(* Every step of the lending core is a custody step.                       *)
LEMMA StepImplements ==
    ASSUME CustodyInv, [Next]_vars
    PROVE  [Custody!Next]_Custody!vars
<1>0. Typed
  BY DEF CustodyInv
<1>1. ASSUME UNCHANGED <<loans, declared>> PROVE UNCHANGED Custody!vars
  BY <1>1, CustodyStutters
<1>2. CASE UNCHANGED vars
  BY <1>1, <1>2 DEF vars, history
<1>3. ASSUME NEW l \in Loans, Moves(l) PROVE [Custody!Next]_Custody!vars
  BY <1>3, MovesImplement
<1>4. ASSUME NEW l \in Loans, MarkOverdue(l) \/ Ticks(l) PROVE UNCHANGED Custody!vars
  <2>1. \A m \in Loans : /\ loans'[m].asset = loans[m].asset
                         /\ \/ loans'[m].status = loans[m].status
                            \/ loans[m].status = "ACTIVE" /\ loans'[m].status = "OVERDUE"
    BY <1>0, <1>4, QuietShape
  <2>2. UNCHANGED declared
    BY <1>0, <1>4, TickShape DEF MarkOverdue, history
  <2> QED
    BY <2>1, <2>2, CustodyStutters DEF Holding, Settled
<1>5. ASSUME NEW h \in Handlers, NEW l \in Loans, CheckoutCommit(h, l)
      PROVE  [Custody!Next]_Custody!vars
  <2>1. PICK a \in Assets :
           /\ assets[a].status = "AVAILABLE"
           /\ loans[l].status = "NONE"
           /\ loans'[l].status = "RESERVED" /\ loans'[l].asset = a
           /\ \A m \in Loans : m # l => loans'[m] = loans[m]
    BY <1>0, <1>5, CheckoutShape
  <2>2. UNCHANGED declared
    BY <1>0, <1>5, CheckoutShape
  <2>3. CASE a \in declared
    BY <2>1, <2>2, <2>3, CheckoutOffBooks
  <2>4. CASE a \notin declared
    <3>1. \A m \in Loans : ~Holds(m, a)
      BY <2>1, <2>4 DEF CustodyInv, BorrowableMeansFree
    <3> QED
      BY <2>1, <2>2, <2>4, <3>1, CheckoutTakes DEF Custody!Next
  <2> QED
    BY <2>3, <2>4
<1>6. ASSUME NEW h \in Handlers, NEW k \in Lockers, ReturnCommit(h, k)
      PROVE  UNCHANGED Custody!vars
  <2>1. PICK l \in Loans : /\ loans[l].status \in Returnable
                           /\ loans'[l].status = "RETURNING"
                           /\ loans'[l].asset = loans[l].asset
                           /\ \A m \in Loans : m # l => loans'[m] = loans[m]
    BY <1>0, <1>6, ReturnShape
  <2>2. UNCHANGED declared
    BY <1>6 DEF ReturnCommit, history
  <2> QED
    BY <2>1, <2>2, CustodyStutters DEF Holding, Settled, Returnable
<1>7. ASSUME NEW a \in Assets, NEW s \in AssetPatches \cup {"KEEP"},
             NEW k \in Relocations \cup {NoLocker}, UpdateAsset(a, s, k)
      PROVE  [Custody!Next]_Custody!vars
  BY <1>7, PatchImplements
<1>8. CASE Bookkeeping \/ \E a \in Assets : SoftDeleteAsset(a)
  BY <1>1, <1>8 DEF Bookkeeping, CheckoutBegin, ReturnBegin, VisionBegin, RequestAborts,
     UpdateLockerStatus, SuspensionEnds, SoftDeleteAsset, history
<1> QED
  BY <1>0, <1>2, <1>3, <1>4, <1>5, <1>6, <1>7, <1>8, StepCases

(* The seeded loans are the only holders at the start.                     *)
LEMMA InitImplements == Init => Custody!Init
<1> SUFFICES ASSUME Init PROVE Custody!Init
  OBVIOUS
<1>1. CustodyOf \in [Assets -> SUBSET Loans]
  BY DEF CustodyOf
<1>2. \A a \in Assets : \A l, m \in CustodyOf[a] : l = m
  BY CustodyInit DEF CustodyInv, OneHolder, CustodyOf
<1>3. \A a, b \in Assets : CustodyOf[a] \cap CustodyOf[b] # {} => a = b
  BY DEF CustodyOf, Holds
<1>4. LetGo = {}
  BY DEF Init, LetGo, Settled, SeededLoan, NotInserted
<1>5. declared = {}
  BY DEF Init
<1> QED
  BY <1>1, <1>2, <1>3, <1>4, <1>5 DEF Custody!Init

(* The lending core implements AssetCustody: an asset passes from loan to  *)
(* loan through the hands of nobody else, and no loan gets it back; what   *)
(* an administrator declares over a running loan is off the books until    *)
(* the last loan of it is settled.                                         *)
THEOREM CustodyRefinement == Spec => ImplementsCustody
<1>1. CustodyInv /\ [Next]_vars => [Custody!Next]_Custody!vars
  BY StepImplements
<1> QED
  BY <1>1, InitImplements, AlwaysCustody, PTL DEF Spec, ImplementsCustody, Custody!Spec

-----------------------------------------------------------------------------
(* The life of one loan row.                                               *)

(* What one step of the system can do to the status and the return locker  *)
(* of a loan: nothing, an edge of the table, its insertion, or its return. *)
LoanStep(m) ==
    \/ /\ loans'[m].status = loans[m].status
       /\ loans'[m].returnLocker = loans[m].returnLocker
    \/ /\ Legal(loans[m].status, loans'[m].status)
       /\ loans'[m].status \notin {"RESERVED", "RETURNING"}
       /\ loans'[m].returnLocker = loans[m].returnLocker
    \/ /\ loans[m].status = "NONE" /\ loans'[m].status = "RESERVED"
       /\ loans'[m].returnLocker = NoLocker
    \/ /\ loans[m].status \in Returnable /\ loans[m].returnLocker = NoLocker
       /\ loans'[m].status = "RETURNING"

(* Photos, reports, verdicts and timeouts take an edge.                    *)
LEMMA MovesAreLoanSteps ==
    ASSUME Typed, NEW l \in Loans, Moves(l), NEW m \in Loans
    PROVE  LoanStep(m)
<1>1. PICK to \in LoanStatus : Transition(l, to)
  BY MovesAreTransitions
<1>2. PICK late \in BOOLEAN : loans' = [loans EXCEPT ![l] = MovedWith(l, to, late)]
  BY <1>1 DEF Transition
<1>3. /\ MovedWith(l, to, late).status = to
      /\ MovedWith(l, to, late).returnLocker = loans[l].returnLocker
  BY MovedWithType DEF Typed
<1>4. loans'[m] = IF m = l THEN MovedWith(l, to, late) ELSE loans[m]
  BY <1>2 DEF Typed, TypeOK
<1> QED
  BY <1>1, <1>3, <1>4 DEF Transition, LoanStep

(* The insertion.                                                          *)
LEMMA CheckoutIsLoanStep ==
    ASSUME Typed, NEW h \in Handlers, NEW l \in Loans, CheckoutCommit(h, l), NEW m \in Loans
    PROVE  LoanStep(m)
<1> DEFINE a == inflight[h].asset
           row == [NotInserted EXCEPT !.status = "RESERVED", !.user = inflight[h].user,
                                      !.asset = a, !.checkoutLocker = assets[a].locker]
<1>1. row.status = "RESERVED" /\ row.returnLocker = NoLocker
  BY DEF NotInserted
<1>2. loans' = [loans EXCEPT ![l] = row] /\ loans[l].status = "NONE"
  BY DEF CheckoutCommit
<1> HIDE DEF row, a
<1>3. loans'[m] = IF m = l THEN row ELSE loans[m]
  BY <1>2 DEF Typed, TypeOK
<1> QED
  BY <1>1, <1>2, <1>3 DEF LoanStep

(* The return.                                                             *)
LEMMA ReturnIsLoanStep ==
    ASSUME Typed, NEW h \in Handlers, NEW k \in Lockers, ReturnCommit(h, k), NEW m \in Loans
    PROVE  LoanStep(m)
<1> DEFINE l == inflight[h].loan
           row == [Moved(l, "RETURNING") EXCEPT !.returnLocker = k]
<1>1. inflight[h] \in Request /\ inflight[h].op = "return"
  BY DEF ReturnCommit, Typed, TypeOK
<1>2. l \in Loans
  BY <1>1 DEF Request, Idle
<1>3. row.status = "RETURNING"
  BY <1>2, MovedType DEF Typed, LoanRow, LoanStatus
<1>4. loans' = [loans EXCEPT ![l] = row]
  BY DEF ReturnCommit
<1>5. loans[l].status \in Returnable /\ loans[l].returnLocker = NoLocker
  BY DEF ReturnCommit, StillReturnable
<1> HIDE DEF row, l
<1>6. loans'[m] = IF m = l THEN row ELSE loans[m]
  BY <1>2, <1>4 DEF Typed, TypeOK
<1> QED
  BY <1>3, <1>5, <1>6 DEF LoanStep

(* The overdue worker and the clock.                                       *)
LEMMA QuietIsLoanStep ==
    ASSUME Typed, NEW l \in Loans, MarkOverdue(l) \/ Ticks(l), NEW m \in Loans
    PROVE  LoanStep(m)
<1>1. CASE MarkOverdue(l)
  <2>1. /\ Moved(l, "OVERDUE").status = "OVERDUE"
        /\ Moved(l, "OVERDUE").returnLocker = loans[l].returnLocker
    BY MovedType DEF Typed, LoanStatus
  <2>2. loans'[m] = IF m = l THEN Moved(l, "OVERDUE") ELSE loans[m]
    BY <1>1 DEF MarkOverdue, Typed, TypeOK
  <2> QED
    BY <1>1, <2>1, <2>2 DEF MarkOverdue, LoanStep, Legal, Transitions
<1>2. CASE Ticks(l)
  BY <1>2, TickShape DEF Typed, TypeOK, LoanStep
<1> QED
  BY <1>1, <1>2

(* Every step of the system is one of these for every loan.                *)
LEMMA StepsAreLoanSteps ==
    ASSUME Typed, [Next]_vars, NEW m \in Loans
    PROVE  LoanStep(m)
<1>1. ASSUME UNCHANGED loans PROVE LoanStep(m)
  BY <1>1 DEF LoanStep
<1>2. CASE UNCHANGED vars
  BY <1>1, <1>2 DEF vars
<1>3. CASE \E l \in Loans : Moves(l) \/ MarkOverdue(l) \/ Ticks(l)
  BY <1>3, MovesAreLoanSteps, QuietIsLoanStep
<1>4. CASE \E h \in Handlers, l \in Loans : CheckoutCommit(h, l)
  BY <1>4, CheckoutIsLoanStep
<1>5. CASE \E h \in Handlers, k \in Lockers : ReturnCommit(h, k)
  BY <1>5, ReturnIsLoanStep
<1>6. CASE \/ \E a \in Assets, s \in AssetPatches \cup {"KEEP"}, k \in Relocations \cup {NoLocker} :
                UpdateAsset(a, s, k)
           \/ \E a \in Assets : SoftDeleteAsset(a)
  BY <1>1, <1>6 DEF UpdateAsset, SoftDeleteAsset
<1>7. CASE Bookkeeping
  BY <1>1, <1>7 DEF Bookkeeping, CheckoutBegin, ReturnBegin, VisionBegin, RequestAborts,
     UpdateLockerStatus, SuspensionEnds
<1> QED
  BY <1>2, <1>3, <1>4, <1>5, <1>6, <1>7, StepCases

(* A settled loan stays settled, whoever steps: every writer of a loan's   *)
(* status, the overdue worker and return/initiate too, follows the table.  *)
THEOREM SettledForGood == Spec => SettledStaysSettled
<1>1. ASSUME Typed, [Next]_vars, NEW l \in Loans
      PROVE  /\ loans[l].status \in {"COMPLETED", "DISPUTED"}
                => loans'[l].status = loans[l].status
             /\ loans[l].status = "FRAUD_SUSPECTED"
                => loans'[l].status \in {"FRAUD_SUSPECTED", "DISPUTED"}
  BY <1>1, StepsAreLoanSteps DEF LoanStep, Legal, Transitions, Returnable
<1>2. Typed /\ [Next]_vars =>
         [\A l \in Loans :
            /\ loans[l].status \in {"COMPLETED", "DISPUTED"}
               => loans'[l].status = loans[l].status
            /\ loans[l].status = "FRAUD_SUSPECTED"
               => loans'[l].status \in {"FRAUD_SUSPECTED", "DISPUTED"}]_vars
  BY <1>1
<1> QED
  BY <1>2, AlwaysTyped, PTL DEF Spec, SettledStaysSettled

-----------------------------------------------------------------------------
(* What a move leaves behind.                                              *)

Photographed(l, type) == [loan |-> l, type |-> type] \in evaluations

(* The evaluations a move needs or leaves, and the locker_id it writes for *)
(* a loan that is handed out or disputed.  None is the overdue worker.     *)
MoveEffect(l) ==
    /\ loans'[l].status # "OVERDUE"
    /\ evaluations \subseteq evaluations'
    /\ \A e \in evaluations' : e \in evaluations \/ e.loan = l
    /\ Photographed(l, "RETURN")' =>
          Photographed(l, "RETURN") \/ loans[l].returnLocker # NoLocker
    /\ loans'[l].status = "ACTIVE" =>
          Photographed(l, "CHECKOUT")' /\ assets'[loans[l].asset].locker = NoLocker
    /\ loans'[l].status = "COMPLETED" => Photographed(l, "RETURN")'
    /\ loans'[l].status = "DISPUTED" =>
          assets'[loans[l].asset].locker = assets[loans[l].asset].locker

(* The status a move writes.                                               *)
LEMMA MovedStatus ==
    ASSUME TypeOK, NEW l \in Loans, NEW to \in LoanStatus,
           loans' = [loans EXCEPT ![l] = Moved(l, to)]
    PROVE  loans'[l].status = to
BY MovedType DEF TypeOK

(* The photos of the vision callback.                                      *)
LEMMA VisionEffect ==
    ASSUME Typed, NEW l \in Loans, loans[l].asset \in Assets, NEW h \in Handlers,
           \/ \E type \in EvaluationType : VisionFailed(h, l, type)
           \/ CheckoutConfirmed(h, l)
           \/ CheckoutFraud(h, l)
           \/ ReturnQuarantined(h, l)
           \/ ReturnConfirmed(h, l)
    PROVE  MoveEffect(l)
<1>0. TypeOK
  BY DEF Typed
<1>a. {"ACTIVE", "COMPLETED", "PENDING_INSPECTION", "FRAUD_SUSPECTED"} \subseteq LoanStatus
  BY DEF LoanStatus
<1>b. ASSUME NEW type, RecordEvaluation(l, type)
      PROVE  /\ evaluations \subseteq evaluations' /\ Photographed(l, type)'
             /\ \A e \in evaluations' : e \in evaluations \/ e = [loan |-> l, type |-> type]
  BY <1>b DEF RecordEvaluation, Photographed
<1>c. ASSUME NEW type, Judging(h, l, type), type = "RETURN"
      PROVE  loans[l].returnLocker # NoLocker
  BY <1>c DEF Judging, LockerForEval
<1>1. ASSUME NEW type \in EvaluationType, VisionFailed(h, l, type) PROVE MoveEffect(l)
  <2>1. loans'[l].status = "PENDING_INSPECTION" /\ evaluations' = evaluations
    BY <1>0, <1>a, <1>1, MovedStatus DEF VisionFailed, VisionTransition
  <2> QED
    BY <2>1 DEF MoveEffect, Photographed
<1>2. CASE CheckoutConfirmed(h, l)
  <2>1. assets'[loans[l].asset].locker = NoLocker
    BY <1>0, <1>2, AssetsAfterType DEF CheckoutConfirmed
  <2>2. loans'[l].status = "ACTIVE"
    BY <1>0, <1>a, <1>2, MovedWithType DEF CheckoutConfirmed, TypeOK
  <2>3. RecordEvaluation(l, "CHECKOUT")
    BY <1>2 DEF CheckoutConfirmed
  <2> QED
    BY <1>b, <2>1, <2>2, <2>3 DEF MoveEffect, Photographed
<1>3. CASE CheckoutFraud(h, l)
  <2>1. loans'[l].status = "FRAUD_SUSPECTED" /\ RecordEvaluation(l, "CHECKOUT")
    BY <1>0, <1>a, <1>3, MovedStatus DEF CheckoutFraud, VisionTransition
  <2>2. /\ evaluations \subseteq evaluations'
        /\ \A e \in evaluations' : e \in evaluations \/ e = [loan |-> l, type |-> "CHECKOUT"]
    BY <1>b, <2>1
  <2>3. Photographed(l, "RETURN")' => Photographed(l, "RETURN")
    BY <2>2 DEF Photographed
  <2> QED
    BY <2>1, <2>2, <2>3 DEF MoveEffect
<1>4. CASE ReturnQuarantined(h, l)
  <2>1. loans'[l].status = "PENDING_INSPECTION" /\ RecordEvaluation(l, "RETURN")
    BY <1>0, <1>a, <1>4, MovedStatus DEF ReturnQuarantined, VisionTransition
  <2>2. loans[l].returnLocker # NoLocker
    BY <1>c, <1>4 DEF ReturnQuarantined
  <2> QED
    BY <1>b, <2>1, <2>2 DEF MoveEffect
<1>5. CASE ReturnConfirmed(h, l)
  <2>1. loans'[l].status = "COMPLETED" /\ RecordEvaluation(l, "RETURN")
    BY <1>0, <1>a, <1>5, MovedStatus DEF ReturnConfirmed, VisionTransition
  <2>2. loans[l].returnLocker # NoLocker
    BY <1>c, <1>5 DEF ReturnConfirmed
  <2> QED
    BY <1>b, <2>1, <2>2 DEF MoveEffect
<1> QED
  BY <1>1, <1>2, <1>3, <1>4, <1>5

(* A verdict in the borrower's favour is about an evaluation on record.    *)
LEMMA VerdictEffect ==
    ASSUME Typed, NEW e \in evaluations, JudgeRejects(e), loans[e.loan].asset \in Assets
    PROVE  MoveEffect(e.loan)
<1> DEFINE l == e.loan
           to == IF e.type = "CHECKOUT" THEN "ACTIVE" ELSE "COMPLETED"
<1>1. /\ e = [loan |-> l, type |-> e.type] /\ l \in Loans
      /\ e.type = "CHECKOUT" \/ e.type = "RETURN"
      /\ TypeOK
  BY DEF Typed, TypeOK, EvaluationType
<1>2. /\ loans' = [loans EXCEPT ![l] = MovedWith(l, to, loans[l].late /\ to # "ACTIVE")]
      /\ UNCHANGED evaluations
      /\ to = "ACTIVE" => assets' = AssetsAfter(l, to, NoLocker)
  BY DEF JudgeRejects
<1>3. to \in LoanStatus /\ to # "OVERDUE" /\ (to = "ACTIVE" => Photographed(l, "CHECKOUT"))
         /\ (to = "COMPLETED" => Photographed(l, "RETURN")) /\ to # "DISPUTED"
  BY <1>1 DEF LoanStatus, Photographed
<1> HIDE DEF to
<1>4. loans'[l].status = to
  BY <1>1, <1>2, <1>3, MovedWithType DEF TypeOK
<1>5. to = "ACTIVE" => assets'[loans[l].asset].locker = NoLocker
  BY <1>1, <1>2, AssetsAfterType
<1> QED
  BY <1>2, <1>3, <1>4, <1>5 DEF MoveEffect, Photographed

LEMMA MovesEffect ==
    ASSUME Typed, NEW l \in Loans, Moves(l)
    PROVE  MoveEffect(l)
<1>0. TypeOK /\ "PENDING_INSPECTION" \in LoanStatus /\ "DISPUTED" \in LoanStatus
  BY DEF Typed, LoanStatus
<1>1. loans[l].asset \in Assets
  BY MovesAreTransitions, TransitionShape
<1>2. LockerIdOfAsset(l) \in Lockers \cup {NoLocker}
  BY <1>0, <1>1, LockerIdOfAssetType
<1>3. ASSUME loans' = [loans EXCEPT ![l] = Moved(l, "DISPUTED")],
             assets' = AssetsAfter(l, "DISPUTED", LockerIdOfAsset(l)),
             UNCHANGED evaluations
      PROVE  MoveEffect(l)
  <2>1. loans'[l].status = "DISPUTED"
    BY <1>0, <1>3, MovedStatus
  <2>2. assets'[loans[l].asset].locker = LockerIdOfAsset(l)
    BY <1>0, <1>1, <1>2, <1>3, AssetsAfterType
  <2> QED
    BY <1>3, <2>1, <2>2 DEF MoveEffect, LockerIdOfAsset, Photographed
<1>4. ASSUME loans' = [loans EXCEPT ![l] = Moved(l, "PENDING_INSPECTION")],
             UNCHANGED evaluations
      PROVE  MoveEffect(l)
  <2>1. loans'[l].status = "PENDING_INSPECTION"
    BY <1>0, <1>4, MovedStatus
  <2> QED
    BY <1>4, <2>1 DEF MoveEffect, Photographed
<1>5. CASE ReportDamage(l)
  BY <1>3, <1>5 DEF ReportDamage
<1>6. CASE \E e \in evaluations : e.loan = l /\ JudgeApproves(e)
  BY <1>3, <1>6 DEF JudgeApproves
<1>7. CASE \E e \in evaluations : e.loan = l /\ JudgeRejects(e)
  BY <1>1, <1>7, VerdictEffect
<1>8. CASE TimeoutReserved(l) \/ TimeoutReturning(l)
  BY <1>4, <1>8 DEF TimeoutReserved, TimeoutReturning
<1> QED
  BY <1>1, <1>5, <1>6, <1>7, <1>8, VisionEffect DEF Moves

-----------------------------------------------------------------------------
(* Evidence.  A verdict or a late photo completes a loan from quarantine,  *)
(* so EvidenceKept needs that whatever has a return locker, or a photo of  *)
(* a return, was photographed at its checkout.                             *)
EvidenceInv ==
    /\ EvidenceKept
    /\ \A l \in Loans \ DOMAIN Seed :
          loans[l].returnLocker # NoLocker \/ Photographed(l, "RETURN")
             => Photographed(l, "CHECKOUT")

(* What it takes of a loan to keep the evidence.                           *)
EvidenceOf(l) ==
    /\ l \notin DOMAIN Seed =>
          /\ loans[l].status \in {"ACTIVE", "OVERDUE", "RETURNING", "COMPLETED"}
                => Photographed(l, "CHECKOUT")
          /\ loans[l].returnLocker # NoLocker => Photographed(l, "CHECKOUT")
          /\ Photographed(l, "RETURN") => Photographed(l, "CHECKOUT")
    /\ loans[l].status = "COMPLETED" => Photographed(l, "RETURN")

LEMMA EvidencePointwise == EvidenceInv <=> \A l \in Loans : EvidenceOf(l)
BY DEF EvidenceInv, EvidenceKept, EvidenceOf, Photographed

(* A step that moves no loan adds no photo.                                *)
LEMMA QuietEvidence ==
    ASSUME Typed, [Next]_vars
    PROVE  \/ /\ UNCHANGED evaluations
              /\ \A m \in Loans : loans'[m].status \in {"ACTIVE", "COMPLETED"}
                                   => loans[m].status = loans'[m].status
           \/ \E l \in Loans : Moves(l)
<1>1. CASE UNCHANGED vars
  BY <1>1 DEF vars
<1>2. CASE \E l \in Loans : MarkOverdue(l) \/ Ticks(l)
  <2>1. PICK l \in Loans : MarkOverdue(l) \/ Ticks(l)
    BY <1>2
  <2>2. \A m \in Loans : loans'[m].status \in {"ACTIVE", "COMPLETED"}
                           => loans[m].status = loans'[m].status
    BY <2>1, QuietShape
  <2>3. UNCHANGED evaluations
    BY <2>1, TickShape DEF MarkOverdue
  <2> QED
    BY <2>2, <2>3
<1>3. CASE \E h \in Handlers, l \in Loans : CheckoutCommit(h, l)
  <2>1. PICK h \in Handlers, l \in Loans : CheckoutCommit(h, l)
    BY <1>3
  <2>2. \A m \in Loans : m # l => loans'[m] = loans[m]
    BY <2>1 DEF CheckoutCommit, Typed, TypeOK
  <2>3. loans'[l].status = "RESERVED" /\ UNCHANGED evaluations
    BY <2>1 DEF CheckoutCommit, Typed, TypeOK, NotInserted
  <2> QED
    BY <2>2, <2>3
<1>4. CASE \E h \in Handlers, k \in Lockers : ReturnCommit(h, k)
  <2>1. PICK h \in Handlers, k \in Lockers : ReturnCommit(h, k)
    BY <1>4
  <2>2. \A m \in Loans : loans'[m].status \in {"ACTIVE", "COMPLETED"}
                           => loans[m].status = loans'[m].status
    BY <2>1, ReturnShape
  <2>3. UNCHANGED evaluations
    BY <2>1 DEF ReturnCommit
  <2> QED
    BY <2>2, <2>3
<1>5. CASE \/ \E a \in Assets, s \in AssetPatches \cup {"KEEP"}, k \in Relocations \cup {NoLocker} :
                UpdateAsset(a, s, k)
           \/ \E a \in Assets : SoftDeleteAsset(a)
  BY <1>5 DEF UpdateAsset, SoftDeleteAsset
<1>6. CASE Bookkeeping
  BY <1>6 DEF Bookkeeping, CheckoutBegin, ReturnBegin, VisionBegin, RequestAborts,
     UpdateLockerStatus, SuspensionEnds
<1> QED
  BY <1>1, <1>2, <1>3, <1>4, <1>5, <1>6, StepCases

LEMMA EvidenceInit == Init => EvidenceInv
<1> SUFFICES ASSUME Init, NEW l \in Loans PROVE EvidenceOf(l)
  BY EvidencePointwise
<1>1. loans[l] = IF l \in DOMAIN Seed THEN SeededLoan(Seed[l]) ELSE NotInserted
  BY DEF Init
<1>2. evaluations = {}
  BY DEF Init
<1> QED
  BY <1>1, <1>2 DEF EvidenceOf, Photographed, SeededLoan, NotInserted

LEMMA EvidenceStep ==
    ASSUME Typed, EvidenceInv, [Next]_vars
    PROVE  EvidenceInv'
<1> SUFFICES ASSUME NEW m \in Loans PROVE EvidenceOf(m)'
  BY DEF EvidenceInv, EvidenceKept, EvidenceOf, Photographed
<1>1. LoanStep(m) /\ EvidenceOf(m)
  BY StepsAreLoanSteps, EvidencePointwise
<1>2. ~Legal("NONE", "COMPLETED") /\ ~Legal("NONE", "ACTIVE")
  BY DEF Legal, Transitions
<1>3. ASSUME NEW l \in Loans, Moves(l) PROVE EvidenceOf(m)'
  <2>1. MoveEffect(l)
    BY <1>3, MovesEffect
  <2>2. PICK to \in LoanStatus : Transition(l, to)
    BY <1>3, MovesAreTransitions
  <2>3. PICK late \in BOOLEAN : loans' = [loans EXCEPT ![l] = MovedWith(l, to, late)]
    BY <2>2 DEF Transition
  <2>4. /\ MovedWith(l, to, late).status = to
        /\ MovedWith(l, to, late).returnLocker = loans[l].returnLocker
    BY MovedWithType DEF Typed
  <2>5. /\ loans'[l].status = to /\ loans'[l].returnLocker = loans[l].returnLocker
        /\ m # l => loans'[m] = loans[m]
    BY <2>3, <2>4 DEF Typed, TypeOK
  <2>6. CASE m # l
    <3>1. Photographed(m, "RETURN")' => Photographed(m, "RETURN")
      BY <2>1, <2>6 DEF MoveEffect, Photographed
    <3>2. \A type : Photographed(m, type) => Photographed(m, type)'
      BY <2>1 DEF MoveEffect, Photographed
    <3> QED
      BY <1>1, <2>5, <2>6, <3>1, <3>2 DEF EvidenceOf
  <2>7. CASE m = l
    <3>1. \A type : Photographed(l, type) => Photographed(l, type)'
      BY <2>1 DEF MoveEffect, Photographed
    <3>2. Legal(loans[l].status, to) /\ to \notin {"RESERVED", "RETURNING"}
      BY <2>2 DEF Transition
    <3>3. to = "OVERDUE" => loans[l].status = "ACTIVE"
      BY <3>2 DEF Legal, Transitions
    <3> QED
      BY <1>1, <2>1, <2>5, <2>7, <3>1, <3>2, <3>3 DEF EvidenceOf, MoveEffect
  <2> QED
    BY <2>6, <2>7
<1>4. ASSUME UNCHANGED evaluations,
             loans'[m].status \in {"ACTIVE", "COMPLETED"} => loans[m].status = loans'[m].status
      PROVE  EvidenceOf(m)'
  <2>1. \A type : Photographed(m, type)' <=> Photographed(m, type)
    BY <1>4 DEF Photographed
  <2>2. CASE loans'[m].status = loans[m].status /\ loans'[m].returnLocker = loans[m].returnLocker
    BY <1>1, <2>1, <2>2 DEF EvidenceOf
  <2>3. CASE loans[m].status \in Returnable
    BY <1>1, <1>4, <2>1, <2>3 DEF EvidenceOf, Returnable
  <2>4. CASE loans'[m].status = "RESERVED" /\ loans'[m].returnLocker = NoLocker
    BY <1>1, <2>1, <2>4 DEF EvidenceOf
  <2>5. CASE /\ Legal(loans[m].status, loans'[m].status)
             /\ loans'[m].status \notin {"RESERVED", "RETURNING"}
             /\ loans'[m].returnLocker = loans[m].returnLocker
    <3>1. loans'[m].status = "OVERDUE" => loans[m].status = "ACTIVE"
      BY <2>5 DEF Legal, Transitions
    <3> QED
      BY <1>1, <1>4, <2>1, <2>5, <3>1 DEF EvidenceOf
  <2> QED
    BY <1>1, <2>2, <2>3, <2>4, <2>5 DEF LoanStep
<1> QED
  BY <1>3, <1>4, QuietEvidence

LEMMA AlwaysEvidence == Spec => []EvidenceInv
BY EvidenceInit, EvidenceStep, AlwaysTyped, PTL DEF Spec

(* A loan past its pick-up was photographed when it was picked up, and a   *)
(* completed one when it came back, whatever admins write by hand.         *)
THEOREM NothingUnseen == Spec => []EvidenceKept
<1>1. EvidenceInv => EvidenceKept
  BY DEF EvidenceInv
<1> QED
  BY <1>1, AlwaysEvidence, PTL

-----------------------------------------------------------------------------
(* Lockers.  Another loan of the same asset would write its locker_id, and *)
(* by OneHolder any such loan has let go: all it can become is disputed.   *)
LockerInv == CustodyInv /\ OnLoanOutOfLocker

LEMMA LockerInit == Init => OnLoanOutOfLocker
<1> SUFFICES ASSUME Init, NEW l \in Loans, loans[l].status \in {"ACTIVE", "OVERDUE", "RETURNING"}
             PROVE  LockerIdOfAsset(l) = NoLocker
  BY DEF OnLoanOutOfLocker
<1>1. loans[l] = IF l \in DOMAIN Seed THEN SeededLoan(Seed[l]) ELSE NotInserted
  BY DEF Init
<1>2. l \in DOMAIN Seed /\ loans[l].asset = Seed[l].asset
  BY <1>1 DEF NotInserted, SeededLoan
<1>3. Seed[l].asset \in Assets
  BY <1>2, CoreConstants DEF SeedRow
<1> QED
  BY <1>2, <1>3 DEF Init, SeededOut, LockerIdOfAsset

(* A step that writes no locker_id, but to clear it, and after which the   *)
(* same loans are out.                                                     *)
LEMMA LockerKept ==
    ASSUME OnLoanOutOfLocker, NEW l \in Loans, loans[l].asset \in Assets,
           loans'[l].asset = loans[l].asset, loans[l].asset \notin declared \cup placed,
           loans[l].status \in {"ACTIVE", "OVERDUE", "RETURNING"},
           \/ assets'[loans[l].asset].locker = assets[loans[l].asset].locker
           \/ assets'[loans[l].asset].locker = NoLocker
    PROVE  LockerIdOfAsset(l)' = NoLocker
BY DEF OnLoanOutOfLocker, LockerIdOfAsset

LEMMA LockerStep ==
    ASSUME LockerInv, [Next]_vars
    PROVE  LockerInv'
<1> DEFINE Out == {"ACTIVE", "OVERDUE", "RETURNING"}
<1>0. CustodyInv' /\ Typed /\ Typed' /\ OnLoanOutOfLocker /\ TypeOK
  BY CustodyStep DEF LockerInv, CustodyInv, Typed
<1> SUFFICES ASSUME NEW m \in Loans, loans'[m].status \in Out,
                    loans'[m].asset \notin declared' \cup placed'
             PROVE  LockerIdOfAsset(m)' = NoLocker
  BY <1>0 DEF LockerInv, OnLoanOutOfLocker
<1>a. loans'[m].asset \in Assets
  BY <1>0 DEF Typed, RowsFilled
<1>b. PICK c \in Assets : loans'[m].asset = c /\ Holds(m, c)'
  BY <1>a DEF Holds, Holding
<1>c. c \notin declared \cup placed /\ loans'[m].asset \notin declared \cup placed
  BY <1>0, <1>b, HistoryLapses
<1>1. ASSUME loans[m].status \in Out PROVE loans[m].asset \in Assets
  BY <1>0, <1>1 DEF Typed, RowsFilled
<1>2. CASE UNCHANGED <<loans, assets>>
  BY <1>0, <1>1, <1>2, <1>c, LockerKept
<1>3. ASSUME NEW l \in Loans, Moves(l) PROVE LockerIdOfAsset(m)' = NoLocker
  <2>1. MoveEffect(l)
    BY <1>0, <1>3, MovesEffect
  <2>2. PICK to \in LoanStatus : Transition(l, to)
    BY <1>0, <1>3, MovesAreTransitions
  <2>3. /\ loans[l].asset \in Assets
        /\ loans'[l].status = to /\ loans'[l].asset = loans[l].asset
        /\ \A n \in Loans : n # l => loans'[n] = loans[n]
        /\ \A a \in Assets : a # loans[l].asset => assets'[a] = assets[a]
    BY <1>0, <2>2, TransitionShape
  <2>4. Legal(loans[l].status, to) /\ to \notin {"RESERVED", "RETURNING"}
    BY <2>2 DEF Transition
  <2>5. CASE m = l /\ to = "ACTIVE"
    BY <2>1, <2>3, <2>5 DEF MoveEffect, LockerIdOfAsset
  <2>6. CASE m = l /\ to # "ACTIVE"
    BY <2>1, <2>3, <2>4, <2>6 DEF MoveEffect
  <2>7. CASE m # l
    <3>1. loans'[m] = loans[m] /\ loans[m].status \in Out /\ loans[m].asset \in Assets
      BY <1>1, <2>3, <2>7
    <3>2. CASE loans[m].asset # loans[l].asset
      BY <1>0, <1>c, <2>3, <3>1, <3>2, LockerKept
    <3>3. CASE loans[m].asset = loans[l].asset
      <4>1. loans[l].status \notin Holding
        BY <1>c, <2>3, <2>7, <3>1, <3>3 DEF LockerInv, CustodyInv, OneHolder, Holds, Holding
      <4>2. to = "DISPUTED"
        BY <2>4, <4>1 DEF Legal, Transitions, Holding
      <4>3. assets'[loans[l].asset].locker = assets[loans[l].asset].locker
        BY <2>1, <2>3, <4>2 DEF MoveEffect
      <4> QED
        BY <1>0, <1>c, <3>1, <3>3, <4>3, LockerKept
    <3> QED
      BY <3>2, <3>3
  <2> QED
    BY <2>5, <2>6, <2>7
<1>4. ASSUME NEW l \in Loans, MarkOverdue(l) \/ Ticks(l) PROVE LockerIdOfAsset(m)' = NoLocker
  <2>1. /\ UNCHANGED assets /\ loans'[m].asset = loans[m].asset
        /\ \/ loans'[m].status = loans[m].status
           \/ loans[m].status = "ACTIVE" /\ loans'[m].status = "OVERDUE"
    BY <1>0, <1>4, QuietShape
  <2> QED
    BY <1>0, <1>1, <1>c, <2>1, LockerKept
<1>5. ASSUME NEW h \in Handlers, NEW l \in Loans, CheckoutCommit(h, l)
      PROVE  LockerIdOfAsset(m)' = NoLocker
  <2>1. PICK a \in Assets :
           /\ assets[a].status = "AVAILABLE"
           /\ loans[l].status = "NONE"
           /\ loans'[l].status = "RESERVED" /\ loans'[l].asset = a
           /\ \A n \in Loans : n # l => loans'[n] = loans[n]
           /\ assets'[a].status = "BORROWED"
           /\ \A b \in Assets : b # a => assets'[b] = assets[b]
    BY <1>0, <1>5, CheckoutShape
  <2>2. m # l /\ loans'[m] = loans[m]
    BY <2>1
  <2>3. loans[m].asset # a
    BY <1>b, <1>c, <2>1, <2>2 DEF Holds, LockerInv, CustodyInv, BorrowableMeansFree
  <2> QED
    BY <1>0, <1>1, <1>c, <2>1, <2>2, <2>3, LockerKept
<1>6. ASSUME NEW h \in Handlers, NEW k \in Lockers, ReturnCommit(h, k)
      PROVE  LockerIdOfAsset(m)' = NoLocker
  <2>1. /\ \E l \in Loans : /\ loans[l].status \in Returnable
                            /\ loans'[l].status = "RETURNING"
                            /\ loans'[l].asset = loans[l].asset
                            /\ \A n \in Loans : n # l => loans'[n] = loans[n]
        /\ UNCHANGED assets
    BY <1>0, <1>6, ReturnShape
  <2>2. loans[m].status \in Out /\ loans'[m].asset = loans[m].asset
    BY <2>1 DEF Returnable
  <2> QED
    BY <1>0, <1>1, <1>c, <2>1, <2>2, LockerKept
<1>7. ASSUME NEW a \in Assets, NEW s, NEW k, UpdateAsset(a, s, k) \/ SoftDeleteAsset(a)
      PROVE  LockerIdOfAsset(m)' = NoLocker
  <2>1. UNCHANGED loans
    BY <1>7 DEF UpdateAsset, SoftDeleteAsset
  <2>2. Held(loans[m].asset)
    BY <1>b, <2>1 DEF Held, Holds
  <2>3. \/ assets'[loans[m].asset].locker = assets[loans[m].asset].locker
        \/ assets'[loans[m].asset].locker = NoLocker
    <3>1. CASE SoftDeleteAsset(a)
      BY <1>0, <1>b, <2>1, <3>1 DEF SoftDeleteAsset, TypeOK
    <3>2. CASE UpdateAsset(a, s, k)
      <4>1. loans[m].asset = a => k = NoLocker
        BY <2>1, <2>2, <3>2 DEF UpdateAsset
      <4> QED
        BY <1>0, <1>b, <2>1, <3>2, <4>1 DEF UpdateAsset, TypeOK
    <3> QED
      BY <1>7, <3>1, <3>2
  <2> QED
    BY <1>0, <1>1, <1>c, <2>1, <2>3, LockerKept
<1>8. CASE Bookkeeping \/ UNCHANGED vars
  BY <1>2, <1>8 DEF vars, Bookkeeping, CheckoutBegin, ReturnBegin, VisionBegin, RequestAborts,
     UpdateLockerStatus, SuspensionEnds
<1> QED
  BY <1>0, <1>3, <1>4, <1>5, <1>6, <1>7, <1>8, StepCases

(* An asset whose loan is out or on its way back is in no locker, save one *)
(* that an administrator gave a locker, or declared AVAILABLE, meanwhile.  *)
THEOREM OutOfLocker == Spec => []OnLoanOutOfLocker
<1>1. Init => LockerInv
  BY CustodyInit, LockerInit DEF LockerInv
<1>2. LockerInv /\ [Next]_vars => LockerInv'
  BY LockerStep
<1>3. LockerInv => OnLoanOutOfLocker
  BY DEF LockerInv
<1> QED
  BY <1>1, <1>2, <1>3, PTL DEF Spec

=============================================================================
