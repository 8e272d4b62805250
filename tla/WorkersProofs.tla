--------------------------- MODULE WorkersProofs ---------------------------
(***************************************************************************)
(* Proofs about Workers, for any number of processes and loans, any batch  *)
(* size and any number of faults.                                          *)
(***************************************************************************)
EXTENDS Workers, TLAPS

(* The row a run works on is locked by it, and it locks no other.          *)
RowInv ==
    \A i \in Instances, l \in Loans : worker[i].current = l <=> rowLock[l] = i

(* A handler has locked a loan nobody has moved on.                        *)
UserInv == \A l \in Loans : rowLock[l] = User => loan[l] \in {"running", "due"}

(* A loan that workers have moved on was moved once, and stays timed out.  *)
MovesInv == \A l \in Loans : moves[l] = 0 \/ (moves[l] = 1 /\ loan[l] = "timed out")

IInv == TypeOK /\ RowInv /\ UserInv /\ CheckedIsDue /\ MovesInv

LEMMA InitCorrect == Init => IInv
<1> SUFFICES ASSUME Init PROVE IInv
  OBVIOUS
<1> USE WorkerConstants DEF Init
<1>1. Waiting \in Runs /\ Waiting.at = "waiting" /\ Waiting.current = None
  BY DEF Waiting, Runs
<1>2. \A i \in Instances : worker[i] = Waiting
  OBVIOUS
<1>3. TypeOK
  <2>1. /\ loan \in [Loans -> {"running", "due", "settled", "timed out"}]
        /\ rowLock \in [Loans -> Instances \cup {User, None}]
        /\ moves \in [Loans -> Nat]
    OBVIOUS
  <2>2. worker \in [Instances -> Runs] /\ lock \in BOOLEAN
    BY <1>1
  <2>3. faults \in 0..MaxFaults
    OBVIOUS
  <2> QED BY <1>1, <1>2, <2>1, <2>2, <2>3 DEF TypeOK
<1>4. RowInv
  BY <1>1, <1>2 DEF RowInv
<1>5. UserInv /\ CheckedIsDue /\ MovesInv
  BY <1>1, <1>2 DEF UserInv, CheckedIsDue, MovesInv
<1> QED
  BY <1>3, <1>4, <1>5 DEF IInv

(* A step of one process that leaves the locks and the loan it works on.   *)
LEMMA LoopMoves ==
    ASSUME IInv, NEW i \in Instances, NEW row \in Runs, UNCHANGED <<loan, rowLock, moves>>,
           lock' \in BOOLEAN, faults' \in 0..MaxFaults,
           worker' = [worker EXCEPT ![i] = row],
           row.current = worker[i].current,
           row.current # None <=> row.at \in {"locked", "checked"},
           row.at = "checked" => loan[row.current] = "due"
    PROVE  IInv'
<1>1. /\ worker'[i] = row /\ worker' \in [Instances -> Runs]
      /\ \A j \in Instances : worker'[j] = worker[j] \/ (j = i /\ worker'[j] = row)
  BY DEF IInv, TypeOK
<1>2. TypeOK'
  BY <1>1 DEF IInv, TypeOK
<1>3. RowInv'
  BY <1>1 DEF IInv, RowInv
<1>4. UserInv' /\ MovesInv'
  BY DEF IInv, UserInv, MovesInv
<1>5. CheckedIsDue'
  <2> SUFFICES ASSUME NEW j \in Instances, worker'[j].at = "checked"
               PROVE  /\ rowLock[worker'[j].current] = j
                      /\ loan[worker'[j].current] = "due"
    BY DEF CheckedIsDue
  <2>1. CASE j = i /\ worker'[j] = row
    <3>1. row.current \in Loans
      BY <2>1 DEF Runs
    <3> QED BY <2>1, <3>1 DEF IInv, RowInv
  <2>2. CASE worker'[j] = worker[j]
    BY <2>2 DEF IInv, CheckedIsDue
  <2> QED BY <1>1, <2>1, <2>2
<1> QED
  BY <1>2, <1>3, <1>4, <1>5 DEF IInv

(* A step that ends the transaction of a process: it holds no row then.    *)
LEMMA TransactionEnds ==
    ASSUME IInv, NEW i \in Instances, NEW row \in Runs, NEW l \in Loans,
           NEW status, NEW count, worker[i].current = l,
           \/ status = loan[l] /\ count = moves[l]
           \/ status = "timed out" /\ count = 1,
           loan' = [loan EXCEPT ![l] = status],
           moves' = [moves EXCEPT ![l] = count],
           lock' = lock, faults' \in 0..MaxFaults,
           rowLock' = [rowLock EXCEPT ![l] = None],
           worker' = [worker EXCEPT ![i] = row],
           row.at \in {"stopped", "batch"}, row.current = None
    PROVE  IInv'
<1>1. /\ worker'[i] = row /\ worker' \in [Instances -> Runs]
      /\ \A j \in Instances \ {i} : worker'[j] = worker[j]
  BY DEF IInv, TypeOK
<1>2. rowLock[l] = i
  BY DEF IInv, RowInv
<1>3. /\ rowLock'[l] = None /\ loan'[l] = status /\ moves'[l] = count
      /\ \A k \in Loans \ {l} : /\ rowLock'[k] = rowLock[k]
                               /\ loan'[k] = loan[k]
                               /\ moves'[k] = moves[k]
  BY DEF IInv, TypeOK
<1>4. TypeOK'
  <2>1. loan' \in [Loans -> {"running", "due", "settled", "timed out"}]
    BY DEF IInv, TypeOK
  <2>2. rowLock' \in [Loans -> Instances \cup {User, None}]
    BY DEF IInv, TypeOK
  <2>3. moves' \in [Loans -> Nat]
    <3>1. moves \in [Loans -> Nat]
      BY DEF IInv, TypeOK
    <3>2. CASE count = moves[l]
      BY <3>1, <3>2
    <3>3. CASE count = 1
      BY <3>1, <3>3
    <3> QED BY <3>1, <3>2, <3>3
  <2>4. \A j \in Instances :
            worker'[j].current # None <=> worker'[j].at \in {"locked", "checked"}
    BY <1>1 DEF IInv, TypeOK
  <2> QED BY <1>1, <2>1, <2>2, <2>3, <2>4 DEF IInv, TypeOK
<1>5. RowInv'
  <2> SUFFICES ASSUME NEW j \in Instances, NEW k \in Loans
               PROVE  worker'[j].current = k <=> rowLock'[k] = j
    BY DEF RowInv
  <2>1. None # k /\ None # j
    BY WorkerConstants
  <2>2. worker[j].current = k <=> rowLock[k] = j
    BY DEF IInv, RowInv
  <2>3. CASE j = i
    BY <1>1, <1>2, <1>3, <2>1, <2>2, <2>3
  <2>4. CASE j # i
    BY <1>1, <1>2, <1>3, <2>1, <2>2, <2>4
  <2> QED BY <2>3, <2>4
<1>6. UserInv'
  BY <1>3, WorkerConstants DEF IInv, UserInv
<1>7. CheckedIsDue'
  <2> SUFFICES ASSUME NEW j \in Instances, worker'[j].at = "checked"
               PROVE  /\ rowLock'[worker'[j].current] = j
                      /\ loan'[worker'[j].current] = "due"
    BY DEF CheckedIsDue
  <2>1. j # i /\ worker'[j] = worker[j]
    BY <1>1
  <2>2. worker[j].current \in Loans
    BY <2>1 DEF IInv, TypeOK, Runs
  <2>3. rowLock[worker[j].current] = j /\ loan[worker[j].current] = "due"
    BY <2>1 DEF IInv, CheckedIsDue
  <2> QED BY <1>2, <1>3, <2>1, <2>2, <2>3
<1>8. MovesInv'
  BY <1>3 DEF IInv, MovesInv
<1> QED
  BY <1>4, <1>5, <1>6, <1>7, <1>8 DEF IInv

(* The loan a process has locked is one of the loans, and locked by it.    *)
LEMMA CurrentIsLocked ==
    ASSUME IInv, NEW i \in Instances, worker[i].at \in {"locked", "checked"}
    PROVE  worker[i].current \in Loans /\ rowLock[worker[i].current] = i
<1>1. worker[i].current \in Loans
  BY DEF IInv, TypeOK, Runs
<1> QED
  BY <1>1 DEF IInv, RowInv

(* Nobody but a worker moves a loan to "timed out", and a handler settles  *)
(* none that is.                                                           *)
LEMMA HandlerStep ==
    ASSUME IInv, NEW l \in Loans,
           FallsDue(l) \/ HandlerLocks(l) \/ HandlerCommits(l) \/ HandlerAborts(l)
    PROVE  IInv'
<1> USE WorkerConstants
<1>1. /\ worker' = worker /\ moves' = moves /\ lock' = lock /\ faults' \in 0..MaxFaults
      /\ \A k \in Loans \ {l} : rowLock'[k] = rowLock[k] /\ loan'[k] = loan[k]
  <2>1. loan \in [Loans -> {"running", "due", "settled", "timed out"}] /\ faults \in 0..MaxFaults
    BY DEF IInv, TypeOK
  <2>2. rowLock \in [Loans -> Instances \cup {User, None}]
    BY DEF IInv, TypeOK
  <2>3. CASE FallsDue(l) \/ HandlerLocks(l)
    BY <2>1, <2>2, <2>3 DEF FallsDue, HandlerLocks
  <2>4. CASE HandlerCommits(l)
    BY <2>1, <2>2, <2>4 DEF HandlerCommits
  <2>5. CASE HandlerAborts(l)
    <3>1. faults < MaxFaults /\ faults' = faults + 1
      BY <2>5 DEF HandlerAborts
    <3>2. faults \in 0..MaxFaults
      BY <2>1
    <3>3. faults' \in 0..MaxFaults
      BY <3>1, <3>2
    <3> QED BY <2>2, <2>5, <3>3 DEF HandlerAborts
  <2> QED BY <2>3, <2>4, <2>5
<1>2. /\ rowLock'[l] = rowLock[l] \/ {rowLock[l], rowLock'[l]} \subseteq {User, None}
      /\ loan[l] # "timed out" /\ loan'[l] # "timed out"
      /\ rowLock'[l] = User => loan'[l] \in {"running", "due"}
      /\ rowLock[l] \in Instances /\ loan[l] = "due" => loan'[l] = "due"
  BY DEF FallsDue, HandlerLocks, HandlerCommits, HandlerAborts, IInv, TypeOK, UserInv
<1>3. TypeOK'
  <2>1. loan' \in [Loans -> {"running", "due", "settled", "timed out"}]
    BY DEF FallsDue, HandlerLocks, HandlerCommits, HandlerAborts, IInv, TypeOK
  <2>2. rowLock' \in [Loans -> Instances \cup {User, None}]
    BY DEF FallsDue, HandlerLocks, HandlerCommits, HandlerAborts, IInv, TypeOK
  <2> QED BY <1>1, <2>1, <2>2 DEF IInv, TypeOK
<1>4. RowInv'
  <2> SUFFICES ASSUME NEW i \in Instances, NEW k \in Loans
               PROVE  worker'[i].current = k <=> rowLock'[k] = i
    BY DEF RowInv
  <2>1. rowLock'[k] = rowLock[k] \/ {rowLock[k], rowLock'[k]} \subseteq {User, None}
    BY <1>1, <1>2
  <2>2. i # User /\ i # None
    OBVIOUS
  <2> QED BY <1>1, <2>1, <2>2 DEF IInv, RowInv
<1>5. UserInv'
  BY <1>1, <1>2 DEF IInv, UserInv
<1>6. CheckedIsDue'
  <2> SUFFICES ASSUME NEW i \in Instances, worker[i].at = "checked"
               PROVE  rowLock'[worker[i].current] = i /\ loan'[worker[i].current] = "due"
    BY <1>1 DEF CheckedIsDue
  <2>1. worker[i].current \in Loans /\ rowLock[worker[i].current] = i
    BY CurrentIsLocked
  <2>2. loan[worker[i].current] = "due"
    BY DEF IInv, CheckedIsDue
  <2> QED BY <1>1, <1>2, <2>1, <2>2
<1>7. MovesInv'
  BY <1>1, <1>2 DEF IInv, MovesInv
<1> QED
  BY <1>3, <1>4, <1>5, <1>6, <1>7 DEF IInv

LEMMA TakeStep == ASSUME IInv, NEW i \in Instances, NEW l \in Loans, TakeNext(i, l) PROVE IInv'
<1> DEFINE row == worker[i]
           taken == [row EXCEPT !.at = "locked", !.current = l, !.batch = @ \ {l}]
           left == [row EXCEPT !.batch = @ \ {l}]
<1>1. row \in Runs /\ row.at = "batch" /\ row.current = None /\ None \notin Loans
  BY WorkerConstants DEF TakeNext, IInv, TypeOK
<1>2. CASE rowLock[l] = None
  <2>1. /\ worker' = [worker EXCEPT ![i] = taken] /\ rowLock' = [rowLock EXCEPT ![l] = i]
        /\ UNCHANGED <<loan, lock, moves, faults>>
    BY <1>2 DEF TakeNext
  <2>2. taken \in Runs /\ taken.at = "locked" /\ taken.current = l
    BY <1>1 DEF Runs
  <2> HIDE DEF row, taken
  <2>3. /\ worker' \in [Instances -> Runs] /\ worker'[i] = taken
        /\ rowLock' \in [Loans -> Instances \cup {User, None}] /\ rowLock'[l] = i
        /\ \A j \in Instances \ {i} : worker'[j] = worker[j]
        /\ \A k \in Loans \ {l} : rowLock'[k] = rowLock[k]
    BY <2>1, <2>2 DEF IInv, TypeOK
  <2>4. TypeOK'
    BY <1>1, <2>1, <2>2, <2>3 DEF IInv, TypeOK
  <2>5. RowInv'
    BY <1>1, <1>2, <2>2, <2>3, WorkerConstants DEF IInv, RowInv, row
  <2>6. UserInv' /\ MovesInv'
    BY <2>1, <2>3, WorkerConstants DEF IInv, UserInv, MovesInv
  <2>7. CheckedIsDue'
    <3> SUFFICES ASSUME NEW j \in Instances \ {i}, worker[j].at = "checked"
                 PROVE  rowLock'[worker[j].current] = j /\ loan[worker[j].current] = "due"
      BY <2>1, <2>2, <2>3 DEF CheckedIsDue
    <3>1. worker[j].current \in Loans /\ rowLock[worker[j].current] = j
      BY CurrentIsLocked
    <3>2. worker[j].current # l
      BY <1>2, <3>1, WorkerConstants
    <3> QED BY <2>3, <3>1, <3>2 DEF IInv, CheckedIsDue
  <2> QED BY <2>4, <2>5, <2>6, <2>7 DEF IInv
<1>3. CASE rowLock[l] # None
  <2>1. worker' = [worker EXCEPT ![i] = left] /\ UNCHANGED <<rowLock, loan, lock, moves, faults>>
    BY <1>3 DEF TakeNext
  <2>2. left \in Runs /\ left.at = row.at /\ left.current = row.current
    BY <1>1 DEF Runs
  <2>3. lock \in BOOLEAN /\ faults \in 0..MaxFaults
    BY DEF IInv, TypeOK
  <2> HIDE DEF left
  <2> QED BY <1>1, <2>1, <2>2, <2>3, LoopMoves
<1> QED
  BY <1>2, <1>3

-----------------------------------------------------------------------------
(* The steps of a run.                                                     *)

(* The loop moves on, and no transaction begins or ends.                   *)
LEMMA LoopStep ==
    ASSUME IInv, NEW i \in Instances,
           \/ AcquireDistributedLock(i) \/ FetchBatch(i) \/ BatchEnds(i) \/ Restart(i)
    PROVE  IInv'
<1>1. /\ worker[i] \in Runs /\ worker[i].current = None /\ lock' \in BOOLEAN
      /\ faults' \in 0..MaxFaults /\ UNCHANGED <<loan, rowLock, moves>>
  BY DEF AcquireDistributedLock, FetchBatch, BatchEnds, Restart, IInv, TypeOK
<1>2. ASSUME NEW row \in Runs, row.at \in {"waiting", "fetching", "batch"}, row.current = None,
             worker' = [worker EXCEPT ![i] = row]
      PROVE  IInv'
  BY <1>1, <1>2, LoopMoves
<1>3. CASE AcquireDistributedLock(i)
  <2> DEFINE row == [Waiting EXCEPT !.at = "fetching", !.asof = {l \in Loans : loan[l] = "due"}]
  <2>1. row \in Runs /\ row.at = "fetching" /\ row.current = None
    BY DEF Waiting, Runs
  <2>2. worker' = [worker EXCEPT ![i] = row]
    BY <1>3 DEF AcquireDistributedLock
  <2> HIDE DEF row
  <2> QED BY <1>2, <2>1, <2>2
<1>4. CASE FetchBatch(i)
  <2>1. CASE worker' = [worker EXCEPT ![i].at = "waiting", ![i].asof = {}]
    <3> DEFINE row == [worker[i] EXCEPT !.at = "waiting", !.asof = {}]
    <3>1. row \in Runs /\ row.at = "waiting" /\ row.current = None
      BY <1>1 DEF Runs
    <3>2. worker' = [worker EXCEPT ![i] = row]
      BY <2>1 DEF IInv, TypeOK
    <3> HIDE DEF row
    <3> QED BY <1>2, <3>1, <3>2
  <2>2. ASSUME NEW batch \in SUBSET Loans,
               worker' = [worker EXCEPT ![i].at = "batch", ![i].batch = batch]
        PROVE  IInv'
    <3> DEFINE row == [worker[i] EXCEPT !.at = "batch", !.batch = batch]
    <3>1. row \in Runs /\ row.at = "batch" /\ row.current = None
      BY <1>1 DEF Runs
    <3>2. worker' = [worker EXCEPT ![i] = row]
      BY <2>2 DEF IInv, TypeOK
    <3> HIDE DEF row
    <3> QED BY <1>2, <3>1, <3>2
  <2>3. \/ worker' = [worker EXCEPT ![i].at = "waiting", ![i].asof = {}]
        \/ \E batch \in SUBSET Loans :
               worker' = [worker EXCEPT ![i].at = "batch", ![i].batch = batch]
    <3> DEFINE ids == {l \in worker[i].asof \ worker[i].failed : loan[l] = "due"}
    <3>1. ids \subseteq Loans
      BY <1>1 DEF Runs
    <3>2. \/ worker' = [worker EXCEPT ![i].at = "waiting", ![i].asof = {}]
          \/ \E batch \in SUBSET ids :
                 worker' = [worker EXCEPT ![i].at = "batch", ![i].batch = batch]
      BY <1>4 DEF FetchBatch
    <3> HIDE DEF ids
    <3> QED BY <3>1, <3>2
  <2> QED BY <2>1, <2>2, <2>3
<1>5. CASE BatchEnds(i)
  <2> DEFINE row == [worker[i] EXCEPT !.at = "fetching"]
  <2>1. row \in Runs /\ row.at = "fetching" /\ row.current = None
    BY <1>1 DEF Runs
  <2>2. worker' = [worker EXCEPT ![i] = row]
    BY <1>5 DEF BatchEnds, IInv, TypeOK
  <2> HIDE DEF row
  <2> QED BY <1>2, <2>1, <2>2
<1>6. CASE Restart(i)
  <2>1. Waiting \in Runs /\ Waiting.at = "waiting" /\ Waiting.current = None
    BY DEF Waiting, Runs
  <2> QED BY <1>2, <1>6, <2>1 DEF Restart
<1> QED
  BY <1>3, <1>4, <1>5, <1>6

(* The transaction of the current loan ends, as Release does it.           *)
LEMMA ReleaseStep ==
    ASSUME IInv, NEW i \in Instances, worker[i].at \in {"locked", "checked"},
           NEW failed \in SUBSET Loans, Release(i, failed), lock' = lock,
           faults' \in 0..MaxFaults, NEW status, NEW count,
           \/ status = loan[worker[i].current] /\ count = moves[worker[i].current]
           \/ status = "timed out" /\ count = 1,
           loan' = [loan EXCEPT ![worker[i].current] = status],
           moves' = [moves EXCEPT ![worker[i].current] = count]
    PROVE  IInv'
<1> DEFINE l == worker[i].current
           row == [worker[i] EXCEPT !.at = "batch", !.current = None,
                                    !.failed = @ \cup failed]
<1>1. l \in Loans
  BY CurrentIsLocked
<1>2. row \in Runs /\ row.at = "batch" /\ row.current = None
  <2>1. worker[i] \in Runs
    BY DEF IInv, TypeOK
  <2>2. worker[i].failed \cup failed \in SUBSET Loans
    BY <2>1 DEF Runs
  <2> QED BY <2>1, <2>2 DEF Runs
<1>3. worker' = [worker EXCEPT ![i] = row] /\ rowLock' = [rowLock EXCEPT ![l] = None]
  BY DEF Release, IInv, TypeOK
<1> HIDE DEF row
<1> QED
  BY <1>1, <1>2, <1>3, TransactionEnds

(* A transaction that ends without changing its loan.                      *)
LEMMA RollbackStep ==
    ASSUME IInv, NEW i \in Instances, worker[i].at \in {"locked", "checked"},
           NEW failed \in SUBSET Loans, Release(i, failed), lock' = lock,
           faults' \in 0..MaxFaults, UNCHANGED <<loan, moves>>
    PROVE  IInv'
<1> DEFINE status == loan[worker[i].current]
           count == moves[worker[i].current]
<1>1. /\ loan' = [loan EXCEPT ![worker[i].current] = status]
      /\ moves' = [moves EXCEPT ![worker[i].current] = count]
  BY DEF IInv, TypeOK
<1>2. status = loan[worker[i].current] /\ count = moves[worker[i].current]
  OBVIOUS
<1> HIDE DEF status, count
<1> QED
  BY <1>1, <1>2, ReleaseStep

LEMMA CurrentStep ==
    ASSUME IInv, NEW i \in Instances, Recheck(i) \/ MoveOn(i) \/ TransactionFails(i)
    PROVE  IInv'
<1>1. worker[i].at \in {"locked", "checked"} /\ lock' = lock
  BY DEF Recheck, MoveOn, TransactionFails
<1>2. lock \in BOOLEAN /\ faults' \in 0..MaxFaults
  <2>1. lock \in BOOLEAN /\ faults \in 0..MaxFaults
    BY DEF IInv, TypeOK
  <2>2. \/ faults' = faults
        \/ faults < MaxFaults /\ faults' = faults + 1
    BY DEF Recheck, MoveOn, TransactionFails
  <2> QED BY <2>1, <2>2, WorkerConstants
<1>3. CASE Recheck(i)
  <2>1. CASE loan[worker[i].current] = "due"
    <3> DEFINE row == [worker[i] EXCEPT !.at = "checked"]
    <3>1. /\ row \in Runs /\ row.at = "checked" /\ row.current = worker[i].current
          /\ row.current # None
      BY <1>1 DEF IInv, TypeOK, Runs
    <3>2. worker' = [worker EXCEPT ![i] = row] /\ UNCHANGED <<loan, rowLock, moves>>
      BY <1>3, <2>1 DEF Recheck, IInv, TypeOK
    <3> HIDE DEF row
    <3> QED BY <1>1, <1>2, <2>1, <3>1, <3>2, LoopMoves
  <2>2. CASE loan[worker[i].current] # "due"
    BY <1>1, <1>2, <1>3, <2>2, RollbackStep DEF Recheck
  <2> QED BY <2>1, <2>2
<1>4. CASE MoveOn(i)
  <2>1. worker[i].current \in Loans /\ loan[worker[i].current] = "due"
    BY <1>1, <1>4, CurrentIsLocked DEF MoveOn, IInv, CheckedIsDue
  <2>2. moves[worker[i].current] = 0
    BY <2>1 DEF IInv, MovesInv
  <2>3. moves' = [moves EXCEPT ![worker[i].current] = moves[worker[i].current] + 1]
    BY <1>4 DEF MoveOn
  <2>4. moves' = [moves EXCEPT ![worker[i].current] = 1]
    BY <2>2, <2>3
  <2> QED BY <1>1, <1>2, <1>4, <2>4, ReleaseStep DEF MoveOn
<1>5. CASE TransactionFails(i)
  BY <1>1, <1>2, <1>5, RollbackStep, CurrentIsLocked DEF TransactionFails
<1> QED
  BY <1>3, <1>4, <1>5

LEMMA CrashStep == ASSUME IInv, NEW i \in Instances, Crash(i) PROVE IInv'
<1> USE WorkerConstants
<1>1. /\ worker' = [worker EXCEPT ![i] = Stopped] /\ UNCHANGED <<loan, lock, moves>>
      /\ rowLock' = [k \in Loans |-> IF rowLock[k] = i THEN None ELSE rowLock[k]]
  BY DEF Crash
<1>2. Stopped \in Runs /\ Stopped.at = "stopped" /\ Stopped.current = None
  BY DEF Stopped, Waiting, Runs
<1>3. faults' \in 0..MaxFaults
  <2>1. faults \in 0..MaxFaults
    BY DEF IInv, TypeOK
  <2>2. faults < MaxFaults /\ faults' = faults + 1
    BY DEF Crash
  <2> QED BY <2>1, <2>2
<1>4. /\ worker' \in [Instances -> Runs] /\ worker'[i] = Stopped
      /\ \A j \in Instances \ {i} : worker'[j] = worker[j]
  BY <1>1, <1>2 DEF IInv, TypeOK
<1>5. \A k \in Loans : /\ rowLock[k] = i => rowLock'[k] = None
                       /\ rowLock[k] # i => rowLock'[k] = rowLock[k]
  BY <1>1
<1>6. TypeOK'
  <2>1. rowLock' \in [Loans -> Instances \cup {User, None}]
    BY <1>1 DEF IInv, TypeOK
  <2>2. \A j \in Instances :
            worker'[j].current # None <=> worker'[j].at \in {"locked", "checked"}
    BY <1>2, <1>4 DEF IInv, TypeOK
  <2> QED BY <1>1, <1>3, <1>4, <2>1, <2>2 DEF IInv, TypeOK
<1>7. RowInv'
  <2> SUFFICES ASSUME NEW j \in Instances, NEW k \in Loans
               PROVE  worker'[j].current = k <=> rowLock'[k] = j
    BY DEF RowInv
  <2>1. None # k /\ None # j /\ (worker[j].current = k <=> rowLock[k] = j)
    BY DEF IInv, RowInv
  <2>2. CASE j = i
    BY <1>2, <1>4, <1>5, <2>1, <2>2
  <2>3. CASE j # i
    BY <1>4, <1>5, <2>1, <2>3
  <2> QED BY <2>2, <2>3
<1>8. UserInv' /\ MovesInv'
  BY <1>1, <1>5 DEF IInv, UserInv, MovesInv
<1>9. CheckedIsDue'
  <2> SUFFICES ASSUME NEW j \in Instances \ {i}, worker[j].at = "checked"
               PROVE  rowLock'[worker[j].current] = j /\ loan[worker[j].current] = "due"
    BY <1>1, <1>2, <1>4 DEF CheckedIsDue
  <2>1. worker[j].current \in Loans /\ rowLock[worker[j].current] = j
    BY CurrentIsLocked
  <2> QED BY <1>5, <2>1 DEF IInv, CheckedIsDue
<1> QED
  BY <1>6, <1>7, <1>8, <1>9 DEF IInv

LEMMA OnlyLockChanges ==
    ASSUME IInv, UNCHANGED <<loan, rowLock, worker, moves, faults>>, lock' \in BOOLEAN
    PROVE  IInv'
<1>1. TypeOK'
  BY DEF IInv, TypeOK
<1>2. RowInv' /\ UserInv'
  BY DEF IInv, RowInv, UserInv
<1>3. CheckedIsDue' /\ MovesInv'
  BY DEF IInv, CheckedIsDue, MovesInv
<1> QED
  BY <1>1, <1>2, <1>3 DEF IInv

LEMMA NextStep == IInv /\ [Next]_vars => IInv'
<1> SUFFICES ASSUME IInv, [Next]_vars PROVE IInv'
  OBVIOUS
<1>1. CASE UNCHANGED vars
  <2>1. UNCHANGED <<loan, rowLock, worker, moves, faults>> /\ lock' = lock
    BY <1>1 DEF vars
  <2> QED BY <2>1, OnlyLockChanges DEF IInv, TypeOK
<1>2. CASE LockExpires
  BY <1>2, OnlyLockChanges DEF LockExpires
<1>3. ASSUME NEW i \in Instances, AcquireDistributedLock(i) \/ FetchBatch(i) \/ BatchEnds(i)
                                  \/ Restart(i)
      PROVE  IInv'
  BY <1>3, LoopStep
<1>4. ASSUME NEW i \in Instances, Recheck(i) \/ MoveOn(i) \/ TransactionFails(i) PROVE IInv'
  BY <1>4, CurrentStep
<1> QED
  BY <1>1, <1>2, <1>3, <1>4, HandlerStep, TakeStep, CrashStep DEF Next, RunStep

-----------------------------------------------------------------------------
(* The theorems.                                                           *)

LEMMA AlwaysIInv == Spec => []IInv
BY InitCorrect, NextStep, PTL DEF Spec

(* Every variable of the loop keeps its type.                              *)
THEOREM TypeCorrect == Spec => []TypeOK
<1>1. IInv => TypeOK
  BY DEF IInv
<1> QED
  BY <1>1, AlwaysIInv, PTL

(* However many processes run at once, and wherever they die, a worker     *)
(* moves a loan on once at most (loan_timeout_worker.py:92-145,            *)
(* overdue_worker.py:80-136).                                              *)
THEOREM MovedAtMostOnce == Spec => []MovedOnce
<1>1. IInv => MovedOnce
  <2> SUFFICES ASSUME IInv, NEW l \in Loans PROVE moves[l] <= 1
    BY DEF MovedOnce
  <2>1. moves[l] \in Nat
    BY DEF IInv, TypeOK
  <2>2. moves[l] = 0 \/ moves[l] = 1
    BY DEF IInv, MovesInv
  <2> QED BY <2>1, <2>2
<1> QED
  BY <1>1, AlwaysIInv, PTL

(* What a worker has checked under the lock of the row holds until it      *)
(* commits (loan_timeout_worker.py:53-61).                                 *)
THEOREM CheckHolds == Spec => []CheckedIsDue
<1>1. IInv => CheckedIsDue
  BY DEF IInv
<1> QED
  BY <1>1, AlwaysIInv, PTL

(* Every step of the processes is one the reliable worker could take, or   *)
(* changes no loan.                                                        *)
LEMMA StepKeepsPromise == IInv /\ [Next]_vars => [Promise!Next]_loan
<1> SUFFICES ASSUME IInv, [Next]_vars PROVE [Promise!Next]_loan
  OBVIOUS
<1> USE DEF Promise!Next, Promise!FallsDue, Promise!TimeOut, Promise!Settle
<1>1. CASE UNCHANGED vars \/ LockExpires
  BY <1>1 DEF vars, LockExpires
<1>2. ASSUME NEW l \in Loans,
             FallsDue(l) \/ HandlerLocks(l) \/ HandlerCommits(l) \/ HandlerAborts(l)
      PROVE  [Promise!Next]_loan
  BY <1>2 DEF FallsDue, HandlerLocks, HandlerCommits, HandlerAborts, IInv, UserInv
<1>3. ASSUME NEW i \in Instances, MoveOn(i) PROVE [Promise!Next]_loan
  <2>1. worker[i].current \in Loans /\ loan[worker[i].current] = "due"
    BY <1>3, CurrentIsLocked DEF MoveOn, IInv, CheckedIsDue
  <2> QED BY <1>3, <2>1 DEF MoveOn
<1>4. ASSUME NEW i \in Instances,
             \/ AcquireDistributedLock(i) \/ FetchBatch(i) \/ (\E l \in Loans : TakeNext(i, l))
             \/ BatchEnds(i) \/ Recheck(i) \/ TransactionFails(i) \/ Crash(i) \/ Restart(i)
      PROVE  [Promise!Next]_loan
  BY <1>4 DEF AcquireDistributedLock, FetchBatch, TakeNext, BatchEnds, Recheck,
              TransactionFails, Crash, Restart
<1> QED
  BY <1>1, <1>2, <1>3, <1>4 DEF Next, RunStep

(* The safety half of ImplementsPromise; that a loan is not left waiting   *)
(* rests on LiveSpec's fairness.                                           *)
THEOREM PromiseIsSafe == Spec => Promise!Init /\ [][Promise!Next]_loan
<1>1. Init => Promise!Init
  BY DEF Init, Promise!Init
<1> QED
  BY <1>1, AlwaysIInv, StepKeepsPromise, PTL DEF Spec

=============================================================================
