------------------------------ MODULE Workers ------------------------------
(***************************************************************************)
(* workers/loan_timeout_worker.py, workers/overdue_worker.py and           *)
(* core/redis_utils.py: the loop every API process runs, the Redis lock    *)
(* between them, and one transaction per loan.  Both workers have the      *)
(* same loop; "due" is a loan past the cut-off of the one or past the due  *)
(* date of the other, and "timed out" is what that worker makes of it.     *)
(*                                                                         *)
(* The lock is never released: it ends by its time to live, which no run   *)
(* is bound by, so two runs may overlap.  Handlers of users lock the same  *)
(* rows (FOR UPDATE NOWAIT).  A process may stop at any step; the database *)
(* then rolls its transaction back, Redis keeps the lock.                  *)
(***************************************************************************)
EXTENDS Naturals, FiniteSets

CONSTANTS
    Instances, \* API processes
    Loans,
    BatchSize,
    MaxFaults, \* bound on crashes, failed transactions and aborted handlers
    User,      \* a handler that holds the lock of a row
    None       \* Python's None

ASSUME WorkerConstants ==
    /\ BatchSize \in Nat \ {0}
    /\ MaxFaults \in Nat
    /\ None \notin Instances \cup Loans \cup {User}
    /\ User \notin Instances

VARIABLES
    loan,    \* per loan: its status as far as the worker looks at it
    rowLock, \* per loan: who holds FOR UPDATE on its rows
    lock,    \* the key lock:... exists in Redis
    worker,  \* per process: where its loop is, and its locals
    moves,   \* per loan: how often workers have moved it on
    faults

vars == <<loan, rowLock, lock, worker, moves, faults>>

Runs == [at: {"stopped", "waiting", "fetching", "batch", "locked", "checked"},
         asof: SUBSET Loans, failed: SUBSET Loans, batch: SUBSET Loans,
         current: Loans \cup {None}]

Waiting == [at |-> "waiting", asof |-> {}, failed |-> {}, batch |-> {}, current |-> None]
Stopped == [Waiting EXCEPT !.at = "stopped"]

TypeOK ==
    /\ loan \in [Loans -> {"running", "due", "settled", "timed out"}]
    /\ rowLock \in [Loans -> Instances \cup {User, None}]
    /\ lock \in BOOLEAN
    /\ worker \in [Instances -> Runs]
    /\ \A i \in Instances : worker[i].current # None <=> worker[i].at \in {"locked", "checked"}
    /\ moves \in [Loans -> Nat]
    /\ faults \in 0..MaxFaults

Init ==
    /\ loan = [l \in Loans |-> "running"]
    /\ rowLock = [l \in Loans |-> None]
    /\ lock = FALSE
    /\ worker = [i \in Instances |-> Waiting]
    /\ moves = [l \in Loans |-> 0]
    /\ faults = 0

-----------------------------------------------------------------------------
(* The rest of the system                                                  *)

FallsDue(l) ==
    /\ loan[l] = "running"
    /\ loan' = [loan EXCEPT ![l] = "due"]
    /\ UNCHANGED <<rowLock, lock, worker, moves, faults>>

HandlerLocks(l) ==
    /\ loan[l] \in {"running", "due"}
    /\ rowLock[l] = None
    /\ rowLock' = [rowLock EXCEPT ![l] = User]
    /\ UNCHANGED <<loan, lock, worker, moves, faults>>

HandlerCommits(l) ==
    /\ rowLock[l] = User
    /\ rowLock' = [rowLock EXCEPT ![l] = None]
    /\ loan' = [loan EXCEPT ![l] = "settled"]
    /\ UNCHANGED <<lock, worker, moves, faults>>

HandlerAborts(l) ==
    /\ faults < MaxFaults
    /\ rowLock[l] = User
    /\ rowLock' = [rowLock EXCEPT ![l] = None]
    /\ faults' = faults + 1
    /\ UNCHANGED <<loan, lock, worker, moves>>

-----------------------------------------------------------------------------
(* The loop of a process                                                   *)

(* Mutant: the ids that failed once are left out of later runs as well.    *)
AcquireKeepsFailed(i) ==
    /\ worker[i].at = "waiting"
    /\ ~lock
    /\ lock' = TRUE
    /\ worker' = [worker EXCEPT ![i].at = "fetching", ![i].asof = {l \in Loans : loan[l] = "due"}]
    /\ UNCHANGED <<loan, rowLock, moves, faults>>

(* SET NX EX succeeds; the run looks at the loans due by now.  When the    *)
(* key exists, or Redis fails, the process waits for another interval.     *)
AcquireDistributedLock(i) ==
    /\ worker[i].at = "waiting"
    /\ ~lock
    /\ lock' = TRUE
    /\ worker' = [worker EXCEPT ![i] =
           [Waiting EXCEPT !.at = "fetching", !.asof = {l \in Loans : loan[l] = "due"}]]
    /\ UNCHANGED <<loan, rowLock, moves, faults>>

LockExpires ==
    /\ lock
    /\ lock' = FALSE
    /\ UNCHANGED <<loan, rowLock, worker, moves, faults>>

(* Up to BatchSize loans that are due and have not failed in this run.     *)
FetchBatch(i) ==
    LET ids == {l \in worker[i].asof \ worker[i].failed : loan[l] = "due"}
    IN  /\ worker[i].at = "fetching"
        /\ \/ /\ ids = {}
              /\ worker' = [worker EXCEPT ![i].at = "waiting", ![i].asof = {}]
           \/ \E batch \in SUBSET ids :
                  /\ Cardinality(batch) = IF Cardinality(ids) < BatchSize
                                          THEN Cardinality(ids) ELSE BatchSize
                  /\ batch # {}
                  /\ worker' = [worker EXCEPT ![i].at = "batch", ![i].batch = batch]
        /\ UNCHANGED <<loan, rowLock, lock, moves, faults>>

(* The next loan of the batch is locked, with its asset and lockers; if    *)
(* any row is locked already it is left for the next fetch.                *)
TakeNext(i, l) ==
    /\ worker[i].at = "batch"
    /\ l \in worker[i].batch
    /\ IF rowLock[l] = None
       THEN /\ rowLock' = [rowLock EXCEPT ![l] = i]
            /\ worker' = [worker EXCEPT ![i].at = "locked", ![i].current = l,
                                        ![i].batch = @ \ {l}]
       ELSE /\ worker' = [worker EXCEPT ![i].batch = @ \ {l}]
            /\ UNCHANGED rowLock
    /\ UNCHANGED <<loan, lock, moves, faults>>

BatchEnds(i) ==
    /\ worker[i].at = "batch"
    /\ worker[i].batch = {}
    /\ worker' = [worker EXCEPT ![i].at = "fetching"]
    /\ UNCHANGED <<loan, rowLock, lock, moves, faults>>

(* Mutant: the session is closed, the loan stays the current one.          *)
ReleaseRow(i, failed) ==
    /\ rowLock' = [rowLock EXCEPT ![worker[i].current] = None]
    /\ worker' = [worker EXCEPT ![i].at = "batch", ![i].failed = @ \cup failed]

(* The transaction of the current loan ends, and the batch goes on.        *)
Release(i, failed) ==
    /\ rowLock' = [rowLock EXCEPT ![worker[i].current] = None]
    /\ worker' = [worker EXCEPT ![i].at = "batch", ![i].current = None,
                                ![i].failed = @ \cup failed]

(* Mutant: a loan that was due when it was fetched is due still.           *)
TrustFetch(i) ==
    /\ worker[i].at = "locked"
    /\ worker' = [worker EXCEPT ![i].at = "checked"]
    /\ UNCHANGED <<loan, rowLock, lock, moves, faults>>

(* The row is looked at again under the lock.                              *)
Recheck(i) ==
    /\ worker[i].at = "locked"
    /\ IF loan[worker[i].current] = "due"
       THEN worker' = [worker EXCEPT ![i].at = "checked"] /\ UNCHANGED rowLock
       ELSE Release(i, {})
    /\ UNCHANGED <<loan, lock, moves, faults>>

MoveOn(i) ==
    /\ worker[i].at = "checked"
    /\ loan' = [loan EXCEPT ![worker[i].current] = "timed out"]
    /\ moves' = [moves EXCEPT ![worker[i].current] = @ + 1]
    /\ Release(i, {})
    /\ UNCHANGED <<lock, faults>>

(* An exception: the loan is left out of the rest of this run.             *)
TransactionFails(i) ==
    /\ faults < MaxFaults
    /\ worker[i].at \in {"locked", "checked"}
    /\ faults' = faults + 1
    /\ Release(i, {worker[i].current})
    /\ UNCHANGED <<loan, lock, moves>>

Crash(i) ==
    /\ faults < MaxFaults
    /\ worker[i].at # "stopped"
    /\ faults' = faults + 1
    /\ worker' = [worker EXCEPT ![i] = Stopped]
    /\ rowLock' = [l \in Loans |-> IF rowLock[l] = i THEN None ELSE rowLock[l]]
    /\ UNCHANGED <<loan, lock, moves>>

Restart(i) ==
    /\ worker[i].at = "stopped"
    /\ worker' = [worker EXCEPT ![i] = Waiting]
    /\ UNCHANGED <<loan, rowLock, lock, moves, faults>>

-----------------------------------------------------------------------------
RunStep(i) ==
    \/ FetchBatch(i)
    \/ \E l \in Loans : TakeNext(i, l)
    \/ BatchEnds(i)
    \/ Recheck(i)
    \/ MoveOn(i)

Next ==
    \/ \E l \in Loans : FallsDue(l) \/ HandlerLocks(l) \/ HandlerCommits(l) \/ HandlerAborts(l)
    \/ \E i \in Instances : AcquireDistributedLock(i) \/ RunStep(i) \/ TransactionFails(i)
                            \/ Crash(i) \/ Restart(i)
    \/ LockExpires

Spec == Init /\ [][Next]_vars

(* A run goes on; a handler's transaction ends; the key expires; of the    *)
(* processes that poll for it one gets it; a stopped process is restarted. *)
LiveSpec ==
    /\ Spec
    /\ \A i \in Instances : WF_vars(RunStep(i)) /\ WF_vars(Restart(i))
    /\ \A l \in Loans : WF_vars(HandlerCommits(l))
    /\ WF_vars(LockExpires)
    /\ WF_vars(\E i \in Instances : AcquireDistributedLock(i))

-----------------------------------------------------------------------------
(* Properties                                                              *)

(* However many runs overlap, no loan is moved on twice: each is looked at *)
(* again under the lock of its row.                                        *)
MovedOnce == \A l \in Loans : moves[l] <= 1

(* Who is about to write a loan holds its row, and what the worker has     *)
(* checked there still holds: no handler and no other run gets between.    *)
CheckedIsDue ==
    \A i \in Instances : worker[i].at = "checked" =>
        rowLock[worker[i].current] = i /\ loan[worker[i].current] = "due"

Promise == INSTANCE TimeoutPromise

(* The runs of all processes, with their crashes, failures and overlaps,   *)
(* do what is expected of one reliable worker: a loan somebody else moved  *)
(* on is left alone, one that is due is moved on in the end.               *)
ImplementsPromise == Promise!Spec

=============================================================================
