# EasyLend: formal models

TLA+ models of the EasyLend lending kiosk: what the backend promises about
assets, loans and lockers, checked with TLC on small instances and, for the
properties that matter most, proved with TLAPS for every size.

## The system

EasyLend lends devices from lockers. A user logs in at a kiosk, chooses an
asset, the backend reserves it and opens its locker, a camera box photographs
the locker once its door is closed, a vision service says what the photo shows,
and the backend moves the loan on. Returns go the same way into any free locker.

| Component | State | Operations | Talks to |
|---|---|---|---|
| Loan state machine (`core/state_machine.py`) | none; a table | `transition`, `apply_transition` | every writer of a loan |
| Loan endpoints (`loans.py`) | `loans`, `assets`, `lockers`, `users.locked_until` | checkout, return/initiate, report-damage | database rows under `FOR UPDATE NOWAIT`, kiosk connections after commit |
| Vision callback (`vision.py`) | the same rows, `ai_evaluations` | analyze (phase 1 unlocked, the vision service, phase 2 locked) | vision box in, vision service out |
| Quarantine administration (`admin.py`) | the same rows | judge an evaluation, list | admin dashboard |
| Equipment administration (`equipment.py`) | `assets`, `lockers`, `kiosks`, `categories` | create, patch, soft-delete, force-open | admin dashboard |
| Workers (`workers/`) | the same rows | time out reservations and returns, mark overdue | database, a Redis lock |
| Redis keys (`redis_utils.py`, `idempotency.py`, `rate_limit.py`) | keys with a TTL | acquire, release, count | every endpoint, every process |
| Kiosk connections (`websockets.py`, `ws.py`) | per-process socket table, presence keys, pub/sub | connect, disconnect, heartbeat, forward, send | vision boxes, endpoints in other processes |
| Sessions (`auth.py`, `db/redis.py`, `deps.py`) | refresh tokens, failed PIN count, `locked_until` | NFC and PIN login, refresh, logout | kiosk app |
| Users (`users.py`) | `users` | create, update, anonymise, NFC, export | admin dashboard |
| Audit chain (`core/audit.py`, `audit.py`) | `audit_logs` | append, verify | every writer |
| Vision service (`backend/vision`) | loaded models | predict, switch model | vision callback |
| Vision box (`vision-box/`) | command queue, upload queue, door state | open slot, photograph, upload | kiosk connections, vision callback |
| Kiosk app (`kiosk-app/`) | screen, polled loan status | log in, check out, return, poll | backend |

What is hard in it: handlers that read before they lock; a photo whose answer
takes half a minute and lands on whatever status the loan has by then; workers,
admins and users writing the same rows; verdicts on old evaluations; lockers
that are freed or blocked by one loan while another is using them; hardware
commands that are sent after the commit and may get lost; several backend
processes sharing presence and locks through Redis keys that expire.


What makes each component correct, and where it is stated:

| Component | Correct when | Stated as |
|---|---|---|
| Lending core (state machine, loans, vision callback, admin, equipment) | one loan holds an asset at a time; what can be borrowed is free; an asset that is out is in no locker; nothing leaves or comes back unseen; settled loans stay settled; reservations and returns end | `OneHolder`, `BorrowableMeansFree`, `OnLoanOutOfLocker`, `EvidenceKept`, `SettledStaysSettled`, `ImplementsCustody`, `WaitingEnds` |
| Workers | however the processes overlap, fail and die, a loan whose time is up is moved on once, and in the end | `MovedOnce`, `CheckedIsDue`, `ImplementsPromise` |
| Kiosk connections | one live socket per kiosk in a process; its tables agree; a subscriber is a connection; a command is delivered to one socket; reconnecting ends; dead sockets go | `SingleConnection`, `TablesAgree`, `SubscriberIsConnected`, `DeliveredOnce`, `ConnectEnds`, `DeadSocketsEvicted` |
| Vision box | a queued photo has its image and survives until it is accepted; nothing blocks the queue but a photo its loan does not wait for | `EntryHasImage`, `QueuedUntilAccepted`, `QueueDrains` |
| Redis keys around a request | a retried request takes effect once; a key or counter that nobody will clear is the work of a fault | `EffectOnce`, `NothingStranded` |
| Sessions and users | a session never has two refresh tokens; an account barred all along gets no new one | `OneTokenPerSession`, `RefreshedWhileWelcome` |
| Audit chain | what was lost or edited under a later record is noticed; no false alarm; the batch size does not matter | `DamageIsNoticed`, `NoFalseAlarm`, `BatchesAgree` |
| Vision service | the path of the weights is never empty; an accepted deployment is installed and served, a failed one rolled back; the processes come back | `WeightsStay`, `AcceptedIsInstalled`, `AcceptedIsServed`, `FailedIsRolledBack`, `ServiceReturns` |

## Modules

| Module | What it is | Composed with |
|---|---|---|
| `LoanStateMachine` | the transition table of `core/state_machine.py`, as constant operators | extended by `LendingService` |
| `LendingService` | the transactions on loans, assets, lockers and suspensions | implements `AssetCustody` |
| `AssetCustody` | abstract: who has an asset | instantiated by `LendingService` with a refinement mapping |
| `LendingServiceProofs` | theorems about `LendingService` | extends it |
| `KioskConnections` | the connection manager and the endpoint around it | - |
| `KioskConnectionsProofs` | theorems about `KioskConnections` | extends it |
| `VisionBox` | the client on the Raspberry Pi | - |
| `VisionBoxProofs` | theorems about `VisionBox` | extends it |
| `Workers` | the loop of the two workers in every process, and the Redis lock between them | implements `TimeoutPromise` |
| `TimeoutPromise` | abstract: what the lending core expects of the workers | instantiated by `Workers` |
| `WorkersProofs` | theorems about `Workers` | extends it |
| `Requests` | the rate limit and the idempotency key around a request | - |
| `RequestsProofs` | theorems about `Requests` | extends it |
| `Sessions` | logins, refreshes, administration and the token whitelist of one account | - |
| `SessionsProofs` | theorems about `Sessions` | extends it |
| `AuditChain` | the hash chain: appending and verifying | - |
| `AuditChainProofs` | theorems about `AuditChain` | extends it |
| `VisionModels` | how the vision service takes, installs, loads and rolls back weights | - |
| `VisionModelsProofs` | theorems about `VisionModels` | extends it |
| `MC...` | constants for TLC | extend the module they are named for |

The lines each definition stands for are in the `map` of `PROJECT.json`.

### LendingService

*State.* `loans`, `assets`, `lockers` and `evaluations` are the tables, cut down
to the columns that decide something. `lastReturned` stands for the query that
finds the previous borrower by `returned_at`. `suspended` is "`locked_until` is
in the future". Time stamps become three facts per loan: `stale` (past the
timeout worker's cut-off), `due` (past the due date), both with whether a run of
the worker has fetched the loan since, and `late` (past the grace period, which
starts anew whenever `borrowed_at` is set: at pick-up and when a verdict hands the
item back).

*History.* `declared` and `placed` are the model's own: the assets that an admin's
`PATCH` made AVAILABLE, or put into a locker, while a loan held them. An asset
leaves them once no loan holds it any more. The properties that such a `PATCH`
overrules leave these assets out for exactly as long, and nothing else.

*Steps.* One action is one database transaction. Every writer takes `FOR UPDATE`
locks before it looks and keeps them to its commit, so what happens under the
locks is atomic. What is read *before* the lock - the quota, the loan behind a
barcode, phase 1 of a vision evaluation - is an action of its own
(`CheckoutBegin`, `ReturnBegin`, `VisionBegin`) that leaves a record in
`inflight`; the commit acts on that record and on the tables as they are by
then. The workers are split the same way: the batch query, which alone leaves out
deleted assets, is `FetchTimedOut` or `FetchOverdue`, and the transaction on a fetched
loan tests its status and date again (`TimeoutReserved`, `TimeoutReturning`,
`MarkOverdue`) or comes to nothing (`SkipTimedOut`, `SkipOverdue`).
`RequestAborts` covers every way to stop before the commit: `NOWAIT`
conflicts, illegal transitions, exceptions, a crash of the process. A crash
needs nothing more, because the tables change only in commits.

*The vision service* is a choice between the five outcomes of
phase 2 (`VisionFailed`, `CheckoutConfirmed`, `CheckoutFraud`,
`ReturnQuarantined`, `ReturnConfirmed`), each applied to the status the loan has
when the lock is taken, with the legality test of `transition()`.

*Inputs.* Users, assets, loans and kiosks are any. What an admin may write by
hand is a constant (`AssetPatches`, `LockerPatches`, `Relocations`), to keep the
instances small; the theorems hold for any values of them, every status and every
locker included. `SKIP LOCKED` may pass over any free locker,
so a return takes any of them. Whether a kiosk looks online is left open: a
handler that refuses takes no step.

*Bounds.* `Loans` bounds the rows that can be inserted, `Handlers` the requests
between their unlocked reads and their commit.

### AssetCustody

The promise: `Take` an asset nobody holds, for a loan that never held one;
`Release` it for good. An admin may `Declare` an asset free although a loan holds it;
it is then off the books until its loans are settled (`Settle`), and nobody takes it
from the books' point of view. `ImplementsCustody` maps `custody` of an asset to the
loans in a holding status (none while it is in `declared`), `released` to the settled
loans and `offBooks` to `declared`.

### KioskConnections

Python's event loop runs a coroutine alone from one `await` to the next, so an
action is what lies between two awaits. Three coroutines touch the entries of a
kiosk: the handler of a socket (`connect`, the receive loop, `disconnect`), its
command forwarder, and the handler of the socket that replaces it. A *seat* is a
process and a kiosk, because each process has its own tables; the lock is per
kiosk and per process. `_disconnect_unlocked` is run by whoever holds the lock,
in up to four steps (`dropping`): close the socket, see whether it still is the
registered one, clear the tables and cancel the tasks, unsubscribe. The
cancellation of a forwarder also takes one out of the queue for the lock.
Commands go through Redis: `SendCommand` reaches every live subscription of the
kiosk and reports success when there is one.

Left out: the presence key and the heartbeat task that refreshes it (same life
as the forwarder; to its readers presence may be wrong either way). `asyncio.Lock`
is FIFO; here any waiter may be next, which allows more. Each socket is used
once, so a run stops when all are gone: deadlock is not checked.

### VisionBox

Threads share `transaction_context` without a lock, so each read or write of one
of its fields is a step; so is each operation on a queue file. `open_slot` writes
`loan_id`, then `evaluation_type`, then `active`; the door's callback tests and
clears `active`; a photo's thread focuses, reads the two labels, uploads and,
failing that, writes the `.jpg`, then creates and fills the `.json`. The queue
worker goes through the entries it listed in any order and ends its round at the
first failure. `Crash` loses the memory and keeps the files and the door. An
upload may be accepted although the box never learns of it: after ten seconds it
gives up and sends the photo again later.

The backend takes a photo only while its loan waits for one of that type
(`vision.py:192-203`), so it takes at most one per label, and none after
`LoanMovesOn` (the timeout worker was faster, or the asset is gone). `over` is the
set of labels for which the answer is 409 from now on. An entry with such a label
never leaves the queue, one with the mixed labels of two commands
(`AsCommanded` is false) may not either, and it ends every round of the worker that comes to it
(`Blocked`): see observation 28. Commands and photos are finite, so deadlock is not
checked.

The box reads the field `command` of a message, while the backend puts the same
word under `action`, and the box's `WSS_URL` has no kiosk id: read literally the
two do not talk to each other. Each side is modelled from its own code.

### Workers and TimeoutPromise

Both workers have the same loop, so one module stands for either: `due` is a loan
past the cut-off of the one or past the due date of the other. Each process
waits, takes the Redis lock (`AcquireDistributedLock`), fetches batches of ids
(`FetchBatch`) and gives each id a transaction of its own: `TakeNext` locks the
row or skips it, `Recheck` looks at it again, `MoveOn` writes and commits. The
lock has no owner and no release; `LockExpires` may come in the middle of a run,
and then two runs overlap. Handlers of users hold rows as well. `TransactionFails`
puts the id aside for the rest of the run; `Crash` loses a process with its row
locks and keeps the Redis lock.

`TimeoutPromise` is one reliable worker: a due loan is timed out once, or settled
by somebody else. `LendingService` takes that for granted of `TimeoutReserved`
and `TimeoutReturning`, so the refinement `ImplementsPromise` is the seam between
the two modules.

### Requests

An attempt is one HTTP request with an idempotency key: counted by the rate
limiter (two Redis calls, `CheckTokenRateLimit` and `SetWindow`), claimed by
`GuardIdempotency`, then the handler - a preflight for a return, then a refusal
(`Refused`), a `Commit` or a commit that raises (`CommitFails`) - and at the end a
command (`SendCommand`, `CommandLost`) or the release of the key. Attempts with
one key are a request and its retries. Every Redis call may raise, before or after
it took effect; processes may die. What the transaction does is the business of
`LendingService`: one action here is one of its commits.

`stranded` is bookkeeping: the keys and counters a fault has left behind. `unclear`
counts the commits that raised although they were made, which no handler can tell
from a failure.

### Sessions

One account: its row, who holds `FOR UPDATE` on it, and the refresh tokens in
Redis. Sessions are numbered; a token belongs to the session whose login or
refresh made it. A login is read (`GetActiveUserByNfc`), lock (`LockUser`), decision
and commit (`WrongPin`, `RightPin`), store (`StoreFirst`); a refresh is consume
(`ConsumeToken`), read (`FetchUser`), store (`StoreNext`); an admin edits
(`GetUser`, `UpdateUser`) or anonymises (`LockForAnonymize`, `AnonymizeUser`, then
the scan that revokes, key by key).

SQLAlchemy's identity map decides much here. The locking `SELECT` of `pin_login`
answers with the object of the unlocked read, unrefreshed, so the checks after it
see the old values; and a commit writes only the columns that differ from what
was loaded. `login[l].loaded` and `Edited` are that.

Left out: other accounts and with them the uniqueness of NFC tags and e-mails,
roles, the check for open loans in `anonymize_user` (`AnonymizeRefused` may happen at
will). Of the values an admin may give `failed_login_attempts` and `locked_until`,
the model has "reset both" and "leave both".

### AuditChain

A transaction reads the head of the log without a lock (`LogAuditEvent`), flushes a
row (`Flush`: this is when `created_at` is taken) and commits later. A hash is the
sequence of all the events that went into it, so two are equal exactly when their
inputs are. `Altered`, `Rewritten` and `Lost` damage the table behind the program's back.
The verification is two queries, `VerifyBatch` for the rows and `VerifyAnswer` for the row
before them. `forked` is set when a transaction commits behind rows it had not seen;
`written` remembers what each row was added to, and with it
`DamageIsNoticed` can say which events must still stand before it. It asks that the
log verified when the row was added: an altered table may be built on and then
altered back, and what the row was built on was never the log's story.

### VisionModels

Files are inodes: a rename moves a name, a writer goes on writing to its inode.
That is what decides what two processes and the threads of one see of each other.
A deployment is a pull (`UpdateModel`: backup, fetch, replace, remove the export,
and on any error restore) or an upload (`UploadModel`), for one kind of model or
both. A process exits after an accepted deployment and gunicorn starts another,
which exports the weights and loads them. `calm` marks a deployment that met
nothing else - no other request, no crash, no error outside it: those are the ones
the promises of the endpoint are about.

### The seams

Each module takes its neighbours' whole range as its environment.

* `VisionBox!Accepts` is a photo that passes the status test of
  `LendingService!VisionBegin`; `VisionBox!LoanMovesOn` is any action there that takes
  the loan out of the status. `LendingService` allows any number of photos of either
  type whenever the test passes, and so has the races between two of them.
* `KioskConnections!SendCommand` is sent after the commits of `CheckoutCommit` and
  `ReturnCommit`; losing it loses a photo, which `LendingService` treats as time
  passing. `VisionBox!OpenSlotLoan` is what `Forward` delivers, with any delay.
* `Requests!Commit` and `Requests!Refused` are the two ends of `LendingService`'s
  handlers; a retry that gets through is one more handler there.
* `Workers` shows of the workers what `LendingService` assumes of them.
* `Sessions!Suspended` is a transition of `LendingService` that suspends the user;
  the other way round `suspended` keeps a user from checking out.
* `AuditChain!LogAuditEvent` happens in every committing action of the other modules.

## Runs

Passing runs:

| Run | Instance | Distinct states | Shows |
|---|---|---|---|
| `lending` | 1 user, 1 asset, 2 lockers, 2 loan rows, 2 handlers, limit 3, admin writes AVAILABLE to the asset | 509,592 | the safety of the lending core and that it implements `AssetCustody` |
| `lending_live` | 1 user, 1 asset, 2 lockers, 2 loan rows of which one is out with a due date, 2 handlers, admin relocates the asset and writes AVAILABLE to lockers | 248,201 | reservations and returns end; the overdue worker runs; relocations and `OnLoanOutOfLocker` |
| `connections` | one process, 2 kiosks, 2 sockets of one box and 1 of the other, 2 connections at most, 1 command | 60,656 | the connection manager |
| `vision_box` | 2 commands for different loans and types, 2 photos, 1 crash, the loans may move on at any time | 743,297 | the photo queue |
| `vision_models` | 2 processes, 2 deployments (both models alone, two pulls, two uploads), 1 crash, any call may fail | 452,906 | the exchange of weights |
| `audit_chain` | 2 transactions, 3 rows, 2 payloads, 1 damage, batches of every size | 466,004 | the hash chain |
| `workers` | 2 processes, 2 loans in a batch of 2, 2 faults | 73,222 | the loops keep the promise of one worker |
| `requests` | 4 attempts at a checkout, a report, a return and a force-open, 2 per window, 2 faults | 1,350,679 | retries take effect once |
| `sessions` | 2 logins, 2 refreshes, 1 admin, 1 session of 3 tokens, lockout at 2, 1 fault | 698,494 | the account and its tokens |

Why that is enough to be interesting:

* `lending`: two loan rows for one asset are what a double assignment needs, and
  two handlers what it takes to hold an old photo or a stale checkout while
  another request commits. One user is enough: the limit of three lets both rows be
  his, and nothing under the locks of a checkout asks who is there (`stranded_loan` has
  two users, the theorems any number). Two lockers let a return end elsewhere than it
  began.
  Loan rows and handlers are interchangeable in every definition and property of
  the run, so the symmetry over them is sound; the run has no liveness property.
  Of the statuses an admin may write, AVAILABLE is the one that gives an asset away
  and the one `declared` is about; the theorems have the others, and the relocations
  and locker patches that `lending_live` has.
* `lending_live` has no symmetry, a seeded loan because nothing in the API ever writes
  `due_date`, and with two handlers a photo can be under way when the worker comes. It
  has the patches that `lending` lacks.
* `connections`: three sockets at two seats are the fewest with both a
  replacement and a refusal at the limit. One command tells delivered twice from
  delivered once.
* `vision_box`: two commands so that one session can overwrite another's labels,
  two photos so that one entry can stand in another's way in the queue, one crash
  at any step. Two photos of one label come with the overwritten context.
* `vision_models`: one pull of both kinds shows how the first kind fares when the
  second fails; two requests for one kind are what overlapping takes. No symmetry:
  the run has liveness properties.
* `audit_chain`: three rows are the fewest with a row in the middle to lose;
  writers and payloads are interchangeable and no property is temporal.
  One damage fits the run, since with two it takes over four million states (with a
  single transaction 105,899, and the four invariants hold there as well). What a
  second damage can do, and any further one, is the theorem's (`TamperingShows`).
* `workers`: one loan that fails or is locked and one that is not; two processes
  for the overlap; two faults so that a crash and a failure can meet. No symmetry.
* `requests`: all four endpoints with a key, in their own order of calls. An attempt
  is at any of them: three with one key see a release, a retry and a second retry, and
  the fourth stands at the limit. Only the attempts are interchangeable.
* `sessions`: two of each request are what a race takes, three tokens a session
  that is refreshed twice. One session is enough for what the code can do to one,
  since no definition but the numbering relates two; the theorems cover any number.

Violated runs. Each asks one thing that a document or a comment says of the
program, and TLC shows how the code does otherwise:

* `stranded_loan`: checkout with evaluation; the return's photo cannot be
  analysed; the admin has only the CHECKOUT evaluation to judge and rejects it;
  the loan is ACTIVE again with its return locker still set, and the locking
  `SELECT` of `return_initiate` will never find it.
* `wrong_photo` (no crash needed): the next command overwrites the labels before
  the photo of the last session has been uploaded.
* `audit_fork`: two transactions read the same head before either commits; the
  verification then reports an undamaged log as tampered with.

### Fairness

`LendingService`: the timeout worker wakes every minute and fetches timed-out
loans again until none is left (`WF` of `FetchTimedOut`). A fetched loan may be locked
by a handler or fail and be skipped, but one that is fetched again and again is not
skipped each time (`SF` of `TimeoutReserved`, `TimeoutReturning`; `Workers` shows it of
the loop). Time passes (`WF` of `DeadlinePasses`). Photos, users and admins owe nothing.

`Workers`: a run goes on and a stopped process is started again by its supervisor
(`WF` of `RunStep`, `Restart`, per process); a handler's transaction ends
(`WF` of `HandlerCommits`, which is not required once it has aborted); the key
expires; and of all processes that poll for the lock *some* one gets it - none is
promised a turn. Faults are bounded: a loan that fails for ever stays due.

`KioskConnections`: the event loop runs every coroutine that can go on, calls
return or fail, and a socket that the server has closed wakes its handler
(`WF` of the continuations). No box has to connect or hang up, no call has to
fail, no command to be sent.

`VisionBox`: the worker's loop never ends and its requests time out (`WF` of
`QueueWorker`), and a photo that is tried over and over while its loan waits for it is
tried at a time when the network is up (`SF` of `WorkerUploads`, for the labels of one
command, and enabled only as long as they are not in `over`). A photo whose loan has
moved on is refused for ever and ends every round that comes to it, and no loan need
ever wait for one with mixed labels: `QueueDrains` says that an entry goes unless one
like that is, then or later, in the queue.

`VisionModels`: threads and processes run, a scheduled exit happens, gunicorn
starts what is missing (`WF` of `RequestStep`, `Restart`, `WorkerStep`). Requests need
not arrive, nothing needs to fail.

`Requests`, `Sessions` and `AuditChain` have no liveness property: a client need
not retry, and what a request leaves behind ends by a TTL.

## Proofs

All theorems hold for any values of the constants under the module's named
assumption (`CoreConstants`, `ConnectionConstants`, `BoxConstants`,
`WorkerConstants`, `RequestConstants`, `SessionConstants`, `AuditConstants`,
`ModelConstants`), which TLC evaluates in the module's run.

`LendingServiceProofs`:

* `TypeCorrect`: `[]TypeOK`. Not inductive alone: a step that writes
  `assets[loans[l].asset]` needs to know that an inserted row has an asset, and
  `report-damage` that the loan last returned is an inserted row. The inductive
  invariant is `Typed == TypeOK /\ RowsFilled /\ ReturnedInserted`. It is proved
  once for all edges of the table (`TransitionTyped`), because photos, reports,
  verdicts and timeouts are all such edges (`MovesAreTransitions`), and `StepCases`
  splits `Next` into those, checkout, return and bookkeeping.
* `SingleCustody` and `FreeToBorrow`: `[]OneHolder`, `[]BorrowableMeansFree`. Each
  needs the other: a checkout keeps `OneHolder` because what is AVAILABLE is free, and only
  because there is one holder does the transition that makes an asset AVAILABLE
  leave it free. An admin may write AVAILABLE to an asset a loan holds
  (`PATCH /assets` asks for no loan; it is also the way back from MAINTENANCE): from
  there on the two say nothing of that asset, and they must be true again the moment
  it leaves `declared`. That is because no loan holds it then (`HistoryLapses`). So
  `CustodyInv == Typed /\ OneHolder /\ BorrowableMeansFree /\ DeclaredHeld`.
* `CustodyRefinement`: the core implements `AssetCustody`. Under `CustodyInv` each
  step is a `Take` (`CheckoutTakes`), a `Release` (`SettlingReleases`), a `Declare`
  (`PatchImplements`), a `Settle` (`SettlingOffBooks`) or a stutter (`CustodyStutters`).
* `SettledForGood`: the action property, from a lemma about what any step can do to a
  loan row (`StepsAreLoanSteps`).
* `NothingUnseen`: `[]EvidenceKept`. A verdict or a late photo completes a loan out of
  quarantine, where its status no longer tells what has been seen of it; so
  `EvidenceInv` adds that a loan with a return locker or a RETURN photo has a CHECKOUT
  photo. What makes it inductive is in `MoveEffect`: which photo each edge of the
  table that reaches ACTIVE or COMPLETED takes for granted, or records itself.
* `OutOfLocker`: `[]OnLoanOutOfLocker`. Two loans of one asset write the same
  `locker_id`; `LockerInv == CustodyInv /\ OnLoanOutOfLocker` is inductive because by
  `OneHolder` the other loan has let go, and all it can still become is disputed,
  which leaves the asset's locker alone. An asset an admin has declared free or has put
  into a locker is left out while its loan runs.

All of them allow every status and every locker an admin may write; none restricts the
constants beyond `CoreConstants`.

`KioskConnectionsProofs`: `IInv == TypeOK /\ (\A z \in Seats : SeatInv(z)) /\
SubscriptionInv /\ TrafficInv`, and `SeatInv == HolderInv /\ DropInv /\ TableInv`.

* An action touches one kiosk in one process. The others keep `SeatInv` by a frame
  lemma, and the proof of each action is about its own seat.
* `OneOpenSocket`, `TablesMatch`: the lock is held across awaits, so the tables differ
  most of the time. `HolderInv` ties the lock to the step its holder is at, `DropInv`
  says whose socket is being dropped and that it was closed first, and `TableInv` what
  the tables hold at each of these steps (`Agree`, `Between`).
* `NoStraySubscription`: a subscription is in `_pubsubs` from the moment Redis counts it
  until Redis has forgotten it (`SubscriptionInv`).
* `CommandsNotDoubled`: what a socket has been handed or has still in its inbox is in
  no other socket's of the kiosk (`TrafficInv`), since at publishing there is one
  subscriber.

`VisionBoxProofs`: `IInv == TypeOK /\ LabelInv /\ FileInv /\ WorkerInv /\
QueuedUntilAccepted`.

* `TypeCorrect` is more than types: `accepted` holds photos with both labels. That needs
  `LabelInv`, which follows the labels from the command to the thread of the photo.
* `NoOrphans`: `FileInv` says at which step of a photo's thread which of its two files
  is there, whole or in part.
* `QueuedNotLost`: the worker removes the files of an entry it has seen accepted
  (`WorkerInv`), and no thread is still writing to one the worker is at (`FileInv`).

`WorkersProofs`: `IInv == TypeOK /\ RowInv /\ UserInv /\ CheckedIsDue /\ MovesInv`.

* `CheckHolds` is the heart: what a worker has checked still holds when it writes.
  It needs `RowInv` (the current loan of a process is the row it has locked, and
  the other way round) so that nobody else can be at that row.
* `MovedAtMostOnce` follows by `MovesInv`: a loan that has been moved is no longer
  due, and no step makes it due again - for handlers because of `UserInv`.
* `PromiseIsSafe`: every step is one of `TimeoutPromise` or a stutter; `MoveOn` is
  its `TimeOut` because of `CheckedIsDue`. The fairness half of the refinement is
  TLC's.

`RequestsProofs`: `IInv == TypeOK /\ WindowInv /\ HolderInv /\ EffectInv /\ EffectOnce`.

* `RetriesAreHarmless`: `EffectInv` says what has happened under a key that does not
  exist, or whose holder has not committed: nothing certain. That is inductive only
  because one attempt at most holds a key and the key exists as long as it does
  (`HolderInv`).
* `StrandedByFailure`: each action that ends an attempt either removes its key,
  leaves a record, or adds the key to `stranded`; for the counter `WindowInv` says
  that one attempt at most is about to set its end.

`SessionsProofs`: `IInv == TypeOK /\ TokenInv /\ WelcomeInv`, where

* `TypeOK` includes that the row's holder is the request that thinks it holds it;
  without it `CommitLogin` could give up somebody else's lock.
* `SessionsDoNotSplit`: `TokenInv` adds that a session with a token or a refresh has
  begun, so that a new session cannot take its number.
* `NoTokenForTheBarred`: `WelcomeInv` adds that nobody is `barred` while the account
  is welcome.

`AuditChainProofs`: `IInv == TypeOK /\ StampInv /\ BuiltInv /\ CountInv /\ BatchInv /\
ChainInv`. None of it is an induction over the log: `Ordered` is a `CHOOSE`, so its
existence is shown from the log being finite and what it orders is unique, and where
a walk has to be followed to its end, the first place where it goes wrong is taken
(`Least`).

* `TypeCorrect`: the head a new row names is a hash only if exactly one row is last,
  which is what the clock is for (`StampInv`).
* `OnlyDueAlarms`: `ChainInv` says that an undamaged, unforked log is a chain, and that a
  transaction nobody has overtaken sees all of it; `known` tells whether anybody has.
  `BatchInv` says that what the first query read still stands in its place when the
  second is made: rows are appended behind it (`OrderAppends`).
* `SameInBatches`: a row is looked at in exactly one batch, and compared with the same
  predecessor there (`BatchesWhole`, `Predecessors`). No state is excluded.
* `TamperingShows`: `BuiltInv` keeps of each row the log it was built on. A valid log's
  head is the sequence of its events (`HeadTells`), so a row that still names that
  head has the same events before it. It holds with forks and any number of damages.

`VisionModelsProofs`: `TypeOK` is inductive because it carries what the calls on files
rely on. For the two promises of a deployment, `IInv == TypeOK /\ FreshInv /\ KindInv
/\ \A d : CalmInv(d)`.

* `TypeCorrect`: a copy or a download knows the inode it writes to; only a kind that
  has weights has a `.backup`; a copy to or from `.backup` finds one there. The last
  two lean on each other: `BeginRestore` truncates what `<kind>.pt` names, which
  exists because a backup does.
* `WeightsNeverGone`: `Replace` alone changes what the path names, and to a temporary
  file that is there.
* `InstalledWhole`, `RolledBack`: `CalmInv` follows a deployment that nothing disturbs
  through its steps (`Phase`: what is untouched, fetched, saved, being copied, done)
  and, once accepted, through the export of the restarted process (`Served`).
  `FreshInv` is about all requests, calm or not: the inode a request is going to make
  is nobody's yet, and no temporary file is what `<kind>.pt` names. Without it a calm
  deployment could write into weights it has not reached.

Only model-checked are the liveness properties - `WaitingEnds`, `ConnectEnds`,
`DeadSocketsEvicted`, `QueueDrains`, `AcceptedIsServed`, `ServiceReturns` - and the
fairness half of `ImplementsPromise`: liveness under fairness is out of this
prover's reach. Every invariant and every action property of the passing runs is a theorem.

## Observations without a run

Where the code and its documents, or the code and what one would expect of it,
part ways, and no run is spent on it because the code shows it in one or two steps.

1. No endpoint writes `due_date`, so only seeded rows ever become OVERDUE.
2. *Quota.* Both checkouts of one user count the open loans before either inserts
   (`loans.py:254`), so two at a time exceed the limit.
3. *Return at the quota.* `return_initiate` repeats the quota test of checkout
   (`loans.py:798`) and counts the loan that is to be returned; at the limit the
   owner gets a 403 that is documented for strangers (`loans.py:736`).
4. *Locker statuses.* A verdict writes the checkout locker of its loan
   (`admin.py:275`) long after that locker was given to another return; and
   `return_initiate` (`loans.py:884`) takes any AVAILABLE locker, which after
   `POST /assets` or such a verdict may be full or reserved.
5. *Late photo.* A photo is with the vision service when its return times out; the
   answer completes the quarantined loan (`vision.py:332`).
6. *Deleted asset.* Soft deletion looks for ACTIVE and RESERVED loans only
   (`docs/database/01_schema.md:146`). An asset deleted while it is being returned
   drops out of the worker's query, and its loan is RETURNING for good.
   `WaitingEnds` sets that case aside.
7. A checkout fraud leaves its asset AVAILABLE and its locker OCCUPIED, as
   `transition()` has it, while `docs/hardware/02_quarantine_flow.md:17-19` gives a
   FRAUD_SUSPECTED loan an asset in PENDING_INSPECTION and a locker in MAINTENANCE.
8. A loan quarantined without an evaluation, by a failed photo or a timeout, has
   nothing an admin could judge (`docs/hardware/02_quarantine_flow.md:23`).
9. The quarantine listing (`admin.py:92-98`) filters on `Asset.is_deleted` without
   joining `Asset` to the loans, so it asks of any asset, not of the loan's.

Workers:

10. "Only one instance of the worker runs per interval" (`overdue_worker.py:89`,
    `:147`) does not hold: nothing bounds a run by the lock's time to live. By
    `MovedAtMostOnce` it does no harm.

Connections and box:

11. The cap on connections (`websockets.py:211-212`) is read before the lock and the
    subscription: boxes that connect at once pass it together, and a box at the cap
    cannot replace its own dead connection.
12. `slot_closed` is logged by `ws.py` and triggers nothing, while
    `docs/api/03_websockets.md` has it start the wait for a photo.
13. The admin's force-open (`equipment.py:562`) sends no `loan_id`, which
    `vision_box.py` takes for granted. The box reads `command` where the backend
    sends `action`, and its `WSS_URL` has no kiosk id.

Redis keys:

14. A return to an offline kiosk keeps its key (`loans.py:775-779`, outside the
    `try`), so the retry that `idempotency.py:57-62` promises gets a 409 for a day.
15. INCR executed and EXPIRE lost (`rate_limit.py:54-56`) leaves a counter without
    an end: after the limit the user is refused for good, although the limiter is
    said to fail open. The guard's 503 may likewise have set the key.
16. A commit that raises although it was made releases the key; the retry makes a
    second record. `unclear` counts them, and only them.
17. The last `except` of `force_open_locker` (`equipment.py:580-587`) releases the key
    after the commit as well. Nothing behind the commit raises today.

Sessions and users:

18. `auth.py:179-181` locks the row "to serialize all login attempts", but the object
    it then looks at is the one of the unlocked read: increments get lost and a
    lockout just set can be wiped by a login that began before. No invariant of
    the counter is left, so none is stated.
19. A logout while a refresh of the same session is under way finds no token to
    revoke and answers 200; the refresh then stores a new one (`auth.py:369`).
20. `anonymize_user` looks for open loans (`users.py:401`) and a checkout may be
    between its login check and its insert: no lock covers both.
21. Tokens stored while the whitelist is scanned survive the scan. They are of no
    use: the account is no longer welcome.
22. `update_user` accepts an anonymised account, gives it a status and a badge again
    and revokes no session.
23. The retries of `anonymize_user` (`users.py:449-459`) cannot succeed: the rollback
    expires `current_admin`, whose id the next attempt reads outside of a query
    (`users.py:435`), and that raises. `update_user_nfc`
    flushes in `log_audit_event`, before its `try` (`users.py:499-511`), so a
    duplicate tag that slips by the check is a 500.

Audit chain:

24. Rows lost from the end of the log, or rewritten there together with their hash,
    cannot be noticed by the chain; and an alteration that is taken back leaves no
    trace, even if rows were added while it stood, since they name a hash that was
    not altered. `DamageIsNoticed` says what is left, forks included.

Vision service:

25. "The Vision service automatically clears old OpenVINO exports and restarts to load
    the new weights" (`docs/hardware/01_vision_integration.md:44`): only the gunicorn
    process that ran the update exits. The other one serves its old model on.
26. `deploy_models.py` calls `/api/v1/vision/update-model` and sends `detection_url`;
    the backend mounts `/api/v1/update-model` (`vision.py:656`) and reads
    `object_detection_url`.
27. A download cut short is accepted as it is. A backup whose copy failed is logged,
    and a later rollback restores the older or torn one. When the second of two
    models fails, the first stays installed and no restart is scheduled. An export
    interrupted by a crash leaves a directory that the next process takes for
    complete; one that races an update exports the other weights.

An admin's word and a lost answer:

28. The backend takes a photo only while its loan is RESERVED or RETURNING
    (`vision.py:192-203`); afterwards the answer is 409 for ever. A photo that was
    accepted but whose answer the box did not get within its ten seconds goes to the
    queue all the same, as does one the timeout worker was faster than. The queue
    worker ends every round at such an entry (`vision_box.py:224`) and removes none, so
    what is listed behind it waits until somebody deletes the file. `QueueDrains` says
    that nothing else blocks the queue, a photo with overwritten labels apart.
29. `PATCH /assets` writes AVAILABLE without a look at the loans of the asset
    (`equipment.py:872-985`). Meant as the way back from MAINTENANCE, it lets a second
    user borrow an asset whose loan is still running, and `locker_id` in the same
    request puts an asset that is out into a locker. `declared` and `placed` mark these
    assets, and `OneHolder`, `BorrowableMeansFree`, `OnLoanOutOfLocker` hold of all others.

## Not modelled

* Inference, the kiosk app's screens, LEDs, the brightness test of a frame, the
  reconnect timer of the box: no protocol, or no state that others read.
* The presence key of a kiosk and its heartbeat: their readers take presence as it
  comes, right or wrong.
* Creation of assets, lockers, kiosks, categories and users: it is the initial state.
* The export of a user's data, listings and status polls: they change nothing.
* The proxies of `vision.py` (656-767) to the vision service's model endpoints: they
  change nothing in the backend, and may time out while `VisionModels` goes on.
* Resends of a command by the Redis client itself.
* The simulation, configuration, schemas and scripts: wiring. The seed script was
  read for the initial states.

## Plan

1. `KioskPath`: command, box, photo and analysis in one composition, over the seams
   above, with the theorem that it implements what each part takes of its neighbours.
2. A second account in `Sessions`, for NFC tags that move between users.
