----------------------------- MODULE AuditChain -----------------------------
(***************************************************************************)
(* core/audit.py and endpoints/audit.py: the hash chain over audit_logs.   *)
(*                                                                         *)
(* A transaction reads the last row without a lock, adds a row that names  *)
(* its hash, and commits some time later; created_at is taken when the row *)
(* is flushed.  Others do the same meanwhile.  The verification reads a    *)
(* batch of rows in one query and the row before the batch in another.     *)
(* Rows may be altered or lost behind the program's back, which is what    *)
(* the chain is there to show.                                             *)
(*                                                                         *)
(* SHA-256 is injective here: a hash is the sequence of all the events     *)
(* that went into it, the empty one for the hash a log starts with.        *)
(* The clock orders all flushes, so audit_id never has to.                 *)
(***************************************************************************)
EXTENDS Naturals, FiniteSets, Sequences

CONSTANTS
    Writers,   \* transactions that log events
    Payloads,  \* action types with their payloads
    MaxRows,   \* bound on the rows ever flushed
    MaxDamage, \* bound on the rows altered or lost
    None       \* Python's None

Hashes == Seq(Payloads)
Events == [previous: Hashes, payload: Payloads]
Rows == [at: 1..MaxRows, previous: Hashes, payload: Payloads, current: Hashes]
Entries == [row: Rows, before: SUBSET Rows]

ASSUME AuditConstants ==
    /\ MaxRows \in Nat
    /\ MaxDamage \in Nat
    /\ None \notin Hashes
    /\ None \notin Events

VARIABLES
    rows,    \* committed rows of audit_logs
    tx,      \* per transaction: the row it is about to write, those it has flushed
    clock,
    verify,  \* a verification between its two queries
    written, \* every row as it was committed, with the log it was added to
    forked,  \* some row was committed behind one its transaction had not seen
    damage,  \* how often rows were altered or lost
    alarmed  \* some verification has said is_valid = False

vars == <<rows, tx, clock, verify, written, forked, damage, alarmed>>

Genesis == <<>>

Hash(previous, payload) == Append(previous, payload)

(* The rows in the order of created_at.                                    *)
Ordered(log) ==
    CHOOSE s \in [1..Cardinality(log) -> log] :
        /\ \A r \in log : \E i \in DOMAIN s : s[i] = r
        /\ \A i, j \in DOMAIN s : i < j => s[i].at < s[j].at

LastOf(log) == CHOOSE r \in log : \A s \in log : s.at <= r.at

(* Mutant: the first row of the log has nothing to name.                   *)
HeadOrNone(log) == IF log = {} THEN None ELSE LastOf(log).current

HeadOf(log) == IF log = {} THEN Genesis ELSE LastOf(log).current

Idle == [adding |-> None, seen |-> {}, known |-> 0, flushed |-> {}]

NoVerification == [skip |-> 0, batch |-> <<>>]

TypeOK ==
    /\ rows \subseteq Rows
    /\ tx \in [Writers -> [adding: Events \cup {None}, seen: SUBSET Rows, known: Nat,
                          flushed: SUBSET Entries]]
    /\ \A t \in Writers : tx[t].adding = None => tx[t].seen = {}
    /\ clock \in 0..MaxRows
    /\ verify \in [skip: 0..MaxRows, batch: Seq(Rows)]
    /\ written \subseteq Entries
    /\ forked \in BOOLEAN
    /\ damage \in 0..MaxDamage
    /\ alarmed \in BOOLEAN

Init ==
    /\ rows = {}
    /\ tx = [t \in Writers |-> Idle]
    /\ clock = 0
    /\ verify = NoVerification
    /\ written = {}
    /\ forked = FALSE
    /\ damage = 0
    /\ alarmed = FALSE

-----------------------------------------------------------------------------
(* log_audit_event                                                         *)

(* What t's queries see: the committed rows and its own.                   *)
Visible(t) == rows \cup {f.row : f \in tx[t].flushed}

(* How much had been written when the transaction read its first head.     *)
FirstKnown(t) == IF tx[t].flushed = {} THEN Cardinality(written) ELSE tx[t].known

(* Mutant: the head is looked for among the committed rows of others.      *)
LogBesides(t, p) ==
    /\ tx[t].adding = None
    /\ tx' = [tx EXCEPT ![t].seen = Visible(t), ![t].known = FirstKnown(t),
                        ![t].adding = [previous |-> HeadOf(rows), payload |-> p]]
    /\ UNCHANGED <<rows, clock, verify, written, forked, damage, alarmed>>

(* The head is read, without a lock, and the new row is added to the       *)
(* session.  Another event of the same transaction comes after the first   *)
(* has been flushed, by this very query at the latest.                     *)
LogAuditEvent(t, p) ==
    /\ tx[t].adding = None
    /\ tx' = [tx EXCEPT ![t].seen = Visible(t), ![t].known = FirstKnown(t),
                        ![t].adding = [previous |-> HeadOf(Visible(t)), payload |-> p]]
    /\ UNCHANGED <<rows, clock, verify, written, forked, damage, alarmed>>

(* Autoflush, or the flush of the commit: the row gets its created_at.     *)
Flush(t) ==
    /\ tx[t].adding # None
    /\ clock < MaxRows
    /\ clock' = clock + 1
    /\ LET new == tx[t].adding
           row == [at |-> clock + 1, previous |-> new.previous, payload |-> new.payload,
                   current |-> Hash(new.previous, new.payload)]
       IN  tx' = [tx EXCEPT ![t] = [adding |-> None, seen |-> {}, known |-> @.known,
                                    flushed |-> @.flushed \cup {[row |-> row, before |-> @.seen]}]]
    /\ UNCHANGED <<rows, verify, written, forked, damage, alarmed>>

(* The rows become visible, and the transaction is done.  If others have   *)
(* committed rows since it read the head, the chain is forked.             *)
Commit(t) ==
    /\ tx[t].adding = None
    /\ tx[t].flushed # {}
    /\ rows' = Visible(t)
    /\ written' = written \cup tx[t].flushed
    /\ forked' = (forked \/ tx[t].known # Cardinality(written))
    /\ tx' = [tx EXCEPT ![t] = Idle]
    /\ UNCHANGED <<clock, verify, damage, alarmed>>

Rollback(t) ==
    /\ tx[t] # Idle
    /\ tx' = [tx EXCEPT ![t] = Idle]
    /\ UNCHANGED <<rows, clock, verify, written, forked, damage, alarmed>>

-----------------------------------------------------------------------------
(* Damage done to the table by other means                                 *)

Damaged(log) ==
    /\ damage < MaxDamage
    /\ damage' = damage + 1
    /\ rows' = log
    /\ UNCHANGED <<tx, clock, verify, written, forked, alarmed>>

Altered(r, p) == p # r.payload /\ Damaged((rows \ {r}) \cup {[r EXCEPT !.payload = p]})

Rewritten(r, p) ==
    p # r.payload /\ Damaged((rows \ {r}) \cup {[r EXCEPT !.payload = p, !.current = Hash(r.previous, p)]})

Lost(r) == Damaged(rows \ {r})

-----------------------------------------------------------------------------
(* verify_audit_chain                                                      *)

(* Mutant: the hashes are compared with each other, not recomputed.        *)
Linked(batch, running) ==
    \A i \in DOMAIN batch :
        batch[i].previous = IF i = 1 THEN running ELSE batch[i - 1].current

(* The walk: each row names the hash of the one before, and has its own.   *)
Continuous(batch, running) ==
    \A i \in DOMAIN batch :
        LET hash == IF i = 1 THEN running ELSE batch[i - 1].current
        IN  /\ batch[i].previous = hash
            /\ batch[i].current = Hash(hash, batch[i].payload)

Batch(log, skip, limit) == SubSeq(log, skip + 1, IF skip + limit > Len(log) THEN Len(log) ELSE skip + limit)

(* Mutant: the row before the batch is looked for one place too late.      *)
PredecessorOffByOne(log, skip) ==
    IF skip = 0 THEN Genesis ELSE IF skip + 1 \in DOMAIN log THEN log[skip + 1].current ELSE None

(* The hash the first row of a batch must name; None if no row precedes.   *)
Predecessor(log, skip) ==
    IF skip = 0 THEN Genesis ELSE IF skip \in DOMAIN log THEN log[skip].current ELSE None

(* The answer to one request, when nothing happens between its queries.    *)
IsValid(log, skip, limit) ==
    LET batch == Batch(log, skip, limit)
    IN  batch # <<>> => /\ Predecessor(log, skip) # None
                        /\ Continuous(batch, Predecessor(log, skip))

VerifyBatch(skip, limit) ==
    LET log == Ordered(rows)
    IN  /\ verify = NoVerification
        /\ Batch(log, skip, limit) # <<>>
        /\ verify' = [skip |-> skip, batch |-> Batch(log, skip, limit)]
        /\ UNCHANGED <<rows, tx, clock, written, forked, damage, alarmed>>

VerifyAnswer ==
    LET log == Ordered(rows)
        running == Predecessor(log, verify.skip)
    IN  /\ verify # NoVerification
        /\ alarmed' = (alarmed \/ running = None \/ ~Continuous(verify.batch, running))
        /\ verify' = NoVerification
        /\ UNCHANGED <<rows, tx, clock, written, forked, damage>>

-----------------------------------------------------------------------------
Next ==
    \/ \E t \in Writers, p \in Payloads : LogAuditEvent(t, p)
    \/ \E t \in Writers : Flush(t) \/ Commit(t) \/ Rollback(t)
    \/ \E r \in rows, p \in Payloads : Altered(r, p) \/ Rewritten(r, p)
    \/ \E r \in rows : Lost(r)
    \/ \E skip \in 0..MaxRows, limit \in 1..MaxRows : VerifyBatch(skip, limit)
    \/ VerifyAnswer

Spec == Init /\ [][Next]_vars

-----------------------------------------------------------------------------
(* Properties                                                              *)

WholeLogValid == IsValid(Ordered(rows), 0, MaxRows)

(* The events of a log, in order.                                          *)
Told(log) == [i \in 1..Cardinality(log) |-> Ordered(log)[i].payload]

(* A log that verifies has lost, gained and altered nothing a row of it    *)
(* was built on: before each row that is as it was written stand the very  *)
(* events that stood there then, if the log verified at that moment too.   *)
(* Only the end of a log can go unnoticed, and what was altered there      *)
(* before the next row was added and set right after.                      *)
DamageIsNoticed ==
    WholeLogValid =>
        \A w \in written :
            w.row \in rows /\ IsValid(Ordered(w.before), 0, MaxRows)
            => Told({r \in rows : r.at < w.row.at}) = Told(w.before)

(* No verification raises an alarm over a log that was neither forked nor  *)
(* damaged, whatever is appended between its two queries.                  *)
NoFalseAlarm == alarmed => forked \/ damage > 0

(* Walking the log in contiguous batches of any size says what one request *)
(* over the whole log says: no boundary hides a break or makes one.        *)
BatchesAgree ==
    \A limit \in 1..MaxRows :
        WholeLogValid <=> \A skip \in {n \in 0..MaxRows : n % limit = 0} :
                              IsValid(Ordered(rows), skip, limit)

(* docs/database/01_schema.md:149: "a cryptographic chain where every      *)
(* record references the fingerprint of the predecessor".                  *)
EveryRecordReferencesItsPredecessor ==
    damage = 0 => \A i \in DOMAIN Ordered(rows) :
                      Ordered(rows)[i].previous = Predecessor(Ordered(rows), i - 1)

=============================================================================
