------------------------------ MODULE Requests ------------------------------
(***************************************************************************)
(* The Redis keys around a request that changes something: the counter of  *)
(* core/rate_limit.py and the Idempotency-Key of core/idempotency.py, as   *)
(* checkout, report_damage, return_initiate (endpoints/loans.py) and       *)
(* force_open_locker (endpoints/equipment.py) use them.  All attempts are  *)
(* of one user; a key stands for one request and all its retries.          *)
(*                                                                         *)
(* A Redis call that raises may have been executed or not; so may a commit *)
(* that raises.  What the transaction does is LendingService's business.   *)
(***************************************************************************)
EXTENDS Naturals, FiniteSets

CONSTANTS
    Attempts,  \* HTTP requests, each handled once
    Keys,
    KindOf,    \* the endpoint each key is sent to
    Limit,     \* RATE_LIMIT_TOKEN_LIMIT
    MaxFaults, \* bound on the calls that raise and the processes that die
    Counter,   \* the name of the rate-limit counter
    None       \* Python's None

Kinds == {"checkout", "report", "return", "open"}

ASSUME RequestConstants ==
    /\ KindOf \in [Keys -> Kinds]
    /\ Limit \in Nat \ {0}
    /\ MaxFaults \in Nat
    /\ {Counter, None} \cap Keys = {}

VARIABLES
    counter,   \* requests counted in this window
    window,    \* "none" before the first, "ends" once the counter has a TTL
    key,       \* the idempotency keys that exist
    attempt,   \* per attempt: where its handler is, and its key
    committed, \* per key: transactions the database has committed
    unclear,   \* per key: those whose commit raised nevertheless
    commands,  \* per key: commands sent to the kiosk
    stranded,  \* bookkeeping: what an error left behind
    faults

vars == <<counter, window, key, attempt, committed, unclear, commands, stranded, faults>>

limiter == <<counter, window>>
effects == <<committed, unclear, commands>>

Claimed == {"preflight", "working", "committed", "releasing"}

TypeOK ==
    /\ counter \in 0..(Limit + 1)
    /\ window \in {"none", "open", "ends"}
    /\ counter = 0 <=> window = "none"
    /\ key \in SUBSET Keys
    /\ attempt \in [Attempts -> [at: {"new", "limit", "expire", "guard", "done"} \cup Claimed,
                                 key: Keys \cup {None}]]
    /\ \A a \in Attempts : attempt[a].key = None <=> attempt[a].at = "new"
    /\ committed \in [Keys -> Nat]
    /\ unclear \in [Keys -> Nat]
    /\ commands \in [Keys -> Nat]
    /\ stranded \in SUBSET (Keys \cup {Counter})
    /\ faults \in 0..MaxFaults

Init ==
    /\ counter = 0 /\ window = "none"
    /\ key = {}
    /\ attempt = [a \in Attempts |-> [at |-> "new", key |-> None]]
    /\ committed = [k \in Keys |-> 0]
    /\ unclear = [k \in Keys |-> 0]
    /\ commands = [k \in Keys |-> 0]
    /\ stranded = {}
    /\ faults = 0

KeyOf(a) == attempt[a].key
At(a, at) == attempt[a].at = at
Goes(a, at) == attempt' = [attempt EXCEPT ![a].at = at]

Fault == faults < MaxFaults /\ faults' = faults + 1

(* The attempts that hold k: they have set it and not yet answered.        *)
Holders(k) == {a \in Attempts : KeyOf(a) = k /\ attempt[a].at \in Claimed}

-----------------------------------------------------------------------------
(* The rate limiter; force_open_locker does without                        *)

Arrives(a, k) ==
    /\ At(a, "new")
    /\ attempt' = [attempt EXCEPT ![a] =
           [at |-> IF KindOf[k] = "open" THEN "guard" ELSE "limit", key |-> k]]
    /\ UNCHANGED <<limiter, key, effects, stranded, faults>>

(* INCR, capped one above the limit.                                       *)
Incremented == IF counter > Limit THEN counter ELSE counter + 1

Counted == counter' = Incremented /\ window' = IF counter = 0 THEN "open" ELSE window

(* Mutant: every request sets the end of the window, and a late one sets   *)
(* it when the counter has gone.                                           *)
ExpireAlways(a) ==
    /\ At(a, "limit")
    /\ Counted
    /\ Goes(a, IF Incremented > Limit THEN "done" ELSE "expire")
    /\ UNCHANGED <<key, effects, stranded, faults>>

(* The first request of a window goes on to set its end.                   *)
CheckTokenRateLimit(a) ==
    /\ At(a, "limit")
    /\ Counted
    /\ Goes(a, IF counter = 0 THEN "expire" ELSE IF Incremented > Limit THEN "done" ELSE "guard")
    /\ UNCHANGED <<key, effects, stranded, faults>>

SetWindow(a) ==
    /\ At(a, "expire")
    /\ window' = "ends"
    /\ Goes(a, "guard")
    /\ UNCHANGED <<counter, key, effects, stranded, faults>>

(* RedisError: the request is let through.  If that was the first of its   *)
(* window nobody will set the counter's TTL any more.                      *)
LimitFails(a) ==
    /\ Fault
    /\ \/ At(a, "limit") /\ (Counted \/ UNCHANGED limiter)
       \/ At(a, "expire") /\ window' \in {window, "ends"} /\ UNCHANGED counter
    /\ stranded' = IF window' = "open" /\ (At(a, "expire") \/ counter = 0)
                   THEN stranded \cup {Counter} ELSE stranded
    /\ Goes(a, "guard")
    /\ UNCHANGED <<key, effects>>

WindowEnds ==
    /\ window = "ends"
    /\ window' = "none"
    /\ counter' = 0
    /\ UNCHANGED <<key, attempt, effects, stranded, faults>>

-----------------------------------------------------------------------------
(* The idempotency guard                                                   *)

(* Mutant: SET without NX.                                                 *)
GuardOverwrites(a) ==
    /\ At(a, "guard")
    /\ key' = key \cup {KeyOf(a)}
    /\ Goes(a, IF KindOf[KeyOf(a)] = "return" THEN "preflight" ELSE "working")
    /\ UNCHANGED <<limiter, effects, stranded, faults>>

(* SET NX EX; 409 if the key exists.                                       *)
GuardIdempotency(a) ==
    /\ At(a, "guard")
    /\ key' = key \cup {KeyOf(a)}
    /\ Goes(a, IF KeyOf(a) \in key THEN "done"
               ELSE IF KindOf[KeyOf(a)] = "return" THEN "preflight" ELSE "working")
    /\ UNCHANGED <<limiter, effects, stranded, faults>>

(* 503, although the key may have been set.                                *)
GuardFails(a) ==
    /\ Fault
    /\ At(a, "guard")
    /\ key' \in {key, key \cup {KeyOf(a)}}
    /\ stranded' = stranded \cup (key' \ key)
    /\ Goes(a, "done")
    /\ UNCHANGED <<limiter, effects>>

(* A day later; the client has given up, and what it did is forgotten.     *)
KeyExpires(k) ==
    /\ k \in key
    /\ Holders(k) = {}
    /\ key' = key \ {k}
    /\ committed' = [committed EXCEPT ![k] = 0]
    /\ unclear' = [unclear EXCEPT ![k] = 0]
    /\ commands' = [commands EXCEPT ![k] = 0]
    /\ stranded' = stranded \ {k}
    /\ UNCHANGED <<limiter, attempt, faults>>

-----------------------------------------------------------------------------
(* The handlers                                                            *)

KioskOnline(a) ==
    /\ At(a, "preflight")
    /\ Goes(a, "working")
    /\ UNCHANGED <<limiter, key, effects, stranded, faults>>

(* return_initiate looks for the kiosk before its try: its 503 leaves the  *)
(* key behind, and a retry gets 409 for a day.                             *)
KioskOffline(a) ==
    /\ At(a, "preflight")
    /\ Goes(a, "done")
    /\ stranded' = stranded \cup {KeyOf(a)}
    /\ UNCHANGED <<limiter, key, effects, faults>>

(* Mutant: an except branch without release_idempotency_key.               *)
RefusedKeepsKey(a) ==
    /\ At(a, "working")
    /\ Goes(a, "done")
    /\ UNCHANGED <<limiter, key, effects, stranded, faults>>

(* Any refusal or exception before the commit.                             *)
Refused(a) ==
    /\ At(a, "working")
    /\ Goes(a, "releasing")
    /\ UNCHANGED <<limiter, key, effects, stranded, faults>>

Commit(a) ==
    /\ At(a, "working")
    /\ committed' = [committed EXCEPT ![KeyOf(a)] = @ + 1]
    /\ Goes(a, "committed")
    /\ UNCHANGED <<limiter, key, unclear, commands, stranded, faults>>

(* db_committed stays False, whatever the database has done.               *)
CommitFails(a) ==
    /\ Fault
    /\ At(a, "working")
    /\ \/ UNCHANGED <<committed, unclear>>
       \/ /\ committed' = [committed EXCEPT ![KeyOf(a)] = @ + 1]
          /\ unclear' = [unclear EXCEPT ![KeyOf(a)] = @ + 1]
    /\ Goes(a, "releasing")
    /\ UNCHANGED <<limiter, key, commands, stranded>>

SendCommand(a) ==
    /\ At(a, "committed")
    /\ commands' = [commands EXCEPT ![KeyOf(a)] = @ + 1]
    /\ Goes(a, "done")
    /\ UNCHANGED <<limiter, key, committed, unclear, stranded, faults>>

(* 207, or an error of db.refresh: the key stays.  (force_open_locker would*)
(* release it if anything behind its commit raised; nothing there does.)   *)
CommandLost(a) ==
    /\ At(a, "committed")
    /\ Goes(a, "done")
    /\ UNCHANGED <<limiter, key, effects, stranded, faults>>

ReleaseIdempotencyKey(a) ==
    /\ At(a, "releasing")
    /\ key' = key \ {KeyOf(a)}
    /\ Goes(a, "done")
    /\ UNCHANGED <<limiter, effects, stranded, faults>>

(* Fails silently.                                                         *)
ReleaseFails(a) ==
    /\ Fault
    /\ At(a, "releasing")
    /\ key' \in {key, key \ {KeyOf(a)}}
    /\ stranded' = stranded \cup ({KeyOf(a)} \cap key')
    /\ Goes(a, "done")
    /\ UNCHANGED <<limiter, effects>>

(* The process that runs the attempts of S dies.                           *)
Crash(S) ==
    /\ Fault
    /\ \A a \in S : attempt[a].at \notin {"new", "done"}
    /\ attempt' = [a \in Attempts |->
                      IF a \in S THEN [attempt[a] EXCEPT !.at = "done"] ELSE attempt[a]]
    /\ stranded' = stranded \cup {KeyOf(a) : a \in {b \in S : attempt[b].at \in Claimed}}
                            \cup (IF \E a \in S : At(a, "expire") THEN {Counter} ELSE {})
    /\ UNCHANGED <<limiter, key, effects>>

-----------------------------------------------------------------------------
Handler(a) ==
    \/ \E k \in Keys : Arrives(a, k)
    \/ CheckTokenRateLimit(a)
    \/ SetWindow(a)
    \/ GuardIdempotency(a)
    \/ KioskOnline(a)
    \/ KioskOffline(a)
    \/ Refused(a)
    \/ Commit(a)
    \/ SendCommand(a)
    \/ CommandLost(a)
    \/ ReleaseIdempotencyKey(a)

CallRaises(a) == LimitFails(a) \/ GuardFails(a) \/ CommitFails(a) \/ ReleaseFails(a)

Next ==
    \/ \E a \in Attempts : Handler(a) \/ CallRaises(a)
    \/ WindowEnds
    \/ \E k \in Keys : KeyExpires(k)
    \/ \E S \in SUBSET Attempts \ {{}} : Crash(S)

Spec == Init /\ [][Next]_vars

-----------------------------------------------------------------------------
(* Properties                                                              *)

(* 03_concurrency.md:35: "network retries do not result in duplicate       *)
(* records or physical actions".  Whatever is retried, overlaps, raises or *)
(* dies, a key opens a door at most once, and only a commit that took      *)
(* place and raised all the same leaves a second record.                   *)
EffectOnce ==
    \A k \in Keys : commands[k] <= 1 /\ committed[k] <= 1 + unclear[k]

(* The 409 of the guard says "already being processed or has completed":   *)
(* a key that exists has an attempt that holds it, or a record.  A counter *)
(* has an end, or an attempt about to set one.  Only calls that raise, a   *)
(* crash and a return to an offline kiosk leave anything else behind.      *)
NothingStranded ==
    /\ \A k \in key : Holders(k) # {} \/ committed[k] > 0 \/ k \in stranded
    /\ window = "open" => Counter \in stranded \/ \E a \in Attempts : At(a, "expire")

=============================================================================
