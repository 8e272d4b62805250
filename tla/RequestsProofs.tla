--------------------------- MODULE RequestsProofs ---------------------------
(***************************************************************************)
(* Proofs about Requests, for any keys, endpoints, limit and number of     *)
(* faults.                                                                 *)
(***************************************************************************)
EXTENDS Requests, TLAPS

(* One attempt at most is about to set the end of the window.              *)
WindowInv ==
    \A a, b \in Attempts : At(a, "expire") => window = "open" /\ (At(b, "expire") => a = b)

(* One attempt at most holds a key, and the key exists as long as it does. *)
HolderInv ==
    \A a, b \in Attempts :
        attempt[a].at \in Claimed =>
            /\ KeyOf(a) \in key
            /\ attempt[b].at \in Claimed /\ KeyOf(b) = KeyOf(a) => a = b

(* Nothing certain has happened under k yet.                               *)
Untouched(k) == commands[k] = 0 /\ committed[k] = unclear[k]

(* A key that can be claimed, or whose holder has yet to commit, is        *)
(* untouched; after the commit nothing but the command is to come.         *)
EffectInv ==
    /\ \A k \in Keys : k \notin key => Untouched(k)
    /\ \A a \in Attempts :
           /\ attempt[a].at \in {"preflight", "working", "releasing"} => Untouched(KeyOf(a))
           /\ At(a, "committed") => /\ commands[KeyOf(a)] = 0
                                    /\ committed[KeyOf(a)] = unclear[KeyOf(a)] + 1

IInv == TypeOK /\ WindowInv /\ HolderInv /\ EffectInv /\ EffectOnce

(* What an action of an attempt does to the places of all attempts.        *)
LEMMA AttemptMoves ==
    ASSUME TypeOK, NEW a \in Attempts, NEW at, attempt[a].at # "new", Goes(a, at)
    PROVE  /\ attempt'[a].at = at /\ attempt'[a].key = attempt[a].key
           /\ attempt[a].key \in Keys
           /\ \A b \in Attempts \ {a} : attempt'[b] = attempt[b]
BY DEF TypeOK, Goes

LEMMA InitCorrect == Init => IInv /\ NothingStranded
BY RequestConstants
   DEF Init, IInv, TypeOK, WindowInv, HolderInv, EffectInv, EffectOnce, NothingStranded, At,
       KeyOf, Claimed, Untouched

LEMMA TypeStep == TypeOK /\ WindowInv /\ [Next]_vars => TypeOK' /\ WindowInv'
<1> SUFFICES ASSUME TypeOK, WindowInv, [Next]_vars PROVE TypeOK' /\ WindowInv'
  OBVIOUS
<1> USE RequestConstants
<1>1. CASE UNCHANGED vars
  BY <1>1 DEF vars, limiter, effects, TypeOK, WindowInv, At
<1>2. ASSUME NEW a \in Attempts, NEW k \in Keys, Arrives(a, k) PROVE TypeOK' /\ WindowInv'
  BY <1>2 DEF Arrives, At, limiter, effects, TypeOK, WindowInv, Claimed
<1>3. ASSUME NEW a \in Attempts, CheckTokenRateLimit(a) PROVE TypeOK' /\ WindowInv'
  <2>1. TypeOK'
    BY <1>3 DEF CheckTokenRateLimit, Counted, Incremented, At, Goes, effects, TypeOK, Claimed
  <2>2. WindowInv'
    BY <1>3 DEF CheckTokenRateLimit, Counted, Incremented, At, Goes, effects, TypeOK, WindowInv
  <2> QED BY <2>1, <2>2
<1>4. ASSUME NEW a \in Attempts, SetWindow(a) PROVE TypeOK' /\ WindowInv'
  BY <1>4 DEF SetWindow, At, Goes, effects, TypeOK, WindowInv, Claimed
<1>5. ASSUME NEW a \in Attempts, GuardIdempotency(a) PROVE TypeOK' /\ WindowInv'
  BY <1>5 DEF GuardIdempotency, At, KeyOf, Goes, limiter, effects, TypeOK, WindowInv, Claimed
<1>6. ASSUME NEW a \in Attempts,
             KioskOnline(a) \/ KioskOffline(a) \/ Refused(a) \/ CommandLost(a)
                 \/ ReleaseIdempotencyKey(a)
      PROVE  TypeOK' /\ WindowInv'
  BY <1>6 DEF KioskOnline, KioskOffline, Refused, CommandLost, ReleaseIdempotencyKey, At, KeyOf,
              Goes, limiter, effects, TypeOK, WindowInv, Claimed
<1>7. ASSUME NEW a \in Attempts, Commit(a) \/ SendCommand(a) PROVE TypeOK' /\ WindowInv'
  <2>1. KeyOf(a) \in Keys /\ attempt[a].at # "new"
    BY <1>7 DEF Commit, SendCommand, At, KeyOf, TypeOK
  <2>2. committed' \in [Keys -> Nat] /\ commands' \in [Keys -> Nat]
    BY <1>7, <2>1 DEF Commit, SendCommand, TypeOK
  <2>3. /\ UNCHANGED <<counter, window, key, unclear, stranded, faults>>
        /\ Goes(a, "committed") \/ Goes(a, "done")
    BY <1>7 DEF Commit, SendCommand, limiter
  <2>4. TypeOK'
    BY <2>1, <2>2, <2>3 DEF Goes, TypeOK, Claimed
  <2>5. WindowInv'
    BY <2>3 DEF Goes, TypeOK, WindowInv, At
  <2> QED BY <2>4, <2>5
<1>8. ASSUME NEW a \in Attempts, LimitFails(a) PROVE TypeOK' /\ WindowInv'
  <2>1. TypeOK'
    BY <1>8 DEF LimitFails, Fault, Counted, Incremented, At, Goes, limiter, effects, TypeOK,
                WindowInv, Claimed
  <2>2. WindowInv'
    BY <1>8 DEF LimitFails, Counted, Incremented, At, Goes, limiter, TypeOK, WindowInv
  <2> QED BY <2>1, <2>2
<1>9. ASSUME NEW a \in Attempts, GuardFails(a) \/ ReleaseFails(a) PROVE TypeOK' /\ WindowInv'
  BY <1>9 DEF GuardFails, ReleaseFails, Fault, At, KeyOf, Goes, limiter, effects, TypeOK,
              WindowInv, Claimed
<1>10. ASSUME NEW a \in Attempts, CommitFails(a) PROVE TypeOK' /\ WindowInv'
  BY <1>10 DEF CommitFails, Fault, At, KeyOf, Goes, limiter, TypeOK, WindowInv, Claimed
<1>11. ASSUME WindowEnds PROVE TypeOK' /\ WindowInv'
  BY <1>11 DEF WindowEnds, effects, TypeOK, WindowInv, At
<1>12. ASSUME NEW k \in Keys, KeyExpires(k) PROVE TypeOK' /\ WindowInv'
  BY <1>12 DEF KeyExpires, limiter, TypeOK, WindowInv, At
<1>13. ASSUME NEW S \in SUBSET Attempts, Crash(S) PROVE TypeOK' /\ WindowInv'
  BY <1>13 DEF Crash, Fault, limiter, effects, TypeOK, WindowInv, At, KeyOf, Claimed
<1> QED
  BY <1>1, <1>2, <1>3, <1>4, <1>5, <1>6, <1>7, <1>8, <1>9, <1>10, <1>11, <1>12, <1>13
     DEF Next, Handler, CallRaises

-----------------------------------------------------------------------------
(* The holder of a key.                                                    *)

(* Whoever claims nothing new keeps the invariant, as long as the keys of  *)
(* those who still hold one stay.                                          *)
LEMMA HoldersShrink ==
    ASSUME HolderInv,
           \A a \in Attempts :
               attempt'[a].at \in Claimed =>
                   /\ attempt[a].at \in Claimed
                   /\ attempt'[a].key = attempt[a].key
                   /\ attempt[a].key \in key => attempt[a].key \in key'
    PROVE  HolderInv'
BY DEF HolderInv, KeyOf, Claimed

LEMMA HolderStep == TypeOK /\ HolderInv /\ [Next]_vars => HolderInv'
<1> SUFFICES ASSUME TypeOK, HolderInv, [Next]_vars PROVE HolderInv'
  OBVIOUS
<1> USE RequestConstants
<1>1. CASE UNCHANGED vars
  BY <1>1 DEF vars, HolderInv, KeyOf
<1>2. ASSUME NEW a \in Attempts, NEW k \in Keys, Arrives(a, k) PROVE HolderInv'
  <2>1. /\ attempt'[a].at \notin Claimed
        /\ \A b \in Attempts \ {a} : attempt'[b] = attempt[b]
        /\ key' = key
    BY <1>2 DEF Arrives, Claimed, TypeOK
  <2> QED BY <2>1, HoldersShrink
<1>3. ASSUME NEW a \in Attempts, NEW at, attempt[a].at # "new", Goes(a, at),
             at \in Claimed => attempt[a].at \in Claimed, key' = key
      PROVE  HolderInv'
  BY <1>3, AttemptMoves, HoldersShrink
<1>4. ASSUME NEW a \in Attempts,
             \/ CheckTokenRateLimit(a) \/ SetWindow(a) \/ KioskOnline(a) \/ KioskOffline(a)
             \/ Refused(a) \/ Commit(a) \/ SendCommand(a) \/ CommandLost(a)
             \/ LimitFails(a) \/ CommitFails(a)
      PROVE  HolderInv'
  <2>1. /\ attempt[a].at # "new" /\ key' = key
        /\ \E at : Goes(a, at) /\ (at \in Claimed => attempt[a].at \in Claimed)
    BY <1>4 DEF CheckTokenRateLimit, SetWindow, KioskOnline, KioskOffline, Refused, Commit,
                SendCommand, CommandLost, LimitFails, CommitFails, At, Claimed
  <2> QED BY <2>1, <1>3
<1>5. ASSUME NEW a \in Attempts, GuardIdempotency(a) PROVE HolderInv'
  <2> DEFINE at == IF KeyOf(a) \in key THEN "done"
                   ELSE IF KindOf[KeyOf(a)] = "return" THEN "preflight" ELSE "working"
  <2>1. /\ attempt[a].at # "new" /\ attempt[a].at \notin Claimed /\ Goes(a, at)
        /\ key' = key \cup {attempt[a].key}
    BY <1>5 DEF GuardIdempotency, At, KeyOf, Claimed
  <2>2. /\ attempt'[a].at = at /\ attempt'[a].key = attempt[a].key
        /\ \A b \in Attempts \ {a} : attempt'[b] = attempt[b]
    BY <2>1, AttemptMoves
  <2>3. CASE attempt[a].key \in key
    <3>1. attempt'[a].at \notin Claimed
      BY <2>2, <2>3 DEF KeyOf, Claimed
    <3> QED BY <2>1, <2>2, <3>1, HoldersShrink
  <2>4. CASE attempt[a].key \notin key
    <3>1. \A b \in Attempts : attempt[b].at \in Claimed => attempt[b].key # attempt[a].key
      BY <2>4 DEF HolderInv, KeyOf
    <3> QED BY <2>1, <2>2, <3>1 DEF HolderInv, KeyOf
  <2> QED BY <2>3, <2>4
<1>6. ASSUME NEW a \in Attempts, GuardFails(a) PROVE HolderInv'
  <2>1. attempt[a].at # "new" /\ Goes(a, "done") /\ key \subseteq key'
    BY <1>6 DEF GuardFails, At
  <2> QED BY <2>1, AttemptMoves, HoldersShrink DEF Claimed
<1>7. ASSUME NEW a \in Attempts, ReleaseIdempotencyKey(a) \/ ReleaseFails(a) PROVE HolderInv'
  <2>1. /\ attempt[a].at # "new" /\ attempt[a].at \in Claimed /\ Goes(a, "done")
        /\ key \ {attempt[a].key} \subseteq key'
    BY <1>7 DEF ReleaseIdempotencyKey, ReleaseFails, At, KeyOf, Claimed
  <2>2. \A b \in Attempts \ {a} : attempt[b].at \in Claimed => attempt[b].key # attempt[a].key
    BY <2>1 DEF HolderInv, KeyOf
  <2> QED BY <2>1, <2>2, AttemptMoves, HoldersShrink DEF Claimed
<1>8. ASSUME NEW k \in Keys, KeyExpires(k) PROVE HolderInv'
  <2>1. \A b \in Attempts : attempt[b].at \in Claimed => attempt[b].key # k
    BY <1>8 DEF KeyExpires, Holders, KeyOf
  <2>2. attempt' = attempt /\ key' = key \ {k}
    BY <1>8 DEF KeyExpires
  <2> QED BY <2>1, <2>2, HoldersShrink
<1>9. ASSUME NEW S \in SUBSET Attempts, Crash(S) PROVE HolderInv'
  <2>1. \A b \in Attempts : attempt'[b].at = "done" \/ attempt'[b] = attempt[b]
    BY <1>9 DEF Crash, TypeOK
  <2>2. key' = key /\ "done" \notin Claimed
    BY <1>9 DEF Crash, Claimed
  <2> QED BY <2>1, <2>2, HoldersShrink
<1>10. CASE WindowEnds
  BY <1>10 DEF WindowEnds, HolderInv, KeyOf
<1> QED
  BY <1>1, <1>2, <1>4, <1>5, <1>6, <1>7, <1>8, <1>9, <1>10 DEF Next, Handler, CallRaises

-----------------------------------------------------------------------------
(* What has happened under a key.                                          *)

Uncommitted == {"preflight", "working", "releasing"}

(* Nothing happens, and whoever holds a key held it before.                *)
LEMMA EffectsKept ==
    ASSUME EffectInv, EffectOnce, UNCHANGED effects,
           \A k \in Keys : k \notin key' => k \notin key \/ Untouched(k),
           \A a \in Attempts :
               /\ attempt'[a].at \in Uncommitted =>
                      attempt[a].at \in Uncommitted /\ attempt'[a].key = attempt[a].key
               /\ attempt'[a].at = "committed" =>
                      attempt[a].at = "committed" /\ attempt'[a].key = attempt[a].key
    PROVE  EffectInv' /\ EffectOnce'
BY DEF EffectInv, EffectOnce, Untouched, KeyOf, At, effects, Uncommitted

LEMMA EffectStep ==
    TypeOK /\ HolderInv /\ EffectInv /\ EffectOnce /\ [Next]_vars => EffectInv' /\ EffectOnce'
<1> SUFFICES ASSUME TypeOK, HolderInv, EffectInv, EffectOnce, [Next]_vars
             PROVE  EffectInv' /\ EffectOnce'
  OBVIOUS
<1> USE RequestConstants
<1>1. CASE UNCHANGED vars
  BY <1>1, EffectsKept DEF vars, effects
<1>2. ASSUME NEW a \in Attempts, NEW k \in Keys, Arrives(a, k) PROVE EffectInv' /\ EffectOnce'
  <2>1. /\ attempt'[a].at \notin Uncommitted /\ attempt'[a].at # "committed"
        /\ \A b \in Attempts \ {a} : attempt'[b] = attempt[b]
        /\ key' = key /\ UNCHANGED effects
    BY <1>2 DEF Arrives, Uncommitted, TypeOK
  <2> QED BY <2>1, EffectsKept
<1>3. ASSUME NEW a \in Attempts,
             \/ CheckTokenRateLimit(a) \/ SetWindow(a) \/ KioskOnline(a) \/ KioskOffline(a)
             \/ Refused(a) \/ CommandLost(a) \/ LimitFails(a) \/ GuardFails(a)
      PROVE  EffectInv' /\ EffectOnce'
  <2>1. /\ attempt[a].at # "new" /\ key \subseteq key' /\ UNCHANGED effects
        /\ \E at : Goes(a, at) /\ (at \in Uncommitted => attempt[a].at \in Uncommitted)
                              /\ at # "committed"
    BY <1>3 DEF CheckTokenRateLimit, SetWindow, KioskOnline, KioskOffline, Refused, CommandLost,
                LimitFails, GuardFails, At, Uncommitted
  <2> QED BY <2>1, AttemptMoves, EffectsKept
<1>4. ASSUME NEW a \in Attempts, GuardIdempotency(a) PROVE EffectInv' /\ EffectOnce'
  <2> DEFINE at == IF KeyOf(a) \in key THEN "done"
                   ELSE IF KindOf[KeyOf(a)] = "return" THEN "preflight" ELSE "working"
  <2>1. /\ attempt[a].at # "new" /\ Goes(a, at) /\ UNCHANGED effects
        /\ key' = key \cup {attempt[a].key}
    BY <1>4 DEF GuardIdempotency, At, KeyOf
  <2>2. /\ attempt'[a].at = at /\ attempt'[a].key = attempt[a].key /\ attempt[a].key \in Keys
        /\ \A b \in Attempts \ {a} : attempt'[b] = attempt[b]
    BY <2>1, AttemptMoves
  <2>3. CASE attempt[a].key \in key
    <3>1. attempt'[a].at \notin Uncommitted /\ attempt'[a].at # "committed"
      BY <2>2, <2>3 DEF KeyOf, Uncommitted
    <3> QED BY <2>1, <2>2, <3>1, EffectsKept
  <2>4. CASE attempt[a].key \notin key
    <3>1. Untouched(attempt[a].key) /\ attempt'[a].at # "committed"
      BY <2>2, <2>4 DEF EffectInv, KeyOf
    <3> QED BY <2>1, <2>2, <3>1 DEF EffectInv, EffectOnce, Untouched, effects, KeyOf, At
  <2> QED BY <2>3, <2>4
<1>5. ASSUME NEW a \in Attempts, ReleaseIdempotencyKey(a) \/ ReleaseFails(a)
      PROVE  EffectInv' /\ EffectOnce'
  <2>1. /\ At(a, "releasing") /\ Goes(a, "done") /\ UNCHANGED effects
        /\ key \ {attempt[a].key} \subseteq key'
    BY <1>5 DEF ReleaseIdempotencyKey, ReleaseFails, KeyOf
  <2>2. Untouched(attempt[a].key)
    BY <2>1 DEF EffectInv, At, KeyOf
  <2>3. attempt[a].at # "new" /\ "done" \notin Uncommitted
    BY <2>1 DEF At, Uncommitted
  <2> QED BY <2>1, <2>2, <2>3, AttemptMoves, EffectsKept
<1>6. ASSUME NEW a \in Attempts, Commit(a) \/ CommitFails(a) \/ SendCommand(a)
      PROVE  EffectInv' /\ EffectOnce'
  <2> DEFINE k == attempt[a].key
             to == attempt'[a].at
  <2>1. /\ attempt[a].at # "new" /\ attempt[a].at \in Claimed /\ key' = key
        /\ Goes(a, "committed") \/ Goes(a, "releasing") \/ Goes(a, "done")
    BY <1>6 DEF Commit, CommitFails, SendCommand, At, Claimed
  <2>2. /\ k \in Keys /\ attempt'[a].key = k
        /\ \A b \in Attempts \ {a} : attempt'[b] = attempt[b]
    BY <2>1, AttemptMoves
  <2>3. /\ k \in key
        /\ \A b \in Attempts \ {a} : attempt[b].at \in Claimed => attempt[b].key # k
    BY <2>1 DEF HolderInv, KeyOf
  <2>4. /\ \A j \in Keys \ {k} : /\ committed'[j] = committed[j]
                                 /\ unclear'[j] = unclear[j]
                                 /\ commands'[j] = commands[j]
        /\ {committed[k], unclear[k], commands[k]} \subseteq Nat
    BY <1>6, <2>2 DEF Commit, CommitFails, SendCommand, KeyOf, TypeOK
  <2>5. \/ to = "committed" /\ commands'[k] = 0 /\ committed'[k] = unclear'[k] + 1
        \/ to = "releasing" /\ commands'[k] = 0 /\ committed'[k] = unclear'[k]
        \/ to = "done" /\ commands'[k] = 1 /\ committed'[k] = unclear'[k] + 1
    <3>1. CASE Commit(a)
      <4>1. commands[k] = 0 /\ committed[k] = unclear[k]
        BY <3>1 DEF Commit, EffectInv, Untouched, At, KeyOf
      <4> QED BY <3>1, <4>1, <2>1, <2>2, <2>4, AttemptMoves DEF Commit, KeyOf, TypeOK
    <3>2. CASE CommitFails(a)
      <4>1. commands[k] = 0 /\ committed[k] = unclear[k]
        BY <3>2 DEF CommitFails, EffectInv, Untouched, At, KeyOf
      <4> QED BY <3>2, <4>1, <2>1, <2>2, <2>4, AttemptMoves DEF CommitFails, KeyOf, TypeOK
    <3>3. CASE SendCommand(a)
      <4>1. commands[k] = 0 /\ committed[k] = unclear[k] + 1
        BY <3>3 DEF SendCommand, EffectInv, At, KeyOf
      <4> QED BY <3>3, <4>1, <2>1, <2>2, <2>4, AttemptMoves DEF SendCommand, KeyOf, TypeOK
    <3> QED BY <1>6, <3>1, <3>2, <3>3
  <2>6. EffectOnce'
    <3>1. {committed'[k], unclear'[k], commands'[k]} \subseteq Nat
      BY <1>6, <2>2, <2>4 DEF Commit, CommitFails, SendCommand, KeyOf, TypeOK
    <3> QED BY <2>4, <2>5, <3>1 DEF EffectOnce
  <2>7. \A j \in Keys : j \notin key' => Untouched(j)'
    BY <2>1, <2>3, <2>4 DEF EffectInv, Untouched
  <2>8. /\ to \in Uncommitted => Untouched(k)'
        /\ to = "committed" => commands'[k] = 0 /\ committed'[k] = unclear'[k] + 1
    BY <2>2, <2>5 DEF Uncommitted, Untouched
  <2>9. ASSUME NEW b \in Attempts \ {a}, attempt[b].at \in Claimed
        PROVE  /\ commands'[attempt[b].key] = commands[attempt[b].key]
               /\ committed'[attempt[b].key] = committed[attempt[b].key]
               /\ unclear'[attempt[b].key] = unclear[attempt[b].key]
    <3>1. attempt[b].key \in Keys \ {k}
      BY <2>3, <2>9 DEF TypeOK, Claimed
    <3> QED BY <2>4, <3>1
  <2>10. \A b \in Attempts \ {a} :
            /\ attempt[b].at \in Uncommitted => Untouched(attempt[b].key)'
            /\ attempt[b].at = "committed" =>
                   /\ commands'[attempt[b].key] = 0
                   /\ committed'[attempt[b].key] = unclear'[attempt[b].key] + 1
    BY <2>2, <2>9 DEF EffectInv, Untouched, Uncommitted, Claimed, At, KeyOf
  <2> QED BY <2>2, <2>6, <2>7, <2>8, <2>10 DEF EffectInv, Uncommitted, Untouched, At, KeyOf
<1>7. ASSUME NEW k \in Keys, KeyExpires(k) PROVE EffectInv' /\ EffectOnce'
  <2>1. \A b \in Attempts : attempt[b].at \in Claimed => attempt[b].key \in Keys \ {k}
    BY <1>7 DEF KeyExpires, Holders, KeyOf, TypeOK, Claimed
  <2>2. /\ attempt' = attempt /\ key' = key \ {k}
        /\ committed'[k] = 0 /\ unclear'[k] = 0 /\ commands'[k] = 0
        /\ \A j \in Keys \ {k} : /\ committed'[j] = committed[j]
                                 /\ unclear'[j] = unclear[j]
                                 /\ commands'[j] = commands[j]
    BY <1>7 DEF KeyExpires, TypeOK
  <2>3. EffectOnce'
    BY <2>2 DEF EffectOnce
  <2>4. \A j \in Keys : j \notin key' => Untouched(j)'
    BY <2>2 DEF EffectInv, Untouched
  <2>5. \A b \in Attempts : attempt[b].at \in Claimed =>
            /\ commands'[attempt[b].key] = commands[attempt[b].key]
            /\ committed'[attempt[b].key] = committed[attempt[b].key]
            /\ unclear'[attempt[b].key] = unclear[attempt[b].key]
    BY <2>1, <2>2
  <2> QED BY <2>2, <2>3, <2>4, <2>5 DEF EffectInv, Untouched, Claimed, At, KeyOf
<1>8. ASSUME NEW S \in SUBSET Attempts, Crash(S) PROVE EffectInv' /\ EffectOnce'
  <2>1. \A b \in Attempts : attempt'[b].at = "done" \/ attempt'[b] = attempt[b]
    BY <1>8 DEF Crash, TypeOK
  <2>2. key' = key /\ UNCHANGED effects
    BY <1>8 DEF Crash
  <2>3. "done" \notin Uncommitted
    BY DEF Uncommitted
  <2> QED BY <2>1, <2>2, <2>3, EffectsKept
<1>9. CASE WindowEnds
  BY <1>9, EffectsKept DEF WindowEnds
<1> QED
  BY <1>1, <1>2, <1>3, <1>4, <1>5, <1>6, <1>7, <1>8, <1>9 DEF Next, Handler, CallRaises

-----------------------------------------------------------------------------
(* The keys nobody will release.                                           *)

LEMMA StrandedStep ==
    TypeOK /\ WindowInv /\ HolderInv /\ EffectInv /\ NothingStranded /\ [Next]_vars
        => NothingStranded'
<1> SUFFICES ASSUME TypeOK, WindowInv, HolderInv, EffectInv, NothingStranded, [Next]_vars
             PROVE  NothingStranded'
  OBVIOUS
<1> USE RequestConstants
<1>1. CASE UNCHANGED vars
  BY <1>1 DEF vars, NothingStranded, Holders, KeyOf, At
<1>2. ASSUME \A k \in key' : \/ Holders(k)' # {}
                           \/ committed'[k] > 0
                           \/ k \in stranded',
             \/ window' # "open"
             \/ Counter \in stranded'
             \/ \E b \in Attempts : attempt'[b].at = "expire"
      PROVE  NothingStranded'
  BY <1>2 DEF NothingStranded, At
(* A step that keeps the holders and what they did.                        *)
<1>3. ASSUME key' \subseteq key, stranded \subseteq stranded', NEW a \in Attempts, NEW at,
             attempt[a].at # "new", Goes(a, at),
             \A k \in key' : committed'[k] = committed[k] \/ committed'[k] > 0,
             \/ attempt[a].at \in Claimed => at \in Claimed
             \/ attempt[a].key \notin key'
             \/ attempt[a].key \in stranded'
             \/ committed'[attempt[a].key] > 0
      PROVE  \A k \in key' : Holders(k)' # {} \/ committed'[k] > 0 \/ k \in stranded'
  <2> SUFFICES ASSUME NEW k \in key', committed'[k] = committed[k], k \notin stranded',
                      ~(committed'[k] > 0)
               PROVE  Holders(k)' # {}
    BY <1>3
  <2>1. PICK b \in Attempts : attempt[b].key = k /\ attempt[b].at \in Claimed
    BY <1>3 DEF NothingStranded, Holders, KeyOf
  <2>2. attempt'[b].key = k /\ attempt'[b].at \in Claimed
    BY <1>3, <2>1, AttemptMoves
  <2> QED BY <2>2 DEF Holders, KeyOf
(* A step that leaves the window and whoever is about to end it.           *)
<1>4. ASSUME stranded \subseteq stranded', NEW a \in Attempts, NEW at, attempt[a].at # "new",
             Goes(a, at), ~At(a, "expire"), window' = window
      PROVE  \/ window' # "open"
             \/ Counter \in stranded'
             \/ \E b \in Attempts : attempt'[b].at = "expire"
  BY <1>4, AttemptMoves DEF NothingStranded, At
<1>5. ASSUME NEW a \in Attempts,
             \/ KioskOnline(a) \/ KioskOffline(a) \/ Refused(a) \/ Commit(a) \/ SendCommand(a)
             \/ CommandLost(a) \/ ReleaseIdempotencyKey(a) \/ ReleaseFails(a) \/ CommitFails(a)
      PROVE  NothingStranded'
  <2>1. /\ attempt[a].at \in Claimed /\ key' \subseteq key /\ stranded \subseteq stranded'
        /\ window' = window
    BY <1>5 DEF KioskOnline, KioskOffline, Refused, Commit, SendCommand, CommandLost,
                ReleaseIdempotencyKey, ReleaseFails, CommitFails, At, Claimed, limiter
  <2>2. attempt[a].key \in Keys /\ attempt[a].at # "new" /\ ~At(a, "expire")
    BY <2>1 DEF TypeOK, Claimed, At
  <2>3. \A k \in Keys : committed'[k] = committed[k] \/ committed'[k] > 0
    BY <1>5, <2>2 DEF KioskOnline, KioskOffline, Refused, Commit, SendCommand, CommandLost,
                ReleaseIdempotencyKey, ReleaseFails, CommitFails, effects, TypeOK, KeyOf
  <2>4. attempt[a].at = "committed" => committed[attempt[a].key] > 0
    BY <2>2 DEF EffectInv, TypeOK, At, KeyOf
  <2>5. \E at : /\ Goes(a, at)
               /\ \/ at \in Claimed
                  \/ attempt[a].key \notin key'
                  \/ attempt[a].key \in stranded'
                  \/ committed'[attempt[a].key] > 0
    BY <1>5, <2>4 DEF KioskOnline, KioskOffline, Refused, Commit, SendCommand, CommandLost,
                ReleaseIdempotencyKey, ReleaseFails, CommitFails, At, KeyOf, Claimed, effects
  <2>6. key \subseteq Keys
    BY DEF TypeOK
  <2> QED BY <1>2, <1>3, <1>4, <2>1, <2>2, <2>3, <2>5, <2>6
<1>6. ASSUME NEW a \in Attempts, CheckTokenRateLimit(a) \/ SetWindow(a) \/ LimitFails(a)
      PROVE  NothingStranded'
  <2>1. /\ attempt[a].at \in {"limit", "expire"} /\ UNCHANGED <<key, effects>>
        /\ stranded \subseteq stranded' /\ attempt[a].at # "new" /\ attempt[a].at \notin Claimed
        /\ \E at : Goes(a, at)
    BY <1>6 DEF CheckTokenRateLimit, SetWindow, LimitFails, At, Claimed
  <2>2. \A k \in key' : Holders(k)' # {} \/ committed'[k] > 0 \/ k \in stranded'
    BY <1>3, <2>1 DEF effects
  <2>3. CASE CheckTokenRateLimit(a)
    <3>1. CASE counter = 0
      <4>1. attempt'[a].at = "expire"
        BY <2>1, <2>3, <3>1, AttemptMoves DEF CheckTokenRateLimit
      <4> QED BY <1>2, <2>2, <4>1
    <3>2. CASE counter # 0
      BY <1>2, <1>4, <2>1, <2>2, <2>3, <3>2 DEF CheckTokenRateLimit, Counted, At
    <3> QED BY <3>1, <3>2
  <2>4. CASE SetWindow(a)
    BY <1>2, <2>2, <2>4 DEF SetWindow
  <2>5. CASE LimitFails(a)
    <3>1. CASE window' = "open" /\ (At(a, "expire") \/ counter = 0)
      BY <1>2, <2>2, <2>5, <3>1 DEF LimitFails
    <3>2. CASE window' # "open"
      BY <1>2, <2>2, <3>2
    <3>3. CASE ~At(a, "expire") /\ counter # 0
      BY <1>2, <1>4, <2>1, <2>2, <2>5, <3>3 DEF LimitFails, Counted, limiter, At
    <3> QED BY <3>1, <3>2, <3>3
  <2> QED BY <1>6, <2>3, <2>4, <2>5
<1>7. ASSUME NEW a \in Attempts, GuardIdempotency(a) \/ GuardFails(a) PROVE NothingStranded'
  <2>1. /\ attempt[a].at = "guard" /\ UNCHANGED <<limiter, effects>>
        /\ stranded \subseteq stranded'
        /\ \E at : Goes(a, at)
    BY <1>7 DEF GuardIdempotency, GuardFails, At
  <2>2. /\ attempt'[a].key = attempt[a].key
        /\ \A b \in Attempts \ {a} : attempt'[b] = attempt[b]
    BY <2>1, AttemptMoves
  <2>3. \A k \in key : Holders(k)' # {} \/ committed'[k] > 0 \/ k \in stranded'
    BY <2>1, <2>2 DEF NothingStranded, Holders, KeyOf, effects, Claimed
  <2>4. CASE GuardIdempotency(a)
    <3>1. CASE attempt[a].key \in key
      BY <1>2, <1>4, <2>1, <2>3, <2>4, <3>1 DEF GuardIdempotency, KeyOf, limiter, At
    <3>2. CASE attempt[a].key \notin key
      <4> DEFINE at == IF KindOf[KeyOf(a)] = "return" THEN "preflight" ELSE "working"
      <4>1. Goes(a, at) /\ key' = key \cup {attempt[a].key}
        BY <2>4, <3>2 DEF GuardIdempotency, KeyOf
      <4>2. attempt'[a].at \in Claimed
        BY <2>1, <4>1, AttemptMoves DEF Claimed
      <4>3. Holders(attempt[a].key)' # {}
        BY <2>2, <4>2 DEF Holders, KeyOf
      <4>4. \A k \in key' : Holders(k)' # {} \/ committed'[k] > 0 \/ k \in stranded'
        BY <2>3, <4>1, <4>3, <2>2, <4>2 DEF Holders, KeyOf
      <4> QED BY <1>2, <1>4, <2>1, <4>1, <4>4 DEF limiter, At
    <3> QED BY <3>1, <3>2
  <2>5. CASE GuardFails(a)
    BY <1>2, <1>4, <2>1, <2>3, <2>5 DEF GuardFails, limiter, At
  <2> QED BY <1>7, <2>4, <2>5
<1>8. ASSUME NEW a \in Attempts, NEW k \in Keys, Arrives(a, k) PROVE NothingStranded'
  <2>1. /\ attempt[a].at = "new" /\ UNCHANGED <<key, limiter, effects, stranded>>
        /\ \A b \in Attempts \ {a} : attempt'[b] = attempt[b]
    BY <1>8 DEF Arrives, At, TypeOK
  <2>2. \A j \in key' : Holders(j)' # {} \/ committed'[j] > 0 \/ j \in stranded'
    BY <2>1 DEF NothingStranded, Holders, KeyOf, effects, Claimed
  <2> QED BY <1>2, <2>1, <2>2 DEF NothingStranded, limiter, At
<1>9. ASSUME NEW k \in Keys, KeyExpires(k) PROVE NothingStranded'
  <2>1. /\ attempt' = attempt /\ key' = key \ {k} /\ window' = window
        /\ stranded' = stranded \ {k} /\ Counter # k
        /\ \A j \in Keys \ {k} : committed'[j] = committed[j]
    BY <1>9 DEF KeyExpires, limiter, TypeOK
  <2>2. \A j \in key' : Holders(j)' # {} \/ committed'[j] > 0 \/ j \in stranded'
    BY <2>1 DEF NothingStranded, Holders, KeyOf, TypeOK
  <2> QED BY <1>2, <2>1, <2>2 DEF NothingStranded, At
<1>10. ASSUME NEW S \in SUBSET Attempts, Crash(S) PROVE NothingStranded'
  <2>1. /\ \A b \in Attempts \ S : attempt'[b] = attempt[b]
        /\ UNCHANGED <<limiter, key, effects>> /\ stranded \subseteq stranded'
        /\ \A b \in S : attempt[b].at \in Claimed => attempt[b].key \in stranded'
        /\ (\E b \in S : attempt[b].at = "expire") => Counter \in stranded'
    BY <1>10 DEF Crash, At, KeyOf, TypeOK
  <2>2. \A k \in key' : Holders(k)' # {} \/ committed'[k] > 0 \/ k \in stranded'
    BY <2>1 DEF NothingStranded, Holders, KeyOf, effects
  <2> QED BY <1>2, <2>1, <2>2 DEF NothingStranded, limiter, At
<1>11. CASE WindowEnds
  BY <1>11 DEF WindowEnds, NothingStranded, Holders, KeyOf, effects
<1> QED
  BY <1>1, <1>5, <1>6, <1>7, <1>8, <1>9, <1>10, <1>11 DEF Next, Handler, CallRaises

-----------------------------------------------------------------------------
(* The theorems.                                                           *)

LEMMA AlwaysIInv == Spec => [](IInv /\ NothingStranded)
<1>1. IInv /\ NothingStranded /\ [Next]_vars => (IInv /\ NothingStranded)'
  BY TypeStep, HolderStep, EffectStep, StrandedStep DEF IInv
<1> QED
  BY InitCorrect, <1>1, PTL DEF Spec

(* Every variable keeps its type, whatever fails.                          *)
THEOREM TypeCorrect == Spec => []TypeOK
<1>1. IInv /\ NothingStranded => TypeOK
  BY DEF IInv
<1> QED
  BY <1>1, AlwaysIInv, PTL

(* A retried request opens a door at most once and leaves one record, but  *)
(* for a commit that took place and raised (idempotency.py, loans.py).     *)
THEOREM RetriesAreHarmless == Spec => []EffectOnce
<1>1. IInv /\ NothingStranded => EffectOnce
  BY DEF IInv
<1> QED
  BY <1>1, AlwaysIInv, PTL

(* A key or counter without anybody to clear it stems from a failure.      *)
THEOREM StrandedByFailure == Spec => []NothingStranded
<1> QED
  BY AlwaysIInv, PTL

=============================================================================
