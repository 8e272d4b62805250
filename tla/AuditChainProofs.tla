-------------------------- MODULE AuditChainProofs --------------------------
(***************************************************************************)
(* The hash chain over audit_logs: its types, that a log that verifies     *)
(* tells what was told when its rows were written, that a log neither      *)
(* forked nor damaged raises no alarm, and that the size of the batches    *)
(* makes no difference.                                                    *)
(*                                                                         *)
(* The clock gives every row its own place, so the rows of a table stand   *)
(* in exactly one order (OrderExists, OrderExtends); a log that verifies   *)
(* carries in each hash all the events up to its row (HeadTells).          *)
(***************************************************************************)
EXTENDS AuditChain, FiniteSetTheorems, SequenceTheorems, WellFoundedInduction, TLAPS

-----------------------------------------------------------------------------
(* The order of a table                                                    *)

Unique(S) == \A r, s \in S : r.at = s.at => r = s

IsOrder(s, S) ==
    /\ s \in [1..Cardinality(S) -> S]
    /\ \A r \in S : \E i \in 1..Cardinality(S) : s[i] = r
    /\ \A i, j \in 1..Cardinality(S) : i < j => s[i].at < s[j].at

LEMMA Least ==
    ASSUME NEW T \in SUBSET Nat, T # {}
    PROVE  \E n \in T : \A m \in T : n <= m
<1>1. PICK n \in T : \A m \in T : ~(<<m, n>> \in OpToRel(<, Nat))
  BY NatLessThanWellFounded, WFMin
<1>2. \A m \in T : ~(m < n)
  BY <1>1 DEF OpToRel
<1> QED
  BY <1>2

LEMMA OrderGrows ==
    ASSUME NEW S, NEW x, NEW s, IsFiniteSet(S), IsOrder(s, S), x \notin S,
           \A r \in S : r.at < x.at
    PROVE  \E t : IsOrder(t, S \cup {x})
<1> DEFINE c == Cardinality(S)
           t == [i \in 1..c + 1 |-> IF i <= c THEN s[i] ELSE x]
<1>1. c \in Nat /\ Cardinality(S \cup {x}) = c + 1
  BY FS_CardinalityType, FS_AddElement
<1>2. \A i \in 1..c : t[i] = s[i] /\ s[i] \in S
  BY <1>1 DEF IsOrder
<1>3. t[c + 1] = x
  BY <1>1
<1>4. t \in [1..c + 1 -> S \cup {x}]
  <2>1. \A i \in 1..c + 1 : i \in 1..c \/ i = c + 1
    BY <1>1
  <2>2. \A i \in 1..c + 1 : t[i] \in S \cup {x}
    BY <1>2, <1>3, <2>1
  <2> QED
    BY <2>2
<1>5. ASSUME NEW r \in S \cup {x} PROVE \E i \in 1..c + 1 : t[i] = r
  <2>1. CASE r = x
    BY <1>1, <1>3, <2>1
  <2>2. CASE r \in S
    <3>1. PICK i \in 1..c : s[i] = r
      BY <2>2 DEF IsOrder
    <3> QED
      BY <1>1, <1>2, <3>1
  <2> QED
    BY <2>1, <2>2
<1>6. ASSUME NEW i \in 1..c + 1, NEW j \in 1..c + 1, i < j PROVE t[i].at < t[j].at
  <2>1. i \in 1..c
    BY <1>1, <1>6
  <2>2. CASE j = c + 1
    BY <1>2, <1>3, <2>1, <2>2
  <2>3. CASE j # c + 1
    <3>1. j \in 1..c
      BY <1>1, <2>3
    <3> QED
      BY <1>2, <1>6, <2>1, <3>1 DEF IsOrder
  <2> QED
    BY <2>2, <2>3
<1> HIDE DEF t
<1>7. IsOrder(t, S \cup {x})
  BY <1>1, <1>4, <1>5, <1>6 DEF IsOrder
<1> QED
  BY <1>7

(* The rows of a table whose stamps differ can be put in order: one stamp  *)
(* after the other.                                                        *)
LEMMA OrderExists ==
    ASSUME NEW S \in SUBSET Rows, Unique(S)
    PROVE  /\ IsFiniteSet(S) /\ Cardinality(S) \in Nat /\ Cardinality(S) <= MaxRows
           /\ IsOrder(Ordered(S), S)
<1> DEFINE Upto(n) == {r \in S : r.at <= n}
           Good(n) == /\ IsFiniteSet(Upto(n)) /\ Cardinality(Upto(n)) \in 0..n
                      /\ \E s : IsOrder(s, Upto(n))
           T == {n \in Nat : ~Good(n)}
<1>1. \A r \in S : r.at \in 1..MaxRows
  BY DEF Rows
<1>2. MaxRows \in Nat
  BY AuditConstants
<1>3. Good(0)
  <2>1. Upto(0) = {}
    BY <1>1, <1>2
  <2>2. IsFiniteSet({}) /\ Cardinality({}) = 0
    BY FS_EmptySet
  <2>3. IsOrder([i \in 1..0 |-> i], {})
    BY <2>2 DEF IsOrder
  <2> HIDE DEF Upto
  <2>4. \E s : IsOrder(s, Upto(0))
    BY <2>1, <2>3
  <2>5. IsFiniteSet(Upto(0)) /\ Cardinality(Upto(0)) \in 0..0
    BY <2>1, <2>2
  <2> QED
    BY <2>4, <2>5
<1>4. ASSUME NEW n \in Nat, Good(n) PROVE Good(n + 1)
  <2>1. PICK s : IsOrder(s, Upto(n))
    BY <1>4
  <2>2. CASE \E x \in S : x.at = n + 1
    <3>1. PICK x \in S : x.at = n + 1
      BY <2>2
    <3>2. Upto(n + 1) = Upto(n) \cup {x}
      <4>1. \A r \in S : r.at <= n + 1 <=> r.at <= n \/ r = x
        BY <1>1, <1>2, <3>1 DEF Unique
      <4> QED
        BY <3>1, <4>1
    <3>3. x \notin Upto(n) /\ \A r \in Upto(n) : r.at < x.at
      BY <1>1, <1>2, <3>1
    <3> HIDE DEF Upto
    <3>4. IsFiniteSet(Upto(n + 1)) /\ Cardinality(Upto(n + 1)) = Cardinality(Upto(n)) + 1
      BY <1>4, <3>2, <3>3, FS_AddElement
    <3>5. \E t : IsOrder(t, Upto(n) \cup {x})
      <4>1. IsFiniteSet(Upto(n))
        BY <1>4
      <4> QED
        BY <2>1, <3>3, <4>1, OrderGrows
    <3>6. \E t : IsOrder(t, Upto(n + 1))
      BY <3>2, <3>5
    <3> QED
      BY <1>4, <3>4, <3>6
  <2>3. CASE ~\E x \in S : x.at = n + 1
    <3>1. Upto(n + 1) = Upto(n)
      BY <1>1, <1>2, <2>3
    <3> HIDE DEF Upto
    <3> QED
      BY <1>4, <3>1
  <2> QED
    BY <2>2, <2>3
<1>5. T = {}
  <2> SUFFICES ASSUME T # {} PROVE FALSE
    OBVIOUS
  <2> HIDE DEF Good
  <2>1. PICK n \in T : \A m \in T : n <= m
    BY Least
  <2>2. n # 0 /\ n \in Nat
    BY <1>3, <2>1
  <2>3. n - 1 \in Nat /\ n - 1 \notin T
    BY <2>1, <2>2
  <2>4. Good((n - 1) + 1)
    BY <1>4, <2>3
  <2> QED
    BY <2>1, <2>2, <2>4
<1>6. Upto(MaxRows) = S
  BY <1>1, <1>2
<1>7. Good(MaxRows)
  <2> HIDE DEF Good
  <2> QED
    BY <1>2, <1>5
<1> HIDE DEF Upto
<1>8. PICK s : IsOrder(s, S)
  BY <1>6, <1>7
<1>9. IsOrder(Ordered(S), S)
  <2> DEFINE P(u) == /\ \A r \in S : \E i \in DOMAIN u : u[i] = r
                     /\ \A i, j \in DOMAIN u : i < j => u[i].at < u[j].at
  <2>1. s \in [1..Cardinality(S) -> S] /\ P(s)
    BY <1>8 DEF IsOrder
  <2>2. Ordered(S) = CHOOSE u \in [1..Cardinality(S) -> S] : P(u)
    BY DEF Ordered
  <2>3. Ordered(S) \in [1..Cardinality(S) -> S] /\ P(Ordered(S))
    <3> HIDE DEF P
    <3> QED
      BY <2>1, <2>2
  <2> QED
    BY <2>3 DEF IsOrder
<1> QED
  BY <1>6, <1>7, <1>9

(* What is appended comes after: the rows that were there keep their       *)
(* places.                                                                 *)
LEMMA OrderExtends ==
    ASSUME NEW S \in SUBSET Rows, NEW L \in SUBSET Rows, S \subseteq L, Unique(L),
           \A r \in S, l \in L \ S : r.at < l.at
    PROVE  /\ Cardinality(S) <= Cardinality(L)
           /\ \A i \in 1..Cardinality(S) : Ordered(L)[i] = Ordered(S)[i]
<1> DEFINE s == Ordered(S)
           l == Ordered(L)
           m == Cardinality(S)
           n == Cardinality(L)
           T == {i \in 1..m : l[i] # s[i]}
<1>0. Unique(S)
  BY DEF Unique
<1>1. m \in Nat /\ n \in Nat /\ IsOrder(s, S) /\ IsOrder(l, L) /\ IsFiniteSet(L)
  BY <1>0, OrderExists
<1>2. m <= n
  BY <1>1, FS_Subset
<1> HIDE DEF s, l, m, n
<1>3. ASSUME T # {} PROVE FALSE
  <2>0. T \in SUBSET Nat
    BY <1>1
  <2>1. PICK i \in T : \A j \in T : i <= j
    <3> HIDE DEF T
    <3> QED
      BY <1>3, <2>0, Least
  <2>2. i \in 1..m /\ i \in 1..n /\ s[i] \in S /\ l[i] \in L
    BY <1>1, <1>2, <2>1 DEF IsOrder, m, n
  <2>3. \A j \in 1..m : j < i => l[j] = s[j]
    BY <1>1, <2>1, <2>2
  <2>4. PICK k \in 1..n : l[k] = s[i]
    BY <1>1, <2>2 DEF IsOrder, n
  <2>5. \A r \in L : r.at \in Nat
    BY AuditConstants DEF Rows
  <2>6. ~(k < i)
    <3> SUFFICES ASSUME k < i PROVE FALSE
      OBVIOUS
    <3>1. k \in 1..m /\ l[k] = s[k] /\ s[k] \in S
      BY <1>1, <2>2, <2>3 DEF IsOrder, m
    <3>2. s[k].at < s[i].at
      BY <1>1, <2>2, <3>1 DEF IsOrder, m
    <3> QED
      BY <2>2, <2>4, <2>5, <3>1, <3>2
  <2>7. i < k
    BY <1>1, <2>1, <2>2, <2>4, <2>6
  <2>8. l[i].at < s[i].at
    BY <1>1, <2>2, <2>4, <2>7 DEF IsOrder, n
  <2>9. l[i] \in S
    BY <2>2, <2>5, <2>8
  <2>10. PICK j \in 1..m : s[j] = l[i]
    BY <1>1, <2>9 DEF IsOrder, m
  <2>11. j < i
    <3> SUFFICES ASSUME ~(j < i) PROVE FALSE
      OBVIOUS
    <3>1. s[i] = s[j] \/ s[i].at < s[j].at
      BY <1>1, <2>2 DEF IsOrder, m
    <3> QED
      BY <2>2, <2>5, <2>8, <2>9, <2>10, <3>1
  <2>12. l[j] = l[i] /\ l[j].at < l[i].at
    BY <1>1, <1>2, <2>2, <2>3, <2>10, <2>11 DEF IsOrder, n
  <2> QED
    BY <2>2, <2>5, <2>12
<1> QED
  BY <1>2, <1>3 DEF s, l, m, n

(* The one row more, at the end.                                           *)
LEMMA OrderAppends ==
    ASSUME NEW S \in SUBSET Rows, NEW x \in Rows, Unique(S), \A r \in S : r.at < x.at
    PROVE  /\ Unique(S \cup {x}) /\ Cardinality(S \cup {x}) = Cardinality(S) + 1
           /\ \A i \in 1..Cardinality(S) : Ordered(S \cup {x})[i] = Ordered(S)[i]
           /\ Ordered(S \cup {x})[Cardinality(S) + 1] = x
<1> DEFINE L == S \cup {x}
           m == Cardinality(S)
<1>1. \A r \in L : r.at \in Nat
  BY AuditConstants DEF Rows
<1>2. x \notin S /\ Unique(L) /\ L \in SUBSET Rows /\ \A r \in S, l \in L \ S : r.at < l.at
  BY <1>1 DEF Unique
<1>3. IsFiniteSet(S) /\ m \in Nat /\ Cardinality(L) = m + 1 /\ IsOrder(Ordered(S), S)
  BY <1>2, OrderExists, FS_AddElement
<1>4. IsOrder(Ordered(L), L)
  BY <1>2, OrderExists
<1>5. \A i \in 1..m : Ordered(L)[i] = Ordered(S)[i]
  BY <1>2, OrderExtends
<1> HIDE DEF L
<1>6. PICK k \in 1..m + 1 : Ordered(L)[k] = x
  BY <1>3, <1>4 DEF IsOrder, L
<1>7. k \notin 1..m
  BY <1>2, <1>3, <1>5, <1>6 DEF IsOrder
<1>8. k = m + 1
  BY <1>3, <1>6, <1>7
<1> QED
  BY <1>2, <1>3, <1>5, <1>6, <1>8 DEF L

(* The head of a table is the last of its rows.                            *)
LEMMA HeadIsLast ==
    ASSUME NEW S \in SUBSET Rows, Unique(S)
    PROVE  HeadOf(S) = IF Cardinality(S) = 0 THEN Genesis ELSE Ordered(S)[Cardinality(S)].current
<1> DEFINE n == Cardinality(S)
           l == Ordered(S)
<1>1. IsFiniteSet(S) /\ n \in Nat /\ IsOrder(l, S)
  BY OrderExists
<1>2. n = 0 <=> S = {}
  BY <1>1, FS_EmptySet
<1>3. ASSUME n # 0 PROVE LastOf(S) = l[n]
  <2>1. n \in 1..n /\ l[n] \in S
    BY <1>1, <1>3 DEF IsOrder
  <2>2. \A r \in S : r.at \in Nat
    BY AuditConstants DEF Rows
  <2>3. \A r \in S : r.at <= l[n].at
    <3> SUFFICES ASSUME NEW r \in S PROVE r.at <= l[n].at
      OBVIOUS
    <3>1. PICK i \in 1..n : l[i] = r
      BY <1>1 DEF IsOrder
    <3>2. i = n \/ l[i].at < l[n].at
      BY <1>1, <2>1, <3>1 DEF IsOrder
    <3> QED
      BY <2>1, <2>2, <3>1, <3>2
  <2>4. \A r \in S : (\A q \in S : q.at <= r.at) => r = l[n]
    BY <2>1, <2>2, <2>3 DEF Unique
  <2> HIDE DEF l, n
  <2> QED
    BY <2>1, <2>3, <2>4 DEF LastOf
<1> QED
  BY <1>2, <1>3 DEF HeadOf

-----------------------------------------------------------------------------
(* The chain, row by row                                                   *)

Link(l, i) ==
    /\ l[i].previous = IF i = 1 THEN Genesis ELSE l[i - 1].current
    /\ l[i].current = Hash(l[i].previous, l[i].payload)

Chained(S) == \A i \in 1..Cardinality(S) : Link(Ordered(S), i)

(* What the next row names is what the walk expects of it.                 *)
LEMMA ChainGrows ==
    ASSUME NEW S \in SUBSET Rows, NEW x \in Rows, Unique(S), \A r \in S : r.at < x.at,
           Chained(S), x.previous = HeadOf(S), x.current = Hash(x.previous, x.payload)
    PROVE  Chained(S \cup {x})
<1> DEFINE m == Cardinality(S)
           l == Ordered(S)
           k == Ordered(S \cup {x})
<1>1. m \in Nat /\ Cardinality(S \cup {x}) = m + 1
  BY OrderExists, OrderAppends
<1>2. (\A i \in 1..m : k[i] = l[i]) /\ k[m + 1] = x
  BY OrderAppends
<1>3. HeadOf(S) = IF m = 0 THEN Genesis ELSE l[m].current
  BY HeadIsLast
<1> HIDE DEF m, l, k
<1> SUFFICES ASSUME NEW i \in 1..m + 1 PROVE Link(k, i)
  BY <1>1 DEF Chained, k
<1>4. CASE i \in 1..m
  <2>1. Link(l, i)
    BY <1>4 DEF Chained, m, l
  <2>2. i # 1 => i - 1 \in 1..m
    BY <1>1, <1>4
  <2> QED
    BY <1>2, <1>4, <2>1, <2>2 DEF Link
<1>5. CASE i = m + 1
  <2>1. k[i] = x
    BY <1>2, <1>5
  <2>2. CASE m = 0
    BY <1>3, <1>5, <2>1, <2>2 DEF Link
  <2>3. CASE m # 0
    <3>1. i # 1 /\ i - 1 = m /\ m \in 1..m
      BY <1>1, <1>5, <2>3
    <3>2. k[i - 1].current = HeadOf(S)
      BY <1>2, <1>3, <2>3, <3>1
    <3> QED
      BY <2>1, <3>1, <3>2 DEF Link
  <2> QED
    BY <2>2, <2>3
<1> QED
  BY <1>1, <1>4, <1>5

(* A chained table tells its events by the hash of its last row alone.     *)
LEMMA HeadTells ==
    ASSUME NEW S \in SUBSET Rows, Unique(S), Chained(S)
    PROVE  HeadOf(S) = Told(S)
<1> DEFINE n == Cardinality(S)
           l == Ordered(S)
           Story(i) == [j \in 1..i |-> l[j].payload]
           Tells(i) == i \in 1..n => l[i].current = Story(i)
           T == {i \in Nat : ~Tells(i)}
<1>1. n \in Nat /\ \A i \in 1..n : l[i] \in S
  BY OrderExists DEF IsOrder
<1>2. \A r \in S : r.payload \in Payloads /\ r.current \in Seq(Payloads)
  BY DEF Rows, Hashes
<1> HIDE DEF n, l
<1>3. \A i \in 1..n : Link(l, i)
  BY DEF Chained, n, l
<1>4. \A i \in 0..n : Story(i) \in Seq(Payloads) /\ Len(Story(i)) = i
  BY <1>1, <1>2
<1>5. ASSUME NEW i \in 0..n - 1 PROVE Story(i + 1) = Append(Story(i), l[i + 1].payload)
  <2> DEFINE p == l[i + 1].payload
  <2>1. Story(i) \in Seq(Payloads) /\ Len(Story(i)) = i /\ p \in Payloads
    BY <1>1, <1>2, <1>4
  <2>2. Append(Story(i), p) \in Seq(Payloads) /\ Len(Append(Story(i), p)) = i + 1
    BY <2>1
  <2>3. \A j \in 1..i + 1 : Append(Story(i), p)[j] = Story(i + 1)[j]
    BY <2>1
  <2>4. Story(i + 1) \in Seq(Payloads) /\ Len(Story(i + 1)) = i + 1
    BY <1>1, <1>4
  <2> QED
    BY <2>2, <2>3, <2>4, SeqEqual
<1>6. Story(0) = <<>>
  OBVIOUS
<1> HIDE DEF Story
<1>7. T = {}
  <2> SUFFICES ASSUME T # {} PROVE FALSE
    OBVIOUS
  <2>1. PICK i \in T : \A j \in T : i <= j
    BY Least
  <2>2. i \in 1..n /\ l[i].current # Story(i)
    BY <2>1
  <2>3. Story(i) = Append(Story(i - 1), l[i].payload)
    <3>1. i - 1 \in 0..n - 1 /\ (i - 1) + 1 = i
      BY <1>1, <2>2
    <3> QED
      BY <1>5, <3>1
  <2>4. l[i].previous = Story(i - 1)
    <3>1. CASE i = 1
      BY <1>3, <1>6, <2>2, <3>1 DEF Link, Genesis
    <3>2. CASE i # 1
      <4>1. i - 1 \in 1..n /\ i - 1 \notin T
        BY <1>1, <2>1, <2>2, <3>2
      <4> QED
        BY <1>3, <2>2, <3>2, <4>1 DEF Link
    <3> QED
      BY <3>1, <3>2
  <2> QED
    BY <1>3, <2>2, <2>3, <2>4 DEF Link, Hash
<1>8. HeadOf(S) = Story(n)
  <2>1. HeadOf(S) = IF n = 0 THEN Genesis ELSE l[n].current
    BY HeadIsLast DEF n, l
  <2>2. CASE n = 0
    BY <1>6, <2>1, <2>2 DEF Genesis
  <2>3. CASE n # 0
    <3>1. n \in 1..n /\ n \notin T
      BY <1>1, <1>7, <2>3
    <3> QED
      BY <2>1, <2>3, <3>1
  <2> QED
    BY <2>2, <2>3
<1> QED
  BY <1>8 DEF Story, Told, n, l

-----------------------------------------------------------------------------
(* The walk over a batch                                                   *)

LEMMA OrderIsSeq ==
    ASSUME NEW S \in SUBSET Rows, Unique(S)
    PROVE  /\ Ordered(S) \in Seq(S) /\ Len(Ordered(S)) = Cardinality(S)
           /\ DOMAIN Ordered(S) = 1..Cardinality(S)
           /\ \A i \in 1..Cardinality(S) : Ordered(S)[i] \in Rows
<1>1. Cardinality(S) \in Nat /\ Ordered(S) \in [1..Cardinality(S) -> S]
  BY OrderExists DEF IsOrder
<1> QED
  BY <1>1

LEMMA BatchRows ==
    ASSUME NEW S \in SUBSET Rows, Unique(S), NEW skip \in Nat, NEW limit \in Nat
    PROVE  LET n == Cardinality(S)
               top == IF skip + limit > n THEN n ELSE skip + limit
               b == Batch(Ordered(S), skip, limit)
           IN  /\ b \in Seq(Rows) /\ Len(b) = IF skip < top THEN top - skip ELSE 0
               /\ \A i \in 1..Len(b) : b[i] = Ordered(S)[skip + i]
<1> DEFINE n == Cardinality(S)
           l == Ordered(S)
           top == IF skip + limit > n THEN n ELSE skip + limit
           b == Batch(Ordered(S), skip, limit)
<1>1. n \in Nat /\ Len(l) = n /\ \A i \in 1..n : l[i] \in Rows
  BY OrderExists, OrderIsSeq
<1> HIDE DEF n, l
<1>2. b = SubSeq(l, skip + 1, top)
  BY <1>1 DEF Batch, l
<1>3. top \in Nat /\ top <= n
  BY <1>1
<1> HIDE DEF top, b
<1>4. \A i \in skip + 1..top : l[i] \in Rows
  BY <1>1, <1>3
<1>5. /\ b \in Seq(Rows) /\ Len(b) = IF skip + 1 <= top THEN top - (skip + 1) + 1 ELSE 0
      /\ \A i \in 1..top - (skip + 1) + 1 : b[i] = l[skip + 1 + i - 1]
  BY <1>2, <1>3, <1>4, SubSeqProperties
<1>6. Len(b) = IF skip < top THEN top - skip ELSE 0
  BY <1>3, <1>5
<1>7. ASSUME NEW i \in 1..Len(b) PROVE b[i] = l[skip + i]
  <2>1. i \in 1..top - (skip + 1) + 1 /\ skip + 1 + i - 1 = skip + i
    BY <1>3, <1>6
  <2> QED
    BY <1>5, <2>1
<1> QED
  BY <1>5, <1>6, <1>7 DEF n, l, top, b

LEMMA WalkIs ==
    ASSUME NEW b \in Seq(Rows), NEW running
    PROVE  Continuous(b, running) <=>
               \A i \in 1..Len(b) :
                   /\ b[i].previous = IF i = 1 THEN running ELSE b[i - 1].current
                   /\ b[i].current = Hash(b[i].previous, b[i].payload)
<1>1. DOMAIN b = 1..Len(b)
  OBVIOUS
<1> QED
  BY <1>1 DEF Continuous

(* A batch that starts behind the first row is linked to the row before.   *)
LEMMA BatchLinks ==
    ASSUME NEW l, NEW b \in Seq(Rows), NEW skip \in Nat,
           \A i \in 1..Len(b) : b[i] = l[skip + i]
    PROVE  Continuous(b, IF skip = 0 THEN Genesis ELSE l[skip].current) <=>
               \A i \in 1..Len(b) : Link(l, skip + i)
<1> DEFINE running == IF skip = 0 THEN Genesis ELSE l[skip].current
<1>1. ASSUME NEW i \in 1..Len(b)
      PROVE  (IF i = 1 THEN running ELSE b[i - 1].current)
             = (IF skip + i = 1 THEN Genesis ELSE l[skip + i - 1].current)
  <2>0. Len(b) \in Nat
    OBVIOUS
  <2>1. CASE i = 1
    BY <2>1
  <2>2. CASE i # 1
    <3>1. i - 1 \in 1..Len(b) /\ skip + (i - 1) = skip + i - 1 /\ skip + i # 1
      BY <2>0, <2>2
    <3> QED
      BY <2>2, <3>1
  <2> QED
    BY <2>1, <2>2
<1> HIDE DEF running
<1> DEFINE Step(i) == /\ b[i].previous = IF i = 1 THEN running ELSE b[i - 1].current
                      /\ b[i].current = Hash(b[i].previous, b[i].payload)
<1>a. \A i \in 1..Len(b) : Step(i) <=> Link(l, skip + i)
  BY <1>1 DEF Link
<1>b. Continuous(b, running) <=> \A i \in 1..Len(b) : Step(i)
  BY WalkIs
<1> HIDE DEF Step
<1>2. Continuous(b, running) <=> \A i \in 1..Len(b) : Link(l, skip + i)
  BY <1>a, <1>b
<1> QED
  BY <1>2 DEF running

(* What a request over the rows from skip to skip + limit answers.         *)
LEMMA ValidIs ==
    ASSUME NEW S \in SUBSET Rows, Unique(S), NEW skip \in Nat, NEW limit \in Nat
    PROVE  IsValid(Ordered(S), skip, limit) <=>
               \A i \in 1..Cardinality(S) : skip < i /\ i <= skip + limit => Link(Ordered(S), i)
<1> DEFINE n == Cardinality(S)
           l == Ordered(S)
           b == Batch(l, skip, limit)
           top == IF skip + limit > n THEN n ELSE skip + limit
           running == IF skip = 0 THEN Genesis ELSE l[skip].current
<1>1. n \in Nat /\ DOMAIN l = 1..n /\ \A i \in 1..n : l[i] \in Rows
  BY OrderExists, OrderIsSeq
<1>2. /\ b \in Seq(Rows) /\ Len(b) = IF skip < top THEN top - skip ELSE 0
      /\ \A i \in 1..Len(b) : b[i] = l[skip + i]
  BY BatchRows
<1>3. IsValid(l, skip, limit) <=>
          (b # <<>> => Predecessor(l, skip) # None /\ Continuous(b, Predecessor(l, skip)))
  BY DEF IsValid
<1> HIDE DEF l, n, b
<1>4. CASE b = <<>>
  <2>1. ~(skip < top)
    BY <1>1, <1>2, <1>4
  <2>2. \A i \in 1..n : ~(skip < i /\ i <= skip + limit)
    BY <1>1, <2>1
  <2> QED
    BY <1>3, <1>4, <2>2 DEF l, n
<1>5. CASE b # <<>>
  <2>1. skip < top /\ Len(b) = top - skip
    <3>1. Len(b) # 0
      BY <1>2, <1>5, EmptySeq
    <3> QED
      BY <1>2, <3>1
  <2>2. Predecessor(l, skip) = running /\ running # None
    <3>1. CASE skip = 0
      <4>1. <<>> # None
        BY AuditConstants, EmptySeq DEF Hashes
      <4>2. running = <<>> /\ Predecessor(l, skip) = <<>>
        BY <3>1 DEF Predecessor, Genesis
      <4> QED
        BY <4>1, <4>2
    <3>2. CASE skip # 0
      <4>1. skip \in 1..n
        BY <1>1, <2>1, <3>2
      <4>2. l[skip].current \in Hashes
        BY <1>1, <4>1 DEF Rows
      <4> QED
        BY <1>1, <3>2, <4>1, <4>2, AuditConstants DEF Predecessor
    <3> QED
      BY <3>1, <3>2
  <2>3. IsValid(l, skip, limit) <=> \A i \in 1..Len(b) : Link(l, skip + i)
    BY <1>2, <1>3, <1>5, <2>2, BatchLinks
  <2>4. ASSUME \A i \in 1..Len(b) : Link(l, skip + i)
        PROVE  \A i \in 1..n : skip < i /\ i <= skip + limit => Link(l, i)
    <3> SUFFICES ASSUME NEW i \in 1..n, skip < i, i <= skip + limit PROVE Link(l, i)
      OBVIOUS
    <3>1. i - skip \in 1..Len(b) /\ skip + (i - skip) = i
      BY <1>1, <2>1
    <3>2. Link(l, skip + (i - skip))
      BY <2>4, <3>1
    <3> QED
      BY <3>1, <3>2
  <2>5. ASSUME \A i \in 1..n : skip < i /\ i <= skip + limit => Link(l, i), NEW i \in 1..Len(b)
        PROVE  Link(l, skip + i)
    <3>1. skip + i \in 1..n /\ skip < skip + i /\ skip + i <= skip + limit
      BY <1>1, <2>1
    <3> QED
      BY <2>5, <3>1
  <2> QED
    BY <2>3, <2>4, <2>5 DEF l, n
<1> QED
  BY <1>4, <1>5

LEMMA WholeIsChained ==
    ASSUME NEW S \in SUBSET Rows, Unique(S)
    PROVE  IsValid(Ordered(S), 0, MaxRows) <=> Chained(S)
<1>1. Cardinality(S) \in Nat /\ Cardinality(S) <= MaxRows /\ MaxRows \in Nat
  BY OrderExists, AuditConstants
<1>2. \A i \in 1..Cardinality(S) : 0 < i /\ i <= 0 + MaxRows
  BY <1>1
<1> QED
  BY <1>1, <1>2, ValidIs DEF Chained

LEMMA DivMod ==
    ASSUME NEW b \in Nat \ {0}, NEW m \in Nat
    PROVE  m = b * (m \div b) + (m % b) /\ m % b \in 0..b - 1 /\ m \div b \in Nat
OBVIOUS

LEMMA ModAdds ==
    ASSUME NEW b \in Nat \ {0}, NEW m \in Nat
    PROVE  (m + b) % b = m % b
<1> DEFINE q == m \div b
           r == m % b
           p == (m + b) \div b
           t == (m + b) % b
<1>1. m = b * q + r /\ r \in 0..b - 1 /\ q \in Nat
  BY DivMod
<1>2. m + b = b * p + t /\ t \in 0..b - 1 /\ p \in Nat
  BY m + b \in Nat, DivMod
<1> HIDE DEF q, r, p, t
<1>3. b * (p - q - 1) = r - t
  BY <1>1, <1>2
<1>4. p - q - 1 = 0
  BY <1>1, <1>2, <1>3
<1> QED
  BY <1>1, <1>2, <1>3, <1>4 DEF r, t

(* Every place lies in a batch.                                            *)
LEMMA Multiple ==
    ASSUME NEW limit \in Nat \ {0}, NEW n \in Nat
    PROVE  \E m \in 0..n : m % limit = 0 /\ n < m + limit
<1> DEFINE Good(k) == \E m \in 0..k : m % limit = 0 /\ k < m + limit
           T == {k \in Nat : ~Good(k)}
<1>1. T = {}
  <2> SUFFICES ASSUME T # {} PROVE FALSE
    OBVIOUS
  <2> HIDE DEF Good
  <2>1. PICK k \in T : \A j \in T : k <= j
    BY Least
  <2>2. CASE k < limit
    <3>1. 0 % limit = 0
      OBVIOUS
    <3> QED
      BY <2>1, <2>2, <3>1 DEF Good
  <2>3. CASE ~(k < limit)
    <3>1. k - limit \in Nat /\ k - limit < k
      BY <2>1, <2>3
    <3>2. Good(k - limit)
      BY <2>1, <3>1
    <3>3. PICK m \in 0..k - limit : m % limit = 0 /\ k - limit < m + limit
      BY <3>2 DEF Good
    <3>a. m \in Nat
      BY <3>1, <3>3
    <3>4. (m + limit) % limit = m % limit
      BY <3>a, ModAdds
    <3>5. m + limit \in 0..k /\ k < (m + limit) + limit
      BY <2>1, <3>1, <3>3
    <3> QED
      BY <2>1, <3>3, <3>4, <3>5 DEF Good
  <2> QED
    BY <2>2, <2>3
<1>2. Good(n)
  BY <1>1
<1> QED
  BY <1>2

(* Walking a table in batches of one size is walking it at once.           *)
LEMMA BatchesWhole ==
    ASSUME NEW S \in SUBSET Rows, Unique(S), NEW limit \in 1..MaxRows
    PROVE  IsValid(Ordered(S), 0, MaxRows) <=>
               \A skip \in {n \in 0..MaxRows : n % limit = 0} : IsValid(Ordered(S), skip, limit)
<1> DEFINE n == Cardinality(S)
           l == Ordered(S)
<1>1. n \in Nat /\ n <= MaxRows /\ MaxRows \in Nat /\ limit \in Nat \ {0}
  BY OrderExists, AuditConstants
<1>2. ASSUME Chained(S), NEW skip \in 0..MaxRows PROVE IsValid(l, skip, limit)
  BY <1>1, <1>2, ValidIs DEF Chained
<1>3. ASSUME \A skip \in {k \in 0..MaxRows : k % limit = 0} : IsValid(l, skip, limit)
      PROVE  Chained(S)
  <2> SUFFICES ASSUME NEW i \in 1..n PROVE Link(l, i)
    BY DEF Chained
  <2>0. i - 1 \in Nat
    BY <1>1
  <2>1. PICK m \in 0..i - 1 : m % limit = 0 /\ i - 1 < m + limit
    BY <1>1, <2>0, Multiple
  <2>2. m \in {k \in 0..MaxRows : k % limit = 0} /\ m \in Nat
    BY <1>1, <2>1
  <2>3. IsValid(l, m, limit)
    BY <1>3, <2>2
  <2>4. m < i /\ i <= m + limit
    BY <1>1, <2>1, <2>2
  <2> QED
    BY <1>1, <2>2, <2>3, <2>4, ValidIs
<1> QED
  BY <1>2, <1>3, WholeIsChained

-----------------------------------------------------------------------------
(* The invariant                                                           *)

Held(t) == {f.row : f \in tx[t].flushed}

Active(t) == tx[t].adding # None \/ tx[t].flushed # {}

(* A transaction that no other has overtaken.                              *)
Current(t) == Active(t) /\ tx[t].known = Cardinality(written)

(* The clock has stamped each row once, in the table, in a transaction, or *)
(* in what was ever committed.                                             *)
StampInv ==
    /\ Unique(rows)
    /\ \A r \in rows : r.at <= clock
    /\ \A w \in written : w.row.at <= clock
    /\ \A t \in Writers :
           /\ Unique(Held(t))
           /\ \A h \in Held(t) :
                  /\ h.at <= clock
                  /\ \A r \in rows : r.at # h.at
                  /\ \A w \in written : w.row.at # h.at
           /\ \A u \in Writers \ {t} : \A h \in Held(t), g \in Held(u) : h.at # g.at

(* A row names the head of what its transaction saw.                       *)
Built(e) ==
    /\ Unique(e.before) /\ \A r \in e.before : r.at < e.row.at
    /\ e.row.previous = HeadOf(e.before)
    /\ e.row.current = Hash(e.row.previous, e.row.payload)

BuiltInv ==
    /\ \A w \in written : Built(w)
    /\ \A t \in Writers :
           /\ \A f \in tx[t].flushed : Built(f)
           /\ Unique(tx[t].seen) /\ \A r \in tx[t].seen : r.at <= clock
           /\ tx[t].adding # None => tx[t].adding.previous = HeadOf(tx[t].seen)

CountInv ==
    /\ IsFiniteSet(written)
    /\ \A t \in Writers : /\ IsFiniteSet(tx[t].flushed)
                          /\ Active(t) => tx[t].known <= Cardinality(written)

(* A batch that is being verified stands where it stood.                   *)
Placed(i) ==
    /\ verify.skip + i <= Cardinality(rows)
    /\ Ordered(rows)[verify.skip + i] = verify.batch[i]

BatchInv ==
    /\ verify # NoVerification => verify.batch # <<>>
    /\ ~forked /\ damage = 0 => \A i \in 1..Len(verify.batch) : Placed(i)

(* While nothing is forked or damaged the table is a chain, and so is what *)
(* a transaction sees that no other has overtaken.                         *)
Follows(t) ==
    /\ Chained(Visible(t))
    /\ \A r \in rows, h \in Held(t) : r.at < h.at
    /\ tx[t].adding # None => tx[t].seen = Visible(t)

ChainInv ==
    ~forked /\ damage = 0 =>
        /\ ~alarmed
        /\ Chained(rows)
        /\ \A t \in Writers : Current(t) => Follows(t)

IInv == TypeOK /\ StampInv /\ BuiltInv /\ CountInv /\ BatchInv /\ ChainInv

TxRows == [adding: Events \cup {None}, seen: SUBSET Rows, known: Nat, flushed: SUBSET Entries]

LEMMA RowStamps == MaxRows \in Nat /\ \A r \in Rows : r.at \in 1..MaxRows /\ r.at \in Nat
BY AuditConstants DEF Rows

LEMMA TxFields ==
    ASSUME TypeOK, NEW t \in Writers
    PROVE  /\ tx[t] \in TxRows
           /\ tx[t].adding \in Events \cup {None} /\ tx[t].seen \in SUBSET Rows
           /\ tx[t].known \in Nat /\ tx[t].flushed \in SUBSET Entries
           /\ Held(t) \in SUBSET Rows
BY DEF TypeOK, TxRows, Held, Entries

LEMMA Sees ==
    ASSUME TypeOK, StampInv, NEW t \in Writers
    PROVE  /\ Visible(t) = rows \cup Held(t)
           /\ Visible(t) \in SUBSET Rows /\ Unique(Visible(t))
           /\ \A r \in Visible(t) : r.at <= clock
           /\ HeadOf(Visible(t)) \in Hashes
<1>1. Visible(t) = rows \cup Held(t)
  BY DEF Visible, Held
<1>2. Visible(t) \in SUBSET Rows /\ \A r \in Visible(t) : r.at <= clock
  BY <1>1, TxFields DEF TypeOK, StampInv
<1>3. Unique(Visible(t))
  BY <1>1 DEF StampInv, Unique
<1> DEFINE S == Visible(t)
<1> HIDE DEF S
<1>4. S \in SUBSET Rows /\ Unique(S)
  BY <1>2, <1>3 DEF S
<1>5. HeadOf(S) \in Hashes
  <2> DEFINE n == Cardinality(S)
  <2>1. n \in Nat /\ IsOrder(Ordered(S), S)
    BY <1>4, OrderExists
  <2>2. n # 0 => Ordered(S)[n].current \in Hashes
    BY <1>4, <2>1 DEF IsOrder, Rows
  <2>3. Genesis \in Hashes
    BY EmptySeq DEF Genesis, Hashes
  <2> QED
    BY <1>4, <2>2, <2>3, HeadIsLast
<1> QED
  BY <1>1, <1>2, <1>3, <1>5 DEF S

LEMMA BatchFrame ==
    ASSUME BatchInv, UNCHANGED <<rows, verify, forked, damage>>
    PROVE  BatchInv'
BY DEF BatchInv, Placed

LEMMA InitInv == Init => IInv
<1> SUFFICES ASSUME Init PROVE IInv
  OBVIOUS
<1>1. /\ rows = {} /\ written = {} /\ clock = 0 /\ verify = NoVerification
      /\ forked = FALSE /\ damage = 0 /\ alarmed = FALSE
  BY DEF Init
<1>2. ASSUME NEW t \in Writers
      PROVE  /\ tx[t].adding = None /\ tx[t].seen = {} /\ tx[t].known = 0 /\ tx[t].flushed = {}
             /\ tx[t] \in TxRows /\ Held(t) = {}
  BY DEF Init, Idle, TxRows, Held
<1>3. TypeOK
  <2>1. tx \in [Writers -> TxRows]
    BY <1>2 DEF Init
  <2>2. verify \in [skip: 0..MaxRows, batch: Seq(Rows)]
    BY <1>1, AuditConstants, EmptySeq DEF NoVerification
  <2>3. rows \subseteq Rows /\ written \subseteq Entries
    BY <1>1
  <2>4. clock \in 0..MaxRows /\ damage \in 0..MaxDamage
    BY <1>1, AuditConstants
  <2> QED
    BY <1>1, <1>2, <2>1, <2>2, <2>3, <2>4 DEF TypeOK, TxRows
<1>4. StampInv
  BY <1>1, <1>2 DEF StampInv, Unique
<1>5. BuiltInv
  BY <1>1, <1>2 DEF BuiltInv, Unique
<1>6. CountInv
  BY <1>1, <1>2, FS_EmptySet DEF CountInv, Active
<1>7. Len(verify.batch) = 0 /\ BatchInv
  <2>1. Len(verify.batch) = 0
    BY <1>1 DEF NoVerification
  <2> QED
    BY <1>1, <2>1 DEF BatchInv
<1>8. ChainInv
  <2>1. Chained(rows)
    BY <1>1, FS_EmptySet DEF Chained
  <2> QED
    BY <1>1, <1>2, <2>1 DEF ChainInv, Current, Active
<1> QED
  BY <1>3, <1>4, <1>5, <1>6, <1>7, <1>8 DEF IInv

-----------------------------------------------------------------------------
(* Steps of the transactions                                               *)

LEMMA LogInv ==
    ASSUME IInv, NEW t \in Writers, NEW p \in Payloads, LogAuditEvent(t, p)
    PROVE  IInv'
<1> DEFINE new == [previous |-> HeadOf(Visible(t)), payload |-> p]
<1>0. /\ TypeOK /\ StampInv /\ BuiltInv /\ CountInv /\ BatchInv /\ ChainInv
      /\ UNCHANGED <<rows, clock, verify, written, forked, damage, alarmed>>
  BY DEF IInv, LogAuditEvent
<1>1. /\ tx'[t].adding = new /\ tx'[t].seen = Visible(t) /\ tx'[t].known = FirstKnown(t)
      /\ tx'[t].flushed = tx[t].flushed
      /\ \A u \in Writers \ {t} : tx'[u] = tx[u]
      /\ tx' = [tx EXCEPT ![t] = [tx[t] EXCEPT !.seen = Visible(t), !.known = FirstKnown(t),
                                               !.adding = new]]
  <2> DEFINE r == [tx[t] EXCEPT !.seen = Visible(t), !.known = FirstKnown(t), !.adding = new]
  <2>1. tx \in [Writers -> TxRows] /\ tx[t] \in TxRows
    BY <1>0 DEF TypeOK, TxRows
  <2>2. tx' = [tx EXCEPT ![t] = r]
    BY <2>1 DEF LogAuditEvent
  <2>3. /\ r.adding = new /\ r.seen = Visible(t) /\ r.known = FirstKnown(t)
        /\ r.flushed = tx[t].flushed
    BY <2>1 DEF TxRows
  <2> HIDE DEF r
  <2>4. tx'[t] = r /\ \A u \in Writers \ {t} : tx'[u] = tx[u]
    BY <2>1, <2>2
  <2> QED
    BY <2>2, <2>3, <2>4 DEF r
<1>2. new \in Events /\ new # None
  BY <1>0, Sees, AuditConstants DEF Events
<1>3. Cardinality(written) \in Nat /\ FirstKnown(t) \in Nat
  BY <1>0, TxFields, FS_CardinalityType DEF CountInv, FirstKnown
<1> HIDE DEF new
<1>4. TypeOK'
  <2>1. tx' \in [Writers -> TxRows]
    <3>1. [tx[t] EXCEPT !.seen = Visible(t), !.known = FirstKnown(t), !.adding = new] \in TxRows
      BY <1>0, <1>2, <1>3, Sees, TxFields DEF TxRows
    <3>2. tx \in [Writers -> TxRows]
      BY <1>0 DEF TypeOK, TxRows
    <3> QED
      BY <1>1, <3>1, <3>2
  <2>2. \A u \in Writers : tx'[u].adding = None => tx'[u].seen = {}
    BY <1>0, <1>1, <1>2 DEF TypeOK
  <2> QED
    BY <1>0, <2>1, <2>2 DEF TypeOK, TxRows
<1>5. \A u \in Writers : tx'[u].flushed = tx[u].flushed /\ Held(u)' = Held(u) /\ Visible(u)' = Visible(u)
  BY <1>0, <1>1 DEF Held, Visible
<1>6. StampInv'
  BY <1>0, <1>5 DEF StampInv
<1>7. BuiltInv'
  <2>1. \A u \in Writers : /\ Unique(tx'[u].seen) /\ \A r \in tx'[u].seen : r.at <= clock
                           /\ tx'[u].adding # None => tx'[u].adding.previous = HeadOf(tx'[u].seen)
    <3> TAKE u \in Writers
    <3>1. CASE u = t
      BY <1>0, <1>1, <3>1, Sees DEF new
    <3>2. CASE u # t
      BY <1>0, <1>1, <3>2 DEF BuiltInv
    <3> QED
      BY <3>1, <3>2
  <2> QED
    BY <1>0, <1>5, <2>1 DEF BuiltInv
<1>8. CountInv'
  BY <1>0, <1>1, <1>3, <1>5 DEF CountInv, Active, FirstKnown
<1>9. ChainInv'
  <2> SUFFICES ASSUME ~forked, damage = 0, NEW u \in Writers, Current(u)' PROVE Follows(u)'
    BY <1>0 DEF ChainInv
  <2>1. CASE u # t
    <3>1. Follows(u)
      BY <1>0, <1>1, <1>5, <2>1 DEF ChainInv, Current, Active
    <3> QED
      BY <1>0, <1>1, <1>5, <2>1, <3>1 DEF Follows
  <2>2. CASE u = t
    <3>1. Chained(Visible(t)) /\ \A r \in rows, h \in Held(t) : r.at < h.at
      <4>1. CASE tx[t].flushed = {}
        BY <1>0, <4>1 DEF ChainInv, Visible, Held
      <4>2. CASE tx[t].flushed # {}
        <5>1. Current(t)
          BY <1>0, <1>1, <2>2, <4>2 DEF Current, Active, FirstKnown
        <5> QED
          BY <1>0, <5>1 DEF ChainInv, Follows
      <4> QED
        BY <4>1, <4>2
    <3> QED
      BY <1>0, <1>1, <1>5, <2>2, <3>1 DEF Follows
  <2> QED
    BY <2>1, <2>2
<1> QED
  BY <1>0, <1>4, <1>6, <1>7, <1>8, <1>9, BatchFrame DEF IInv

(* The row gets a stamp that no row has yet.                               *)
LEMMA FlushInv ==
    ASSUME IInv, NEW t \in Writers, Flush(t)
    PROVE  IInv'
<1> DEFINE new == tx[t].adding
           row == [at |-> clock + 1, previous |-> new.previous, payload |-> new.payload,
                   current |-> Hash(new.previous, new.payload)]
           entry == [row |-> row, before |-> tx[t].seen]
<1>0. /\ TypeOK /\ StampInv /\ BuiltInv /\ CountInv /\ BatchInv /\ ChainInv
      /\ new # None /\ clock < MaxRows /\ clock' = clock + 1 /\ clock \in Nat
      /\ UNCHANGED <<rows, verify, written, forked, damage, alarmed>>
  BY AuditConstants DEF IInv, Flush, TypeOK
<1>1. new \in Events /\ tx[t].seen \in SUBSET Rows
  BY <1>0, TxFields
<1>2. row \in Rows
  <2>1. Hash(new.previous, new.payload) \in Hashes
    BY <1>1 DEF Hash, Hashes, Events
  <2>2. clock + 1 \in 1..MaxRows
    BY <1>0, AuditConstants
  <2> QED
    BY <1>1, <2>1, <2>2 DEF Events, Rows
<1>3. entry \in Entries
  BY <1>1, <1>2 DEF Entries
<1>4. /\ row.at = clock + 1 /\ row.previous = new.previous
      /\ row.current = Hash(row.previous, row.payload)
      /\ entry.row = row /\ entry.before = tx[t].seen
  OBVIOUS
<1>5. tx' = [tx EXCEPT ![t] = [adding |-> None, seen |-> {}, known |-> tx[t].known,
                               flushed |-> tx[t].flushed \cup {entry}]]
  BY <1>0 DEF Flush
<1> HIDE DEF new, row, entry
<1>6. /\ tx'[t].adding = None /\ tx'[t].seen = {} /\ tx'[t].known = tx[t].known
      /\ tx'[t].flushed = tx[t].flushed \cup {entry}
      /\ \A u \in Writers \ {t} : tx'[u] = tx[u]
  BY <1>0, <1>5 DEF TypeOK
<1>7. TypeOK'
  <2>1. tx' \in [Writers -> TxRows]
    <3>1. [adding |-> None, seen |-> {}, known |-> tx[t].known,
           flushed |-> tx[t].flushed \cup {entry}] \in TxRows
      BY <1>0, <1>3, TxFields DEF TxRows
    <3>2. tx \in [Writers -> TxRows]
      BY <1>0 DEF TypeOK, TxRows
    <3> QED
      BY <1>5, <3>1, <3>2
  <2>2. \A u \in Writers : tx'[u].adding = None => tx'[u].seen = {}
    BY <1>0, <1>6 DEF TypeOK
  <2>3. clock' \in 0..MaxRows
    BY <1>0, AuditConstants
  <2> QED
    BY <1>0, <2>1, <2>2, <2>3 DEF TypeOK, TxRows
<1>8. /\ Held(t)' = Held(t) \cup {row} /\ Visible(t)' = Visible(t) \cup {row}
      /\ \A u \in Writers \ {t} : Held(u)' = Held(u) /\ Visible(u)' = Visible(u)
  BY <1>0, <1>4, <1>6 DEF Held, Visible
<1>9. StampInv'
  <2>1. \A r \in Rows : r.at <= clock => r.at # row.at /\ r.at <= clock'
    BY <1>0, <1>4, RowStamps
  <2>2. rows \subseteq Rows /\ (\A w \in written : w.row \in Rows) /\ \A u \in Writers : Held(u) \subseteq Rows
    BY <1>0, TxFields DEF TypeOK, Entries
  <2>3. /\ Unique(rows') /\ (\A r \in rows' : r.at <= clock')
        /\ \A w \in written' : w.row.at <= clock'
    BY <1>0, <2>1, <2>2 DEF StampInv
  <2>4. \A u \in Writers : \A h \in Held(u) :
            h.at # row.at /\ h.at <= clock'
    BY <1>0, <2>1, <2>2 DEF StampInv
  <2>5. \A u \in Writers : Unique(Held(u)')
    <3> TAKE u \in Writers
    <3>1. CASE u = t
      BY <1>0, <1>8, <2>4, <3>1 DEF StampInv, Unique
    <3>2. CASE u # t
      BY <1>0, <1>8, <3>2 DEF StampInv
    <3> QED
      BY <3>1, <3>2
  <2>6. ASSUME NEW u \in Writers, NEW h \in Held(u)'
        PROVE  /\ h.at <= clock' /\ \A r \in rows' : r.at # h.at
               /\ \A w \in written' : w.row.at # h.at
    <3>1. CASE h \in Held(u)
      BY <1>0, <2>4, <3>1 DEF StampInv
    <3>2. CASE h = row
      <4>1. h.at <= clock'
        BY <1>0, <1>4, <3>2
      <4>2. \A r \in rows : r.at # row.at
        BY <1>0, <2>1, <2>2 DEF StampInv
      <4>3. \A w \in written : w.row.at # row.at
        BY <1>0, <2>1, <2>2 DEF StampInv
      <4> QED
        BY <1>0, <3>2, <4>1, <4>2, <4>3
    <3> QED
      BY <1>8, <2>6, <3>1, <3>2
  <2>7. ASSUME NEW u \in Writers, NEW v \in Writers \ {u}, NEW h \in Held(u)', NEW g \in Held(v)'
        PROVE  h.at # g.at
    <3>1. (h \in Held(u) \/ (u = t /\ h = row)) /\ (g \in Held(v) \/ (v = t /\ g = row))
      BY <1>8, <2>7
    <3> QED
      BY <1>0, <2>4, <3>1 DEF StampInv
  <2> QED
    BY <2>3, <2>5, <2>6, <2>7 DEF StampInv
<1>10. BuiltInv'
  <2>1. Built(entry)
    <3>1. Unique(tx[t].seen) /\ (\A r \in tx[t].seen : r.at < row.at)
      BY <1>0, <1>1, <1>4, RowStamps DEF BuiltInv
    <3>2. row.previous = HeadOf(tx[t].seen)
      BY <1>0, <1>4 DEF BuiltInv, new
    <3> QED
      BY <1>4, <3>1, <3>2 DEF Built
  <2>2. \A u \in Writers : \A f \in tx'[u].flushed : Built(f)
    BY <1>0, <1>6, <2>1 DEF BuiltInv
  <2>3. \A u \in Writers : /\ Unique(tx'[u].seen) /\ \A r \in tx'[u].seen : r.at <= clock'
                           /\ tx'[u].adding # None => tx'[u].adding.previous = HeadOf(tx'[u].seen)
    <3> TAKE u \in Writers
    <3>1. CASE u = t
      BY <1>6, <3>1 DEF Unique
    <3>2. CASE u # t
      <4>1. \A r \in tx[u].seen : r.at <= clock /\ r.at \in Nat
        BY <1>0, TxFields, RowStamps DEF BuiltInv
      <4>2. \A r \in tx[u].seen : r.at <= clock'
        BY <1>0, <4>1
      <4> QED
        BY <1>0, <1>6, <3>2, <4>2 DEF BuiltInv
    <3> QED
      BY <3>1, <3>2
  <2> QED
    BY <1>0, <2>2, <2>3 DEF BuiltInv
<1>11. CountInv'
  <2>1. IsFiniteSet(tx[t].flushed \cup {entry})
    BY <1>0, FS_AddElement DEF CountInv
  <2>2. tx[t].known <= Cardinality(written)
    BY <1>0 DEF CountInv, Active, new
  <2> QED
    BY <1>0, <1>6, <2>1, <2>2 DEF CountInv, Active
<1>12. ChainInv'
  <2> SUFFICES ASSUME ~forked, damage = 0, NEW u \in Writers, Current(u)' PROVE Follows(u)'
    BY <1>0 DEF ChainInv
  <2>1. CASE u # t
    <3>1. Follows(u)
      BY <1>0, <1>6, <2>1 DEF ChainInv, Current, Active
    <3> QED
      BY <1>0, <1>6, <1>8, <2>1, <3>1 DEF Follows
  <2>2. CASE u = t
    <3>1. Current(t)
      BY <1>0, <1>6, <2>2 DEF Current, Active, new
    <3>2. Follows(t)
      BY <1>0, <3>1 DEF ChainInv
    <3> DEFINE S == Visible(t)
    <3>3. S \in SUBSET Rows /\ Unique(S) /\ \A r \in S : r.at < row.at
      BY <1>0, <1>4, Sees, RowStamps
    <3>4. row.previous = HeadOf(S)
      BY <1>0, <1>4, <3>2 DEF BuiltInv, Follows, new
    <3>5. Chained(S)
      BY <3>2 DEF Follows
    <3> HIDE DEF S
    <3>6. Chained(S \cup {row})
      BY <1>2, <1>4, <3>3, <3>4, <3>5, ChainGrows
    <3>7. \A r \in rows : r.at < row.at
      BY <1>0, <1>4, RowStamps DEF StampInv, TypeOK
    <3>8. \A r \in rows, h \in Held(t)' : r.at < h.at
      BY <1>8, <3>2, <3>7 DEF Follows
    <3> QED
      BY <1>0, <1>6, <1>8, <2>2, <3>6, <3>8 DEF Follows, S
  <2> QED
    BY <2>1, <2>2
<1> QED
  BY <1>0, <1>7, <1>9, <1>10, <1>11, <1>12, BatchFrame DEF IInv

LEMMA RollbackInv ==
    ASSUME IInv, NEW t \in Writers, Rollback(t)
    PROVE  IInv'
<1>0. /\ TypeOK /\ StampInv /\ BuiltInv /\ CountInv /\ BatchInv /\ ChainInv
      /\ tx' = [tx EXCEPT ![t] = Idle]
      /\ UNCHANGED <<rows, clock, verify, written, forked, damage, alarmed>>
  BY DEF IInv, Rollback
<1>1. /\ tx'[t] = Idle /\ \A u \in Writers \ {t} : tx'[u] = tx[u]
      /\ tx \in [Writers -> TxRows]
  BY <1>0 DEF TypeOK, TxRows
<1>2. /\ Idle.adding = None /\ Idle.seen = {} /\ Idle.known = 0 /\ Idle.flushed = {}
      /\ Idle \in TxRows
  BY DEF Idle, TxRows
<1>3. TypeOK'
  <2>1. tx' \in [Writers -> TxRows]
    BY <1>0, <1>1, <1>2
  <2>2. \A u \in Writers : tx'[u].adding = None => tx'[u].seen = {}
    BY <1>0, <1>1, <1>2 DEF TypeOK
  <2> QED
    BY <1>0, <2>1, <2>2 DEF TypeOK, TxRows
<1>4. /\ Held(t)' = {} /\ ~Active(t)'
      /\ \A u \in Writers \ {t} : Held(u)' = Held(u) /\ Visible(u)' = Visible(u)
  BY <1>0, <1>1, <1>2 DEF Held, Visible, Active
<1>5. StampInv'
  <2>1. \A u \in Writers : Held(u)' \subseteq Held(u)
    BY <1>4
  <2> QED
    BY <1>0, <2>1 DEF StampInv, Unique
<1>6. BuiltInv'
  <2>1. \A u \in Writers : \/ tx'[u] = tx[u]
                           \/ tx'[u].flushed = {} /\ tx'[u].seen = {} /\ tx'[u].adding = None
    BY <1>1, <1>2
  <2> QED
    BY <1>0, <2>1 DEF BuiltInv, Unique
<1>7. CountInv'
  BY <1>0, <1>1, <1>2, FS_EmptySet DEF CountInv, Active
<1>8. ChainInv'
  <2> SUFFICES ASSUME ~forked, damage = 0, NEW u \in Writers, Current(u)' PROVE Follows(u)'
    BY <1>0 DEF ChainInv
  <2>1. u # t
    BY <1>4 DEF Current
  <2>2. Follows(u)
    BY <1>0, <1>1, <2>1 DEF ChainInv, Current, Active
  <2> QED
    BY <1>0, <1>1, <1>4, <2>1, <2>2 DEF Follows
<1> QED
  BY <1>0, <1>3, <1>5, <1>6, <1>7, <1>8, BatchFrame DEF IInv

(* The rows of a transaction that nobody has overtaken come last.          *)
LEMMA CommitInv ==
    ASSUME IInv, NEW t \in Writers, Commit(t)
    PROVE  IInv'
<1> DEFINE new == tx[t].flushed
           S == rows
           L == Visible(t)
<1>0. /\ TypeOK /\ StampInv /\ BuiltInv /\ CountInv /\ BatchInv /\ ChainInv
      /\ tx' = [tx EXCEPT ![t] = Idle] /\ new # {}
      /\ rows' = L /\ written' = written \cup new
      /\ forked' = (forked \/ tx[t].known # Cardinality(written))
      /\ UNCHANGED <<clock, verify, damage, alarmed>>
  BY DEF IInv, Commit
<1>1. /\ tx'[t] = Idle /\ \A u \in Writers \ {t} : tx'[u] = tx[u]
      /\ tx \in [Writers -> TxRows]
  BY <1>0 DEF TypeOK, TxRows
<1>2. /\ Idle.adding = None /\ Idle.seen = {} /\ Idle.known = 0 /\ Idle.flushed = {}
      /\ Idle \in TxRows
  BY DEF Idle, TxRows
<1>3. L = rows \cup Held(t) /\ L \in SUBSET Rows /\ Unique(L) /\ \A r \in L : r.at <= clock
  BY <1>0, Sees
<1>4. /\ Held(t)' = {} /\ ~Active(t)' /\ \A u \in Writers \ {t} : Held(u)' = Held(u)
  BY <1>0, <1>1, <1>2 DEF Held, Active
<1>5. new \in SUBSET Entries /\ \A f \in new : f.row \in Held(t)
  BY <1>0, TxFields DEF Held
<1>6. TypeOK'
  <2>1. tx' \in [Writers -> TxRows]
    BY <1>0, <1>1, <1>2
  <2>2. \A u \in Writers : tx'[u].adding = None => tx'[u].seen = {}
    BY <1>0, <1>1, <1>2 DEF TypeOK
  <2>3. rows' \subseteq Rows /\ written' \subseteq Entries /\ forked' \in BOOLEAN
    BY <1>0, <1>3, <1>5 DEF TypeOK
  <2> QED
    BY <1>0, <2>1, <2>2, <2>3 DEF TypeOK, TxRows
<1>7. StampInv'
  <2>1. /\ Unique(rows') /\ (\A r \in rows' : r.at <= clock')
        /\ \A w \in written' : w.row.at <= clock'
    BY <1>0, <1>3, <1>5 DEF StampInv
  <2>2. ASSUME NEW u \in Writers, NEW h \in Held(u)'
        PROVE  /\ h.at <= clock' /\ \A r \in rows' : r.at # h.at
               /\ \A w \in written' : w.row.at # h.at
    <3>1. u # t /\ h \in Held(u)
      BY <1>4, <2>2
    <3>2. \A g \in Held(t) : g.at # h.at
      BY <1>0, <3>1 DEF StampInv
    <3>3. /\ h.at <= clock /\ \A r \in rows : r.at # h.at
          /\ \A w \in written : w.row.at # h.at
      BY <1>0, <3>1 DEF StampInv
    <3> QED
      BY <1>0, <1>3, <1>5, <3>2, <3>3
  <2>3. \A u \in Writers : Held(u)' \subseteq Held(u)
    BY <1>4
  <2> QED
    BY <1>0, <2>1, <2>2, <2>3 DEF StampInv, Unique
<1>8. BuiltInv'
  <2>1. \A u \in Writers : \/ tx'[u] = tx[u]
                           \/ tx'[u].flushed = {} /\ tx'[u].seen = {} /\ tx'[u].adding = None
    BY <1>1, <1>2
  <2>2. \A w \in written' : Built(w)
    BY <1>0 DEF BuiltInv
  <2> QED
    BY <1>0, <2>1, <2>2 DEF BuiltInv, Unique
<1>9. /\ IsFiniteSet(written') /\ Cardinality(written) \in Nat
      /\ Cardinality(written') \in Nat /\ Cardinality(written) < Cardinality(written')
  <2>1. IsFiniteSet(written) /\ IsFiniteSet(new)
    BY <1>0 DEF CountInv
  <2>2. written \cap new = {}
    BY <1>0, <1>5 DEF StampInv
  <2>3. Cardinality(new) \in Nat /\ Cardinality(new) # 0
    BY <1>0, <2>1, FS_CardinalityType, FS_EmptySet
  <2>4. Cardinality(written) \in Nat
    BY <2>1, FS_CardinalityType
  <2>5. /\ IsFiniteSet(written \cup new)
        /\ Cardinality(written \cup new) = Cardinality(written) + Cardinality(new) - Cardinality({})
    BY <2>1, <2>2, FS_Union
  <2>6. Cardinality({}) = 0
    BY FS_EmptySet
  <2> QED
    BY <1>0, <2>3, <2>4, <2>5, <2>6
<1>10. CountInv'
  <2>1. \A u \in Writers : Active(u)' => tx'[u].known <= Cardinality(written')
    <3> SUFFICES ASSUME NEW u \in Writers, Active(u)' PROVE tx'[u].known <= Cardinality(written')
      OBVIOUS
    <3>1. u # t /\ tx'[u] = tx[u] /\ Active(u) /\ tx[u].known \in Nat
      BY <1>0, <1>1, <1>4, TxFields DEF Active
    <3>2. tx[u].known <= Cardinality(written)
      BY <1>0, <3>1 DEF CountInv
    <3> QED
      BY <1>9, <3>1, <3>2
  <2>2. \A u \in Writers : IsFiniteSet(tx'[u].flushed)
    BY <1>0, <1>1, <1>2, FS_EmptySet DEF CountInv
  <2> QED
    BY <1>9, <2>1, <2>2 DEF CountInv
<1>11. ASSUME ~forked', damage' = 0
       PROVE  ~forked /\ damage = 0 /\ Follows(t)
  <2>1. ~forked /\ damage = 0 /\ Current(t)
    BY <1>0, <1>11 DEF Current, Active
  <2> QED
    BY <1>0, <2>1 DEF ChainInv
<1>12. BatchInv'
  <2> SUFFICES ASSUME ~forked', damage' = 0, NEW i \in 1..Len(verify.batch) PROVE Placed(i)'
    BY <1>0 DEF BatchInv
  <2>1. Placed(i)
    BY <1>0, <1>11 DEF BatchInv
  <2>2. \A r \in S, l \in L \ S : r.at < l.at
    BY <1>3, <1>11 DEF Follows
  <2>3. S \in SUBSET Rows /\ S \subseteq L
    BY <1>0, <1>3 DEF TypeOK
  <2>4. Cardinality(S) \in Nat /\ Cardinality(L) \in Nat
    BY <1>0, <1>3, <2>3, OrderExists DEF StampInv
  <2>5. /\ Cardinality(S) <= Cardinality(L)
        /\ \A j \in 1..Cardinality(S) : Ordered(L)[j] = Ordered(S)[j]
    BY <1>3, <2>2, <2>3, OrderExtends
  <2>6. verify.skip \in Nat /\ Len(verify.batch) \in Nat
    BY <1>0 DEF TypeOK
  <2>7. verify.skip + i \in 1..Cardinality(S)
    BY <2>1, <2>4, <2>6 DEF Placed
  <2> HIDE DEF L
  <2> QED
    BY <1>0, <2>1, <2>4, <2>5, <2>6, <2>7 DEF Placed
<1>13. ChainInv'
  <2> SUFFICES ASSUME ~forked', damage' = 0
               PROVE  /\ ~alarmed' /\ Chained(rows')
                      /\ \A u \in Writers : ~Current(u)'
    BY DEF ChainInv
  <2>1. ~alarmed /\ Chained(L)
    BY <1>0, <1>11 DEF ChainInv, Follows
  <2>2. ASSUME NEW u \in Writers, Current(u)' PROVE FALSE
    <3>1. u # t /\ tx'[u] = tx[u]
      BY <1>1, <1>4, <2>2 DEF Current
    <3>2. Active(u) /\ tx[u].known \in Nat
      BY <1>0, <2>2, <3>1, TxFields DEF Current, Active
    <3>3. tx[u].known <= Cardinality(written)
      BY <1>0, <3>2 DEF CountInv
    <3> QED
      BY <1>9, <2>2, <3>1, <3>2, <3>3 DEF Current
  <2> QED
    BY <1>0, <2>1, <2>2
<1> QED
  BY <1>6, <1>7, <1>8, <1>10, <1>12, <1>13 DEF IInv

-----------------------------------------------------------------------------
(* Damage and verification                                                 *)

LEMMA DamagedInv ==
    ASSUME IInv, NEW log \in SUBSET Rows, Unique(log),
           \A r \in log : \E q \in rows : q.at = r.at, Damaged(log)
    PROVE  IInv'
<1>0. /\ TypeOK /\ StampInv /\ BuiltInv /\ CountInv /\ BatchInv
      /\ damage < MaxDamage /\ damage' = damage + 1 /\ rows' = log
      /\ UNCHANGED <<tx, clock, verify, written, forked, alarmed>>
  BY DEF IInv, Damaged
<1>1. damage' \in 0..MaxDamage /\ damage' # 0
  BY <1>0, AuditConstants DEF TypeOK
<1>2. TypeOK'
  BY <1>0, <1>1 DEF TypeOK
<1>3. \A u \in Writers : Held(u)' = Held(u) /\ (Active(u)' <=> Active(u))
  BY <1>0 DEF Held, Active
<1>4. StampInv'
  <2>1. \A r \in rows' : r.at <= clock'
    BY <1>0 DEF StampInv
  <2>2. \A u \in Writers : \A h \in Held(u) : \A r \in rows' : r.at # h.at
    BY <1>0 DEF StampInv
  <2> QED
    BY <1>0, <1>3, <2>1, <2>2 DEF StampInv
<1>5. BuiltInv' /\ CountInv'
  BY <1>0, <1>3 DEF BuiltInv, CountInv
<1>6. BatchInv' /\ ChainInv'
  BY <1>0, <1>1 DEF BatchInv, ChainInv
<1> QED
  BY <1>2, <1>4, <1>5, <1>6 DEF IInv

(* A row altered in its place.                                             *)
LEMMA AlteredRow ==
    ASSUME TypeOK, StampInv, NEW r \in rows, NEW x \in Rows, x.at = r.at
    PROVE  LET log == (rows \ {r}) \cup {x}
           IN  /\ log \in SUBSET Rows /\ Unique(log)
               /\ \A s \in log : \E q \in rows : q.at = s.at
<1>1. \A q \in rows \ {r} : q.at # x.at
  BY DEF StampInv, Unique
<1> QED
  BY <1>1 DEF TypeOK, StampInv, Unique

LEMMA DamageInv ==
    ASSUME IInv, NEW r \in rows, NEW p \in Payloads, Altered(r, p) \/ Rewritten(r, p) \/ Lost(r)
    PROVE  IInv'
<1>0. TypeOK /\ StampInv /\ r \in Rows
  BY DEF IInv, TypeOK
<1>1. CASE Altered(r, p)
  <2> DEFINE x == [r EXCEPT !.payload = p]
  <2>1. x \in Rows /\ x.at = r.at
    BY <1>0 DEF Rows
  <2>2. Damaged((rows \ {r}) \cup {x})
    BY <1>1 DEF Altered
  <2> HIDE DEF x
  <2> QED
    BY <1>0, <2>1, <2>2, AlteredRow, DamagedInv
<1>2. CASE Rewritten(r, p)
  <2> DEFINE x == [r EXCEPT !.payload = p, !.current = Hash(r.previous, p)]
  <2>1. x \in Rows /\ x.at = r.at
    <3>1. Hash(r.previous, p) \in Hashes
      BY <1>0 DEF Rows, Hash, Hashes
    <3> QED
      BY <1>0, <3>1 DEF Rows
  <2>2. Damaged((rows \ {r}) \cup {x})
    BY <1>2 DEF Rewritten
  <2> HIDE DEF x
  <2> QED
    BY <1>0, <2>1, <2>2, AlteredRow, DamagedInv
<1>3. CASE Lost(r)
  <2>1. /\ rows \ {r} \in SUBSET Rows /\ Unique(rows \ {r})
        /\ \A s \in rows \ {r} : \E q \in rows : q.at = s.at
    BY <1>0 DEF TypeOK, StampInv, Unique
  <2> QED
    BY <1>3, <2>1, DamagedInv DEF Lost
<1> QED
  BY <1>1, <1>2, <1>3

(* Of a step that touches neither the table nor a transaction.             *)
LEMMA VerifyFrame ==
    ASSUME IInv, UNCHANGED <<rows, tx, clock, written, forked, damage>>
    PROVE  /\ StampInv' /\ BuiltInv' /\ CountInv'
           /\ (~forked /\ damage = 0 => ~alarmed') => ChainInv'
<1>1. \A u \in Writers : /\ Held(u)' = Held(u) /\ Visible(u)' = Visible(u)
                         /\ Active(u)' <=> Active(u)
                         /\ Current(u)' <=> Current(u)
  BY DEF Held, Visible, Active, Current
<1>2. \A u \in Writers : Follows(u)' <=> Follows(u)
  BY <1>1 DEF Follows
<1>3. StampInv' /\ BuiltInv' /\ CountInv'
  BY <1>1 DEF IInv, StampInv, BuiltInv, CountInv
<1> QED
  BY <1>1, <1>2, <1>3 DEF IInv, ChainInv

LEMMA VerifyBatchInv ==
    ASSUME IInv, NEW skip \in 0..MaxRows, NEW limit \in 1..MaxRows, VerifyBatch(skip, limit)
    PROVE  IInv'
<1> DEFINE n == Cardinality(rows)
           b == Batch(Ordered(rows), skip, limit)
<1>0. /\ TypeOK /\ StampInv /\ ChainInv
      /\ b # <<>> /\ verify' = [skip |-> skip, batch |-> b]
      /\ UNCHANGED <<rows, tx, clock, written, forked, damage, alarmed>>
  BY DEF IInv, VerifyBatch
<1>1. n \in Nat /\ skip \in Nat /\ limit \in Nat /\ rows \in SUBSET Rows /\ Unique(rows)
  BY <1>0, OrderExists, AuditConstants DEF TypeOK, StampInv
<1>2. /\ b \in Seq(Rows) /\ \A i \in 1..Len(b) : b[i] = Ordered(rows)[skip + i]
      /\ \A i \in 1..Len(b) : skip + i <= n
  <2> DEFINE top == IF skip + limit > n THEN n ELSE skip + limit
  <2>1. /\ b \in Seq(Rows) /\ Len(b) = IF skip < top THEN top - skip ELSE 0
        /\ \A i \in 1..Len(b) : b[i] = Ordered(rows)[skip + i]
    BY <1>1, BatchRows
  <2>2. \A i \in 1..Len(b) : skip + i <= n
    BY <1>1, <2>1
  <2> QED
    BY <2>1, <2>2
<1> HIDE DEF b, n
<1>3. verify'.skip = skip /\ verify'.batch = b
  BY <1>0
<1>4. TypeOK'
  <2>1. verify' \in [skip: 0..MaxRows, batch: Seq(Rows)]
    BY <1>0, <1>2
  <2> QED
    BY <1>0, <2>1 DEF TypeOK
<1>5. BatchInv'
  <2>1. verify'.batch # <<>>
    BY <1>0, <1>3
  <2>2. \A i \in 1..Len(verify'.batch) : Placed(i)'
    BY <1>0, <1>2, <1>3 DEF Placed, n
  <2> QED
    BY <2>1, <2>2 DEF BatchInv
<1> QED
  BY <1>0, <1>4, <1>5, VerifyFrame DEF IInv, ChainInv

(* The row before the batch is where it was when the batch was read.       *)
LEMMA VerifyAnswerInv ==
    ASSUME IInv, VerifyAnswer
    PROVE  IInv'
<1> DEFINE l == Ordered(rows)
           n == Cardinality(rows)
           b == verify.batch
           skip == verify.skip
           running == Predecessor(l, skip)
<1>0. /\ TypeOK /\ StampInv /\ BatchInv /\ ChainInv /\ b # <<>>
      /\ alarmed' = (alarmed \/ running = None \/ ~Continuous(b, running))
      /\ verify' = NoVerification
      /\ UNCHANGED <<rows, tx, clock, written, forked, damage>>
  BY DEF IInv, VerifyAnswer, BatchInv
<1>1. /\ n \in Nat /\ skip \in Nat /\ b \in Seq(Rows) /\ rows \in SUBSET Rows /\ Unique(rows)
      /\ DOMAIN l = 1..n /\ \A i \in 1..n : l[i] \in Rows
  BY <1>0, OrderExists, OrderIsSeq DEF TypeOK, StampInv
<1>2. ASSUME ~forked, damage = 0 PROVE ~alarmed'
  <2>1. ~alarmed /\ Chained(rows) /\ \A i \in 1..Len(b) : Placed(i)
    BY <1>0, <1>2 DEF ChainInv, BatchInv
  <2>2. Len(b) \in Nat \ {0}
    BY <1>0, <1>1, EmptySeq
  <2>3. \A i \in 1..Len(b) : b[i] = l[skip + i] /\ skip + i \in 1..n
    BY <1>1, <2>1, <2>2 DEF Placed
  <2>4. \A i \in 1..Len(b) : Link(l, skip + i)
    BY <2>1, <2>3 DEF Chained
  <2>5. running = (IF skip = 0 THEN Genesis ELSE l[skip].current) /\ running # None
    <3>1. CASE skip = 0
      <4>1. <<>> # None
        BY AuditConstants, EmptySeq DEF Hashes
      <4> QED
        BY <3>1, <4>1 DEF Predecessor, Genesis
    <3>2. CASE skip # 0
      <4>1. skip + 1 \in 1..n
        BY <2>2, <2>3
      <4>2. skip \in 1..n
        BY <1>1, <3>2, <4>1
      <4>3. l[skip].current \in Hashes
        BY <1>1, <4>2 DEF Rows
      <4> QED
        BY <1>1, <3>2, <4>2, <4>3, AuditConstants DEF Predecessor
    <3> QED
      BY <3>1, <3>2
  <2> HIDE DEF l, b, skip, running
  <2>6. Continuous(b, running)
    BY <1>1, <2>3, <2>4, <2>5, BatchLinks
  <2> QED
    BY <1>0, <2>1, <2>5, <2>6
<1>3. TypeOK'
  <2>1. verify' \in [skip: 0..MaxRows, batch: Seq(Rows)]
    BY <1>0, AuditConstants, EmptySeq DEF NoVerification
  <2>2. alarmed' \in BOOLEAN
    BY <1>0 DEF TypeOK
  <2> QED
    BY <1>0, <2>1, <2>2 DEF TypeOK
<1>4. BatchInv'
  <2>1. Len(verify'.batch) = 0
    BY <1>0 DEF NoVerification
  <2> QED
    BY <1>0, <2>1 DEF BatchInv
<1> QED
  BY <1>0, <1>2, <1>3, <1>4, VerifyFrame DEF IInv

LEMMA IInvStays == IInv /\ [Next]_vars => IInv'
<1> SUFFICES ASSUME IInv, [Next]_vars PROVE IInv'
  OBVIOUS
<1>1. CASE \E t \in Writers, p \in Payloads : LogAuditEvent(t, p)
  BY <1>1, LogInv
<1>2. CASE \E t \in Writers : Flush(t) \/ Commit(t) \/ Rollback(t)
  BY <1>2, FlushInv, CommitInv, RollbackInv
<1>3. CASE \E r \in rows, p \in Payloads : Altered(r, p) \/ Rewritten(r, p)
  BY <1>3, DamageInv
<1>4. CASE \E r \in rows : Lost(r)
  <2>1. PICK r \in rows : Lost(r)
    BY <1>4
  <2>2. r.payload \in Payloads
    BY DEF IInv, TypeOK, Rows
  <2> QED
    BY <2>1, <2>2, DamageInv
<1>5. CASE \E skip \in 0..MaxRows, limit \in 1..MaxRows : VerifyBatch(skip, limit)
  BY <1>5, VerifyBatchInv
<1>6. CASE VerifyAnswer
  BY <1>6, VerifyAnswerInv
<1>7. CASE UNCHANGED vars
  <2>1. UNCHANGED <<rows, tx, clock, verify, written, forked, damage, alarmed>>
    BY <1>7 DEF vars
  <2>2. TypeOK'
    BY <2>1 DEF IInv, TypeOK
  <2>3. BatchInv' /\ (~forked /\ damage = 0 => ~alarmed')
    BY <2>1, BatchFrame DEF IInv, ChainInv
  <2> QED
    BY <2>1, <2>2, <2>3, VerifyFrame DEF IInv
<1> QED
  BY <1>1, <1>2, <1>3, <1>4, <1>5, <1>6, <1>7 DEF Next

LEMMA IInvHolds == Spec => []IInv
BY InitInv, IInvStays, PTL DEF Spec

-----------------------------------------------------------------------------
(* The theorems                                                            *)

(* Every row, batch and transaction has its type, whatever is written,     *)
(* altered or lost; the head that log_audit_event reads is a hash because  *)
(* the clock leaves exactly one row last.                                  *)
THEOREM TypeCorrect == Spec => []TypeOK
BY IInvHolds, PTL DEF IInv

(* No verification raises an alarm over a log that was neither forked nor  *)
(* damaged, whatever is appended between its two queries.                  *)
THEOREM OnlyDueAlarms == Spec => []NoFalseAlarm
<1>1. IInv => NoFalseAlarm
  BY DEF IInv, TypeOK, ChainInv, NoFalseAlarm
<1> QED
  BY <1>1, IInvHolds, PTL

(* Contiguous batches of any size say what one request over the log says.  *)
THEOREM SameInBatches == Spec => []BatchesAgree
<1>1. IInv => BatchesAgree
  <2> SUFFICES ASSUME IInv, NEW limit \in 1..MaxRows
               PROVE  WholeLogValid <=> \A skip \in {n \in 0..MaxRows : n % limit = 0} :
                                            IsValid(Ordered(rows), skip, limit)
    BY DEF BatchesAgree
  <2>1. rows \in SUBSET Rows /\ Unique(rows)
    BY DEF IInv, TypeOK, StampInv
  <2> QED
    BY <2>1, BatchesWhole DEF WholeLogValid
<1> QED
  BY <1>1, IInvHolds, PTL

(* What stands before a row of a chained table is told by what it names.   *)
LEMMA Predecessors ==
    ASSUME NEW L \in SUBSET Rows, Unique(L), Chained(L), NEW x \in L
    PROVE  x.previous = Told({r \in L : r.at < x.at})
<1> DEFINE S == {r \in L : r.at < x.at}
           m == Cardinality(S)
           n == Cardinality(L)
           l == Ordered(L)
<1>1. S \in SUBSET Rows /\ S \subseteq L /\ Unique(S) /\ x \notin S
  BY RowStamps DEF Unique
<1>2. \A r \in S, q \in L \ S : r.at < q.at
  BY RowStamps
<1>3. m \in Nat /\ n \in Nat /\ IsOrder(l, L) /\ IsOrder(Ordered(S), S)
  BY <1>1, OrderExists
<1>4. m <= n /\ \A i \in 1..m : l[i] = Ordered(S)[i]
  BY <1>1, <1>2, OrderExtends
<1>5. PICK k \in 1..n : l[k] = x
  BY <1>3 DEF IsOrder
<1>6. ~(k <= m)
  <2> SUFFICES ASSUME k <= m PROVE FALSE
    OBVIOUS
  <2>1. Ordered(S)[k] \in S /\ l[k] = Ordered(S)[k]
    BY <1>3, <1>4, <1>5 DEF IsOrder
  <2> QED
    BY <1>1, <1>5, <2>1
<1>7. ~(m + 1 < k)
  <2> SUFFICES ASSUME m + 1 < k PROVE FALSE
    OBVIOUS
  <2>1. m + 1 \in 1..n /\ l[m + 1].at < x.at /\ l[m + 1] \in L
    BY <1>3, <1>5 DEF IsOrder
  <2>2. l[m + 1] \in S
    BY <2>1
  <2>3. PICK j \in 1..m : l[j] = l[m + 1]
    BY <1>3, <1>4, <2>2 DEF IsOrder
  <2>4. l[j].at < l[m + 1].at
    BY <1>3, <1>4, <2>1 DEF IsOrder
  <2> QED
    BY <2>1, <2>3, <2>4, RowStamps
<1>8. k = m + 1
  BY <1>3, <1>5, <1>6, <1>7
<1>9. Chained(S)
  <2> SUFFICES ASSUME NEW i \in 1..m PROVE Link(Ordered(S), i)
    BY DEF Chained
  <2>1. Link(l, i)
    BY <1>3, <1>4 DEF Chained
  <2>2. i # 1 => i - 1 \in 1..m
    BY <1>3
  <2> QED
    BY <1>4, <2>1, <2>2 DEF Link
<1>10. x.previous = HeadOf(S)
  <2>1. x.previous = IF k = 1 THEN Genesis ELSE l[k - 1].current
    BY <1>5 DEF Chained, Link
  <2>2. HeadOf(S) = IF m = 0 THEN Genesis ELSE Ordered(S)[m].current
    BY <1>1, HeadIsLast
  <2>3. m # 0 => m \in 1..m /\ k - 1 = m
    BY <1>3, <1>8
  <2> HIDE DEF S, m, l
  <2> QED
    BY <1>3, <1>4, <1>8, <2>1, <2>2, <2>3
<1> HIDE DEF S
<1>11. HeadOf(S) = Told(S)
  BY <1>1, <1>9, HeadTells
<1> QED
  BY <1>10, <1>11 DEF S

(* A log that verifies tells, before each row that is as it was written,   *)
(* the very events that stood there then, if they verified then: nothing   *)
(* was lost, put in between or altered, however often the table was, and   *)
(* whether transactions overlapped or not.                                 *)
THEOREM TamperingShows == Spec => []DamageIsNoticed
<1>1. IInv => DamageIsNoticed
  <2> SUFFICES ASSUME IInv, WholeLogValid, NEW w \in written, w.row \in rows,
                      IsValid(Ordered(w.before), 0, MaxRows)
               PROVE  Told({r \in rows : r.at < w.row.at}) = Told(w.before)
    BY DEF DamageIsNoticed
  <2>1. rows \in SUBSET Rows /\ Unique(rows) /\ Built(w)
    BY DEF IInv, TypeOK, StampInv, BuiltInv
  <2>2. w.before \in SUBSET Rows /\ Unique(w.before)
    BY <2>1 DEF IInv, TypeOK, Entries, Built
  <2>3. w.row.previous = Told({r \in rows : r.at < w.row.at})
    BY <2>1, WholeIsChained, Predecessors DEF WholeLogValid
  <2>4. HeadOf(w.before) = Told(w.before)
    BY <2>2, WholeIsChained, HeadTells
  <2> QED
    BY <2>1, <2>3, <2>4 DEF Built
<1> QED
  BY <1>1, IInvHolds, PTL

=============================================================================
