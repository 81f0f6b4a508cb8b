--------------------------- MODULE Indexer_proofs ---------------------------
(***************************************************************************)
(* Proofs about the way from the chain to the platform's books, for every  *)
(* rate, cap, number of logs, tries and failures, every batching of logs   *)
(* and every moment at which reconcile may run.                            *)
(***************************************************************************)
EXTENDS Indexer, StreamFactory_proofs, SequenceTheorems, FiniteSetTheorems,
        WellFoundedInduction

Events == {"StreamCreated", "Deposited", "StreamStarted", "StreamPaused", "StreamResumed",
           "Settled", "StreamCanceled"}

LogRecords ==
  [event : Events, n : Nat, tx : Nat, block : Nat, at : Nat, amount : Nat, total : Nat,
   seconds : Nat, fee : Nat, secondsElapsed : Nat, amountSettled : Nat, amountRefunded : Nat]

-----------------------------------------------------------------------------
(* What a step emits. The contract emits its events in one order, so a     *)
(* step emits each event at most once.                                     *)

Rank ==
  [StreamCreated |-> 1, Deposited |-> 2, StreamStarted |-> 3, StreamPaused |-> 4,
   StreamResumed |-> 5, Settled |-> 6, StreamCanceled |-> 7]

Ranked(s, r) ==
  /\ s \in Seq(LogRecords)
  /\ \A i \in 1 .. Len(s) : Rank[s[i].event] < r
  /\ \A i, j \in 1 .. Len(s) : i < j => Rank[s[i].event] < Rank[s[j].event]

Has(s, l) == \E i \in 1 .. Len(s) : s[i] = l

LEMMA WhenAdds ==
  ASSUME NEW s, NEW r \in Nat, Ranked(s, r),
         NEW c \in BOOLEAN, NEW l, c => l \in LogRecords /\ Rank[l.event] = r
  PROVE  /\ Ranked(s \o When(c, l), r + 1)
         /\ \A x : Has(s \o When(c, l), x) <=> Has(s, x) \/ (c /\ x = l)
  <1> DEFINE t == s \o When(c, l)
  <1>0. s \in Seq(LogRecords) /\ Len(s) \in Nat
    BY LenProperties DEF Ranked
  <1>0a. \A x \in LogRecords : Rank[x.event] \in Nat
    BY DEF LogRecords, Events, Rank
  <1>0b. \A i \in 1 .. Len(s) : s[i] \in LogRecords
    BY <1>0, ElementOfSeq
  <1>1. CASE ~c
    <2>1. When(c, l) = << >>
      BY <1>1 DEF When
    <2>2. t = s
      BY <2>1, <1>0, ConcatEmptySeq
    <2>3. \A i \in 1 .. Len(s) : Rank[s[i].event] < r + 1
      BY <1>0a, <1>0b DEF Ranked
    <2>4. QED
      BY <1>1, <2>2, <2>3 DEF Ranked
  <1>2. CASE c
    <2>1. When(c, l) = <<l>> /\ l \in LogRecords /\ Rank[l.event] = r
      BY <1>2 DEF When
    <2>2. <<l>> \in Seq(LogRecords) /\ Len(<<l>>) = 1 /\ <<l>>[1] = l
      BY <2>1
    <2>3. /\ t \in Seq(LogRecords)
          /\ Len(t) = Len(s) + 1
          /\ \A i \in 1 .. Len(t) : t[i] = IF i <= Len(s) THEN s[i] ELSE l
      <3>1. /\ s \o <<l>> \in Seq(LogRecords)
            /\ Len(s \o <<l>>) = Len(s) + Len(<<l>>)
            /\ \A i \in 1 .. Len(s) + Len(<<l>>) :
                 (s \o <<l>>)[i] = IF i <= Len(s) THEN s[i] ELSE <<l>>[i - Len(s)]
        BY <1>0, <2>2, ConcatProperties
      <3>2. QED
        BY <1>0, <2>1, <2>2, <3>1
    <2> HIDE DEF t
    <2>4. Ranked(t, r + 1)
      <3>1. \A i \in 1 .. Len(s) : Rank[s[i].event] < r
        BY DEF Ranked
      <3>a. Len(s) \in Nat /\ Len(t) = Len(s) + 1
        BY <1>0, <2>3
      <3>b. \A i \in 1 .. Len(s) : i \in 1 .. Len(t) /\ t[i] = s[i]
        BY <2>3, <3>a
      <3>c. t[Len(t)] = l
        BY <2>3, <3>a
      <3>d. \A i \in 1 .. Len(t) : i \in 1 .. Len(s) \/ i = Len(t)
        BY <3>a
      <3>2. ASSUME NEW i \in 1 .. Len(t)
            PROVE  Rank[t[i].event] < r + 1
        <4>1. CASE i \in 1 .. Len(s)
          <5>1. t[i] = s[i] /\ Rank[s[i].event] < r /\ Rank[s[i].event] \in Nat
            BY <4>1, <1>0a, <1>0b, <3>1, <3>b
          <5>2. QED
            BY <5>1
        <4>2. CASE i = Len(t)
          <5>1. Rank[t[i].event] = r
            BY <4>2, <3>c, <2>1
          <5>2. QED
            BY <5>1
        <4>3. QED
          BY <3>d, <4>1, <4>2
      <3>3. ASSUME NEW i \in 1 .. Len(t), NEW j \in 1 .. Len(t), i < j
            PROVE  Rank[t[i].event] < Rank[t[j].event]
        <4>1. i \in 1 .. Len(s)
          BY <3>3, <3>a
        <4>2. t[i] = s[i] /\ Rank[s[i].event] < r
          BY <4>1, <3>b, <3>1
        <4>3. CASE j \in 1 .. Len(s)
          BY <3>3, <4>1, <4>2, <4>3, <3>b DEF Ranked
        <4>4. CASE j = Len(t)
          BY <4>2, <4>4, <3>c, <2>1
        <4>5. QED
          BY <3>d, <4>3, <4>4
      <3>4. QED
        BY <2>3, <3>2, <3>3 DEF Ranked
    <2>5. ASSUME NEW x PROVE Has(t, x) <=> Has(s, x) \/ x = l
      BY <1>0, <2>3 DEF Has
    <2>6. QED
      BY <1>2, <2>4, <2>5 DEF t
  <1>3. QED
    BY <1>1, <1>2

-----------------------------------------------------------------------------
(* The least and the greatest of a bounded set of numbers.                 *)

LEMMA LeastOf ==
  ASSUME NEW S \in SUBSET Nat, S # {}
  PROVE  Min(S) \in S /\ \A y \in S : Min(S) <= y
  <1> DEFINE Below == {0 .. x : x \in S}
             R == StrictSubsetOrdering(Nat)
  <1>1. Below \subseteq FiniteSubsetsOf(Nat) /\ Below # {}
    <2>1. \A x \in S : IsFiniteSet(0 .. x) /\ 0 .. x \subseteq Nat
      BY FS_Interval
    <2>2. QED
      BY <2>1 DEF FiniteSubsetsOf
  <1>2. \E b \in Below : \A c \in Below : ~(<<c, b>> \in R)
    BY <1>1, FS_StrictSubsetOrderingWellFounded, WFMin
  <1>3. PICK x \in S : \A y \in S : ~(<<0 .. y, 0 .. x>> \in R)
    BY <1>2
  <1>4. ASSUME NEW y \in S, ~(x <= y) PROVE FALSE
    <2>1. 0 .. y \subseteq 0 .. x /\ 0 .. y # 0 .. x
      <3>1. x \in Nat /\ y \in Nat /\ y < x
        BY <1>4
      <3>2. x \in 0 .. x /\ x \notin 0 .. y
        BY <3>1
      <3>3. QED
        BY <3>1, <3>2
    <2>2. 0 .. x \in SUBSET Nat /\ 0 .. y \in SUBSET Nat
      OBVIOUS
    <2>3. <<0 .. y, 0 .. x>> \in R
      BY <2>1, <2>2, Zenon DEF StrictSubsetOrdering
    <2>4. QED
      BY <2>3, <1>3
  <1>5. QED
    BY <1>4 DEF Min

LEMMA GreatestOf ==
  ASSUME NEW n \in Nat, NEW S \in SUBSET (0 .. n), S # {}
  PROVE  Max(S) \in S /\ \A y \in S : Max(S) >= y
  <1> DEFINE T == {n - x : x \in S}
  <1>1. T \in SUBSET Nat /\ T # {}
    <2>1. \A x \in S : n - x \in Nat
      OBVIOUS
    <2>2. QED
      BY <2>1
  <1>2. Min(T) \in T /\ \A y \in T : Min(T) <= y
    BY <1>1, LeastOf
  <1>3. PICK x \in S : Min(T) = n - x
    BY <1>2
  <1>4. \A y \in S : n - x <= n - y
    BY <1>2, <1>3
  <1>5. \A y \in S : x >= y
    BY <1>4
  <1>6. QED
    BY <1>5 DEF Max

-----------------------------------------------------------------------------
(* Sums over a sequence, without recursion: x is what the weights w of     *)
(* 1 .. m outside S add up to if some h counts it up step by step, never   *)
(* falls, and only rises over a position outside S.                        *)

Counts(m, w, S, h) ==
  /\ h \in [0 .. m -> Nat]
  /\ h[0] = 0
  /\ \A i \in 1 .. m : h[i] = h[i - 1] + (IF i \in S THEN 0 ELSE w[i])
  /\ \A i, j \in 0 .. m : i <= j => h[i] <= h[j]
  /\ \A i, j \in 0 .. m : h[i] < h[j] => \E k \in 1 .. m : i < k /\ k <= j /\ k \notin S

Pending(m, w, S, x) == \E h : Counts(m, w, S, h) /\ h[m] = x

LEMMA PendingType ==
  ASSUME NEW m \in Nat, NEW w, NEW S, NEW x, Pending(m, w, S, x)
  PROVE  x \in Nat
  BY DEF Pending, Counts

(* Nothing is pending of nothing.                                          *)
LEMMA PendingOfNone ==
  ASSUME NEW w, NEW S
  PROVE  Pending(0, w, S, 0)
  <1> DEFINE h == [i \in 0 .. 0 |-> 0]
  <1>1. Counts(0, w, S, h)
    BY DEF Counts
  <1>2. h[0] = 0
    OBVIOUS
  <1>3. QED
    BY <1>1, <1>2 DEF Pending

(* Nothing is pending once S is everything.                                *)
LEMMA PendingAllDone ==
  ASSUME NEW m \in Nat, NEW w, NEW S, NEW x, Pending(m, w, S, x), 1 .. m \subseteq S
  PROVE  x = 0
  <1>1. PICK h : Counts(m, w, S, h) /\ h[m] = x
    BY DEF Pending
  <1>2. ~(h[0] < h[m])
    BY <1>1 DEF Counts
  <1>3. QED
    BY <1>1, <1>2 DEF Counts

(* A position that joins S takes its weight off.                           *)
LEMMA PendingApplied ==
  ASSUME NEW m \in Nat, NEW w \in [1 .. m -> Nat], NEW S, NEW x, Pending(m, w, S, x),
         NEW n \in 1 .. m, n \notin S
  PROVE  Pending(m, w, S \cup {n}, x - w[n])
  <1>1. PICK h : Counts(m, w, S, h) /\ h[m] = x
    BY DEF Pending
  <1>2. /\ h \in [0 .. m -> Nat] /\ h[0] = 0
        /\ \A i \in 1 .. m : h[i] = h[i - 1] + (IF i \in S THEN 0 ELSE w[i])
        /\ \A i, j \in 0 .. m : i <= j => h[i] <= h[j]
        /\ \A i, j \in 0 .. m : h[i] < h[j] => \E k \in 1 .. m : i < k /\ k <= j /\ k \notin S
    BY <1>1 DEF Counts
  <1>3. /\ n - 1 \in 0 .. m /\ n \in 0 .. m
        /\ w[n] \in Nat /\ h[n] = h[n - 1] + w[n] /\ h[n - 1] \in Nat
    BY <1>2
  <1> DEFINE g == [i \in 0 .. m |-> IF i < n THEN h[i] ELSE h[i] - w[n]]
  <1>4. \A i \in 0 .. m : i >= n => h[i] >= w[n] /\ h[i] >= h[n]
    BY <1>2, <1>3
  <1>5. g \in [0 .. m -> Nat] /\ g[0] = 0
    BY <1>2, <1>3, <1>4
  <1>5a. /\ \A i \in 0 .. m : i < n => g[i] = h[i]
         /\ \A i \in 0 .. m : i >= n => g[i] = h[i] - w[n]
    BY <1>3
  <1> HIDE DEF g
  <1>6. ASSUME NEW i \in 1 .. m
        PROVE  g[i] = g[i - 1] + (IF i \in S \cup {n} THEN 0 ELSE w[i])
    <2>1. i \in 0 .. m /\ i - 1 \in 0 .. m /\ h[i] \in Nat /\ h[i - 1] \in Nat
      BY <1>2
    <2>2. CASE i < n
      <3>0. i \in S \cup {n} <=> i \in S
        BY <2>2
      <3>1. h[i] = h[i - 1] + (IF i \in S \cup {n} THEN 0 ELSE w[i])
        <4>1. h[i] = h[i - 1] + (IF i \in S THEN 0 ELSE w[i])
          BY <1>2
        <4>2. QED
          BY <3>0, <4>1
      <3>2. g[i] = h[i] /\ g[i - 1] = h[i - 1]
        BY <1>5a, <2>1, <2>2
      <3>3. QED
        BY <3>1, <3>2
    <2>3. CASE i = n
      BY <1>3, <1>5a, <2>1, <2>3
    <2>4. CASE i > n
      <3>0. i \in S \cup {n} <=> i \in S
        BY <2>4
      <3>1. h[i] = h[i - 1] + (IF i \in S \cup {n} THEN 0 ELSE w[i])
        <4>1. h[i] = h[i - 1] + (IF i \in S THEN 0 ELSE w[i])
          BY <1>2
        <4>2. QED
          BY <3>0, <4>1
      <3>2. g[i] = h[i] - w[n] /\ g[i - 1] = h[i - 1] - w[n]
        BY <1>5a, <2>1, <2>4
      <3>3. (IF i \in S \cup {n} THEN 0 ELSE w[i]) \in Nat
        OBVIOUS
      <3> DEFINE c == IF i \in S \cup {n} THEN 0 ELSE w[i]
      <3> HIDE DEF c
      <3>4. QED
        BY <3>1, <3>2, <3>3, <1>3, <2>1 DEF c
    <2>5. QED
      BY <2>2, <2>3, <2>4
  <1>7. ASSUME NEW i \in 0 .. m, NEW j \in 0 .. m, i <= j PROVE g[i] <= g[j]
    <2>1. h[i] <= h[j] /\ (i < n => h[i] <= h[n - 1])
      BY <1>2, <1>3, <1>7
    <2>2. h[i] \in Nat /\ h[j] \in Nat
      BY <1>2
    <2>3. CASE j < n
      BY <1>5a, <1>7, <2>1, <2>3
    <2>4. CASE i >= n
      BY <1>3, <1>5a, <1>7, <2>1, <2>2, <2>4
    <2>5. CASE i < n /\ n <= j
      BY <1>3, <1>4, <1>5a, <2>1, <2>2, <2>5
    <2>6. QED
      BY <2>3, <2>4, <2>5
  <1>8. ASSUME NEW i \in 0 .. m, NEW j \in 0 .. m, g[i] < g[j]
        PROVE  \E k \in 1 .. m : i < k /\ k <= j /\ k \notin S \cup {n}
    <2>1. i < j
      BY <1>5, <1>7, <1>8
    <2>1a. h[i] \in Nat /\ h[j] \in Nat
      BY <1>2
    <2>2. CASE j < n
      <3>1. h[i] < h[j]
        BY <1>5a, <1>8, <2>1, <2>2
      <3>2. QED
        BY <1>2, <2>2, <3>1
    <2>3. CASE i >= n
      <3>1. h[i] < h[j]
        BY <1>3, <1>5a, <1>8, <2>1, <2>1a, <2>3
      <3>2. QED
        BY <1>2, <2>3, <3>1
    <2>4. CASE i < n /\ n <= j
      <3>1. h[i] < h[n - 1] \/ h[n] < h[j]
        <4>1. h[i] <= h[n - 1] /\ h[n] <= h[j] /\ h[n] \in Nat
          BY <1>2, <1>3, <2>4
        <4>2. g[i] = h[i] /\ g[j] = h[j] - w[n]
          BY <1>5a, <2>4
        <4>3. QED
          BY <4>1, <4>2, <1>3, <1>8, <2>1a
      <3>2. CASE h[i] < h[n - 1]
        <4>1. PICK k \in 1 .. m : i < k /\ k <= n - 1 /\ k \notin S
          BY <1>2, <1>3, <3>2
        <4>2. QED
          BY <4>1, <2>4
      <3>3. CASE h[n] < h[j]
        <4>1. PICK k \in 1 .. m : n < k /\ k <= j /\ k \notin S
          BY <1>2, <1>3, <3>3
        <4>2. QED
          BY <4>1, <2>4
      <3>4. QED
        BY <3>1, <3>2, <3>3
    <2>5. QED
      BY <2>2, <2>3, <2>4
  <1>9. g[m] = x - w[n]
    BY <1>1, <1>5a
  <1>10. Counts(m, w, S \cup {n}, g)
    BY <1>5, <1>6, <1>7, <1>8 DEF Counts
  <1>11. QED
    BY <1>9, <1>10 DEF Pending

(* A longer sequence with at most one new weight v adds v.                 *)
LEMMA PendingGrows ==
  ASSUME NEW m \in Nat, NEW w, NEW S \in SUBSET (1 .. m), NEW x, Pending(m, w, S, x),
         NEW k \in Nat, m <= k, NEW u \in [1 .. k -> Nat], \A i \in 1 .. m : u[i] = w[i],
         NEW v \in Nat, NEW p \in m + 1 .. k + 1, p <= k => u[p] = v, p > k => v = 0,
         \A i \in m + 1 .. k : i # p => u[i] = 0
  PROVE  Pending(k, u, S, x + v)
  <1>1. PICK h : Counts(m, w, S, h) /\ h[m] = x
    BY DEF Pending
  <1>2. /\ h \in [0 .. m -> Nat] /\ h[0] = 0 /\ x \in Nat
        /\ \A i \in 1 .. m : h[i] = h[i - 1] + (IF i \in S THEN 0 ELSE w[i])
        /\ \A i, j \in 0 .. m : i <= j => h[i] <= h[j]
        /\ \A i, j \in 0 .. m : h[i] < h[j] => \E q \in 1 .. m : i < q /\ q <= j /\ q \notin S
    BY <1>1 DEF Counts
  <1> DEFINE g == [i \in 0 .. k |-> IF i <= m THEN h[i] ELSE IF i < p THEN x ELSE x + v]
  <1>3. g \in [0 .. k -> Nat] /\ g[0] = 0
    BY <1>2
  <1>3a. /\ \A i \in 0 .. m : i \in 0 .. k /\ g[i] = h[i]
         /\ \A i \in m .. k : i \in 0 .. k /\ g[i] = IF i < p THEN x ELSE x + v
    <2>1. g[m] = x
      BY <1>1
    <2>2. QED
      BY <2>1
  <1> HIDE DEF g
  <1>4. ASSUME NEW i \in 1 .. k PROVE g[i] = g[i - 1] + (IF i \in S THEN 0 ELSE u[i])
    <2>1. CASE i <= m
      <3>1. h[i] = h[i - 1] + (IF i \in S THEN 0 ELSE w[i]) /\ u[i] = w[i]
        BY <1>2, <2>1
      <3>2. g[i] = h[i] /\ g[i - 1] = h[i - 1]
        BY <1>3a, <2>1
      <3>3. QED
        BY <3>1, <3>2
    <2>2. CASE i > m
      <3>1. i \notin S /\ g[i] = (IF i < p THEN x ELSE x + v)
        BY <1>3a, <2>2
      <3>2. g[i - 1] = (IF i - 1 < p THEN x ELSE x + v)
        BY <1>3a, <2>2
      <3>3. u[i] = IF i = p THEN v ELSE 0
        BY <2>2
      <3>4. QED
        BY <1>2, <3>1, <3>2, <3>3
    <2>3. QED
      BY <2>1, <2>2
  <1>5. ASSUME NEW i \in 0 .. k, NEW j \in 0 .. k, i <= j PROVE g[i] <= g[j]
    <2>1. i <= m => g[i] = h[i] /\ h[i] <= x /\ h[i] \in Nat
      BY <1>1, <1>2, <1>3a
    <2>2. CASE j <= m
      <3>1. h[i] <= h[j]
        BY <1>2, <1>5, <2>2
      <3>2. g[i] = h[i] /\ g[j] = h[j]
        BY <1>3a, <1>5, <2>2
      <3>3. QED
        BY <3>1, <3>2
    <2>3. CASE j > m
      <3>1. g[j] = IF j < p THEN x ELSE x + v
        BY <1>3a, <2>3
      <3>2. i > m => g[i] = IF i < p THEN x ELSE x + v
        BY <1>3a
      <3>3. QED
        BY <1>2, <1>5, <2>1, <3>1, <3>2
    <2>4. QED
      BY <2>2, <2>3
  <1>6. ASSUME NEW i \in 0 .. k, NEW j \in 0 .. k, g[i] < g[j]
        PROVE  \E q \in 1 .. k : i < q /\ q <= j /\ q \notin S
    <2>1. i < j
      <3>1. g[i] \in Nat /\ g[j] \in Nat
        BY <1>3
      <3>2. ~(j <= i)
        BY <1>5, <1>6, <3>1
      <3>3. QED
        BY <3>2
    <2>2. CASE j <= m
      <3>1. h[i] < h[j]
        BY <1>3a, <1>6, <2>1, <2>2
      <3>2. PICK q \in 1 .. m : i < q /\ q <= j /\ q \notin S
        BY <1>2, <2>1, <2>2, <3>1
      <3>3. QED
        BY <3>2
    <2>3. CASE j > m
      <3>1. j \in 1 .. k /\ j \notin S
        BY <2>3
      <3>2. QED
        BY <2>1, <3>1
    <2>4. QED
      BY <2>2, <2>3
  <1>7. g[k] = x + v
    BY <1>2, <1>3a
  <1>8. Counts(k, u, S, g)
    BY <1>3, <1>4, <1>5, <1>6 DEF Counts
  <1>9. QED
    BY <1>7, <1>8 DEF Pending

-----------------------------------------------------------------------------
(* The money of the chain only grows.                                      *)
MoneyGrows ==
  /\ deposited' >= deposited /\ settledSeconds' >= settledSeconds
  /\ settledAmount' >= settledAmount /\ settledFee' >= settledFee
  /\ toSubscriber' >= toSubscriber

(* A log that carries only an instant.                                     *)
Stamped(event, at) == [Log(event) EXCEPT !.at = at]

(* Emitted holds each of the seven logs if its condition holds, and none   *)
(* of them twice.                                                          *)
LEMMA EmittedLogs ==
  ASSUME logs \in Seq(LogRecords), TypeOK, TypeOK', MoneyGrows
  PROVE  /\ Ranked(Emitted, 8)
         /\ \A x : Has(Emitted, x) <=>
              \/ status = "None" /\ status' # "None" /\ x = Log("StreamCreated")
              \/ deposited' > deposited /\ x = DepositedLog
              \/ startedAt' # startedAt /\ x = Stamped("StreamStarted", startedAt')
              \/ status = "Active" /\ status' = "Paused" /\ x = Stamped("StreamPaused", now)
              \/ status = "Paused" /\ status' = "Active" /\ x = Stamped("StreamResumed", now)
              \/ settledSeconds' > settledSeconds /\ x = SettledLog
              \/ status # "Canceled" /\ status' = "Canceled" /\ x = CanceledLog
  <1>1. /\ Len(logs) \in Nat /\ now \in Nat /\ startedAt' \in Nat
        /\ deposited' \in Nat /\ pausedAt' \in Nat /\ settledAmount' \in Nat
        /\ closedActiveSeconds' \in Nat
    BY LenProperties DEF TypeOK
  <1>2. /\ deposited' - deposited \in Nat
        /\ settledSeconds' - settledSeconds \in Nat /\ settledAmount' - settledAmount \in Nat
        /\ settledFee' - settledFee \in Nat /\ toSubscriber' - toSubscriber \in Nat
    <2>1. \A a, b \in Nat : a >= b => a - b \in Nat
      OBVIOUS
    <2>2. /\ deposited \in Nat /\ settledSeconds \in Nat /\ settledAmount \in Nat
          /\ settledFee \in Nat /\ toSubscriber \in Nat
          /\ deposited' \in Nat /\ settledSeconds' \in Nat /\ settledAmount' \in Nat
          /\ settledFee' \in Nat /\ toSubscriber' \in Nat
      BY DEF TypeOK
    <2>3. QED
      BY <2>1, <2>2 DEF MoneyGrows
  <1>3. ASSUME NEW e \in Events PROVE Log(e) \in LogRecords /\ Log(e).event = e
    BY <1>1 DEF Log, LogRecords
  <1>4. Log("StreamCreated") \in LogRecords /\ Rank[Log("StreamCreated").event] = 1
    BY <1>3 DEF Events, Rank
  <1>5. ASSUME NEW e \in Events, NEW at \in Nat
        PROVE  Stamped(e, at) \in LogRecords /\ Stamped(e, at).event = e
    <2>1. Log(e) \in LogRecords /\ Log(e).event = e
      BY <1>3
    <2>2. \A l \in LogRecords : /\ [l EXCEPT !.at = at] \in LogRecords
                                /\ [l EXCEPT !.at = at].event = l.event
      BY DEF LogRecords
    <2>3. QED
      BY <2>1, <2>2 DEF Stamped
  <1>6. /\ Stamped("StreamStarted", startedAt') \in LogRecords
        /\ Rank[Stamped("StreamStarted", startedAt').event] = 3
    <2>1. "StreamStarted" \in Events
      BY DEF Events
    <2>2. startedAt' \in Nat
      BY <1>1
    <2>3. /\ Stamped("StreamStarted", startedAt') \in LogRecords
          /\ Stamped("StreamStarted", startedAt').event = "StreamStarted"
      BY <1>5, <2>1, <2>2
    <2>4. Rank["StreamStarted"] = 3
      BY DEF Rank
    <2>5. QED
      BY <2>3, <2>4
  <1>7. /\ Stamped("StreamPaused", now) \in LogRecords
        /\ Rank[Stamped("StreamPaused", now).event] = 4
    <2>1. "StreamPaused" \in Events
      BY DEF Events
    <2>2. now \in Nat
      BY <1>1
    <2>3. /\ Stamped("StreamPaused", now) \in LogRecords
          /\ Stamped("StreamPaused", now).event = "StreamPaused"
      BY <1>5, <2>1, <2>2
    <2>4. Rank["StreamPaused"] = 4
      BY DEF Rank
    <2>5. QED
      BY <2>3, <2>4
  <1>8. /\ Stamped("StreamResumed", now) \in LogRecords
        /\ Rank[Stamped("StreamResumed", now).event] = 5
    <2>1. "StreamResumed" \in Events
      BY DEF Events
    <2>2. now \in Nat
      BY <1>1
    <2>3. /\ Stamped("StreamResumed", now) \in LogRecords
          /\ Stamped("StreamResumed", now).event = "StreamResumed"
      BY <1>5, <2>1, <2>2
    <2>4. Rank["StreamResumed"] = 5
      BY DEF Rank
    <2>5. QED
      BY <2>3, <2>4
  <1>9. DepositedLog \in LogRecords /\ Rank[DepositedLog.event] = 2
    <2>1. Log("Deposited") \in LogRecords /\ Log("Deposited").event = "Deposited"
      BY <1>3 DEF Events
    <2>2. DepositedLog \in LogRecords /\ DepositedLog.event = "Deposited"
      BY <1>1, <1>2, <2>1 DEF DepositedLog, LogRecords
    <2>3. QED
      BY <2>2 DEF Rank
  <1>10. SettledLog \in LogRecords /\ Rank[SettledLog.event] = 6
    <2>1. Log("Settled") \in LogRecords /\ Log("Settled").event = "Settled"
      BY <1>3 DEF Events
    <2>2. SettledLog \in LogRecords /\ SettledLog.event = "Settled"
      BY <1>1, <1>2, <2>1 DEF SettledLog, LogRecords
    <2>3. QED
      BY <2>2 DEF Rank
  <1>11. CanceledLog \in LogRecords /\ Rank[CanceledLog.event] = 7
    <2>1. Log("StreamCanceled") \in LogRecords /\ Log("StreamCanceled").event = "StreamCanceled"
      BY <1>3 DEF Events
    <2>2. CanceledLog \in LogRecords /\ CanceledLog.event = "StreamCanceled"
      BY <1>1, <1>2, <2>1 DEF CanceledLog, LogRecords
    <2>3. QED
      BY <2>2 DEF Rank
  <1> DEFINE c1 == status = "None" /\ status' # "None"
             c2 == deposited' > deposited
             c3 == startedAt' # startedAt
             c4 == status = "Active" /\ status' = "Paused"
             c5 == status = "Paused" /\ status' = "Active"
             c6 == settledSeconds' > settledSeconds
             c7 == status # "Canceled" /\ status' = "Canceled"
             l1 == Log("StreamCreated")
             l3 == Stamped("StreamStarted", startedAt')
             l4 == Stamped("StreamPaused", now)
             l5 == Stamped("StreamResumed", now)
             s0 == << >>
             s1 == s0 \o When(c1, l1)
             s2 == s1 \o When(c2, DepositedLog)
             s3 == s2 \o When(c3, l3)
             s4 == s3 \o When(c4, l4)
             s5 == s4 \o When(c5, l5)
             s6 == s5 \o When(c6, SettledLog)
             s7 == s6 \o When(c7, CanceledLog)
  <1>12. Ranked(s0, 1) /\ \A x : ~Has(s0, x)
    BY EmptySeq DEF Ranked, Has
  <1>13. /\ c1 \in BOOLEAN /\ c2 \in BOOLEAN /\ c3 \in BOOLEAN /\ c4 \in BOOLEAN
         /\ c5 \in BOOLEAN /\ c6 \in BOOLEAN /\ c7 \in BOOLEAN
    OBVIOUS
  <1>14. Emitted = s7
    <2>1. When(c1, l1) \in Seq(LogRecords)
      BY <1>4 DEF When
    <2>2. s1 = When(c1, l1)
      BY <2>1, ConcatEmptySeq
    <2> HIDE DEF s1
    <2>3. QED
      BY <2>2 DEF Emitted, Stamped
  <1> HIDE DEF c1, c2, c3, c4, c5, c6, c7, l1, l3, l4, l5, s0
  <1>21. Ranked(s1, 2) /\ \A x : Has(s1, x) <=> Has(s0, x) \/ (c1 /\ x = l1)
    BY <1>4, <1>12, <1>13, WhenAdds DEF l1
  <1> HIDE DEF s1
  <1>22. Ranked(s2, 3) /\ \A x : Has(s2, x) <=> Has(s1, x) \/ (c2 /\ x = DepositedLog)
    BY <1>9, <1>13, <1>21, WhenAdds
  <1> HIDE DEF s2
  <1>23. Ranked(s3, 4) /\ \A x : Has(s3, x) <=> Has(s2, x) \/ (c3 /\ x = l3)
    BY <1>6, <1>13, <1>22, WhenAdds DEF l3
  <1> HIDE DEF s3
  <1>24. Ranked(s4, 5) /\ \A x : Has(s4, x) <=> Has(s3, x) \/ (c4 /\ x = l4)
    BY <1>7, <1>13, <1>23, WhenAdds DEF l4
  <1> HIDE DEF s4
  <1>25. Ranked(s5, 6) /\ \A x : Has(s5, x) <=> Has(s4, x) \/ (c5 /\ x = l5)
    BY <1>8, <1>13, <1>24, WhenAdds DEF l5
  <1> HIDE DEF s5
  <1>26. Ranked(s6, 7) /\ \A x : Has(s6, x) <=> Has(s5, x) \/ (c6 /\ x = SettledLog)
    BY <1>10, <1>13, <1>25, WhenAdds
  <1> HIDE DEF s6
  <1>27. Ranked(s7, 8) /\ \A x : Has(s7, x) <=> Has(s6, x) \/ (c7 /\ x = CanceledLog)
    BY <1>11, <1>13, <1>26, WhenAdds
  <1> HIDE DEF s7
  <1>28. ASSUME NEW x
         PROVE  Has(s7, x) <=>
                  \/ c1 /\ x = l1
                  \/ c2 /\ x = DepositedLog
                  \/ c3 /\ x = l3
                  \/ c4 /\ x = l4
                  \/ c5 /\ x = l5
                  \/ c6 /\ x = SettledLog
                  \/ c7 /\ x = CanceledLog
    <2>1. /\ ~Has(s0, x)
          /\ Has(s1, x) <=> Has(s0, x) \/ (c1 /\ x = l1)
          /\ Has(s2, x) <=> Has(s1, x) \/ (c2 /\ x = DepositedLog)
          /\ Has(s3, x) <=> Has(s2, x) \/ (c3 /\ x = l3)
      BY ONLY <1>12, <1>21, <1>22, <1>23
    <2>2. /\ Has(s4, x) <=> Has(s3, x) \/ (c4 /\ x = l4)
          /\ Has(s5, x) <=> Has(s4, x) \/ (c5 /\ x = l5)
          /\ Has(s6, x) <=> Has(s5, x) \/ (c6 /\ x = SettledLog)
          /\ Has(s7, x) <=> Has(s6, x) \/ (c7 /\ x = CanceledLog)
      BY ONLY <1>24, <1>25, <1>26, <1>27
    <2>3. QED
      BY ONLY <2>1, <2>2
  <1>29. QED
    BY <1>14, <1>27, <1>28 DEF c1, c2, c3, c4, c5, c6, c7, l1, l3, l4, l5

-----------------------------------------------------------------------------
(* What a step of the stream may do to the amounts its logs report.        *)

PotFull == status # "None" => deposited = MaxEscrow

Moves ==
  /\ status' = "None" => status = "None" /\ UNCHANGED <<deposited, startedAt, settledSeconds>>
  /\ deposited' # deposited => status = "None"
  /\ startedAt' # startedAt => startedAt = 0 /\ startedAt' # 0
  /\ settledFee' - settledFee <= settledAmount' - settledAmount
  /\ settledSeconds' = settledSeconds =>
       UNCHANGED <<settledAmount, settledFee, toMerchant, toTreasury>>
  /\ status = "Canceled" =>
       UNCHANGED <<status, deposited, settledSeconds, settledAmount, settledFee, toSubscriber, ran>>
  /\ status' # "Canceled" => UNCHANGED toSubscriber

(* A payment of whole seconds.                                             *)
LEMMA PayMoves ==
  ASSUME IInv, IInv', NEW secs \in Nat, NEW refund, Pay(secs, refund)
  PROVE  /\ settledSeconds' >= settledSeconds /\ settledAmount' >= settledAmount
         /\ settledFee' >= settledFee
         /\ settledFee' - settledFee <= settledAmount' - settledAmount
         /\ settledSeconds' = settledSeconds =>
              UNCHANGED <<settledAmount, settledFee, toMerchant, toTreasury>>
  <1> DEFINE amount == secs * Rate
             fee == FeeOn(amount)
  <1>1. amount \in Nat /\ (secs = 0 => amount = 0)
    BY StreamAssumption
  <1>2. TypeOK /\ Solvent /\ Solvent'
    BY DEF IInv
  <1>3. fee \in Nat /\ fee <= amount
    BY <1>1, <1>2, FeeBounds DEF TypeOK
  <1>4. /\ settledSeconds' = settledSeconds + secs
        /\ settledAmount' = settledAmount + amount
        /\ settledFee' = settledFee + fee
    BY DEF Pay
  <1>5. settledSeconds \in Nat /\ settledAmount \in Nat /\ settledFee \in Nat
    BY <1>2 DEF TypeOK
  <1> HIDE DEF amount, fee
  <1>6. settledSeconds' = settledSeconds => settledAmount' = settledAmount /\ settledFee' = settledFee
    BY <1>1, <1>3, <1>4, <1>5
  <1>7. settledSeconds' = settledSeconds => toMerchant' = toMerchant /\ toTreasury' = toTreasury
    BY <1>2, <1>6 DEF Solvent
  <1>8. QED
    BY <1>1, <1>3, <1>4, <1>5, <1>6, <1>7

(* An end, with the invariant on both sides of it.                         *)
LEMMA EndMoves ==
  ASSUME IInv, IInv', PotFull, Live, NEW at, NEW active \in Nat,
         active = AtMost(ran, maxSeconds), End(at, active)
  PROVE  Moves /\ MoneyGrows /\ PotFull'
  <1> DEFINE secs == AtMost(active, maxSeconds) - settledSeconds
  <1>1. maxSeconds \in Nat /\ TypeOK /\ TypeOK'
    BY MaxSecondsBounds DEF IInv
  <1>2. AtMost(active, maxSeconds) = active
    BY <1>1 DEF AtMost, TypeOK
  <1>3. secs \in Nat
    BY <1>1, <1>2 DEF IInv, OnlyTimeRunIsBilled, TypeOK
  <1>4. Pay(secs, refundable - secs * Rate)
    BY DEF End
  <1> HIDE DEF secs
  <1>5. /\ settledSeconds' >= settledSeconds /\ settledAmount' >= settledAmount
        /\ settledFee' >= settledFee
        /\ settledFee' - settledFee <= settledAmount' - settledAmount
        /\ settledSeconds' = settledSeconds =>
             UNCHANGED <<settledAmount, settledFee, toMerchant, toTreasury>>
    BY <1>3, <1>4, PayMoves
  <1>6. status' = "Canceled" /\ UNCHANGED <<startedAt, deposited>>
    BY DEF End
  <1>7. toSubscriber = 0 /\ toSubscriber' \in Nat /\ deposited \in Nat
    BY <1>1 DEF IInv, Solvent, Live, TypeOK
  <1>8. MoneyGrows
    BY <1>5, <1>6, <1>7 DEF MoneyGrows
  <1>9. Moves
    BY <1>5, <1>6 DEF Moves, Live
  <1>10. QED
    BY <1>6, <1>8, <1>9 DEF PotFull, Live

(* A step that moves no money and does not end the stream.                 *)
LEMMA QuietMoves ==
  ASSUME IInv, IInv', PotFull,
         UNCHANGED <<deposited, settled, payouts>>,
         status' = "None" <=> status = "None",
         status' = "None" => UNCHANGED startedAt,
         startedAt' # startedAt => startedAt = 0 /\ startedAt' # 0,
         status = "Canceled" => UNCHANGED <<status, ran>>
  PROVE  Moves /\ MoneyGrows /\ PotFull'
  <1>1. /\ deposited \in Nat /\ settledSeconds \in Nat /\ settledAmount \in Nat
        /\ settledFee \in Nat /\ toSubscriber \in Nat
    BY DEF IInv, TypeOK
  <1>2. UNCHANGED <<deposited, settledSeconds, settledAmount, settledFee, toMerchant, toTreasury,
                    toSubscriber>>
    BY DEF settled, payouts
  <1>3. MoneyGrows
    BY <1>1, <1>2 DEF MoneyGrows
  <1>4. Moves
    BY <1>1, <1>2 DEF Moves
  <1>5. QED
    BY <1>2, <1>3, <1>4 DEF PotFull

(* The steps of the stream in the pipeline.                                *)
ChainStep ==
  \/ CreateWithPermit \/ CreateWithPermitNoStart
  \/ StreamCall /\ UNCHANGED <<platformFeeBps, platformTreasury>>
  \/ \E d \in Steps : Tick(d) /\ UNCHANGED <<platformFeeBps, platformTreasury>>

LEMMA CancelMoves ==
  ASSUME IInv, IInv', PotFull, Live, DoCancel
  PROVE  Moves /\ MoneyGrows /\ PotFull'
  <1>1. maxSeconds \in Nat /\ ClockInv /\ TypeOK
    BY MaxSecondsBounds DEF IInv
  <1>2. CASE status = "Active" /\ Exhausted /\ EndAtCap
    <2>1. maxSeconds = AtMost(ran, maxSeconds)
      BY <1>1, <1>2 DEF AtMost, Exhausted, ClockInv, TypeOK
    <2>2. End(exhaustedAt, maxSeconds)
      BY <1>2 DEF EndAtCap
    <2> HIDE DEF maxSeconds, exhaustedAt
    <2>3. QED
      BY <1>1, <2>1, <2>2, EndMoves
  <1>3. CASE /\ status = "Active" /\ ~Exhausted
             /\ End(now, closedActiveSeconds + (now - segmentStart))
    <2> DEFINE active == closedActiveSeconds + (now - segmentStart)
    <2>1. active \in Nat /\ active = AtMost(ran, maxSeconds)
      BY <1>1, <1>3 DEF AtMost, Exhausted, ClockInv, TypeOK
    <2>2. End(now, active)
      BY <1>3
    <2> HIDE DEF active
    <2>3. QED
      BY <2>1, <2>2, EndMoves
  <1>4. CASE status \in {"Created", "Paused"} /\ End(now, closedActiveSeconds)
    <2>1. closedActiveSeconds \in Nat /\ closedActiveSeconds = AtMost(ran, maxSeconds)
      BY <1>1, <1>4 DEF AtMost, ClockInv, TypeOK
    <2>2. QED
      BY <1>4, <2>1, EndMoves
  <1>5. QED
    BY <1>2, <1>3, <1>4 DEF DoCancel

LEMMA ChainStepMoves ==
  ASSUME IInv, PotFull, ChainStep
  PROVE  IInv' /\ Moves /\ MoneyGrows /\ PotFull'
  <1>1. IInv'
    <2>1. Next
      BY DEF ChainStep, Next
    <2>2. [Next]_vars
      BY <2>1, Zenon
    <2>3. QED
      BY <2>2, NextIInv, Zenon
  <1>2. TypeOK /\ TypeOK' /\ ClockInv /\ Solvent /\ maxSeconds \in Nat
    BY <1>1, MaxSecondsBounds DEF IInv
  <1>3. CASE CreateWithPermit \/ CreateWithPermitNoStart
    <2>1. /\ status = "None" /\ status' # "None" /\ deposited' = MaxEscrow
          /\ startedAt' \in {startedAt, now} /\ UNCHANGED <<settled, payouts>>
      BY <1>3 DEF CreateWithPermit, CreateWithPermitNoStart, NewClone
    <2>2. startedAt = 0 /\ deposited = 0 /\ now # 0 /\ MaxEscrow \in Nat
      BY <1>2, <2>1, StreamAssumption DEF ClockInv
    <2>3. UNCHANGED <<settledSeconds, settledAmount, settledFee, toMerchant, toTreasury,
                      toSubscriber>>
      BY <2>1 DEF settled, payouts
    <2>4. MoneyGrows
      BY <1>2, <2>1, <2>2, <2>3 DEF MoneyGrows, TypeOK
    <2>5. Moves
      BY <1>2, <2>1, <2>2, <2>3 DEF Moves, TypeOK
    <2>6. QED
      BY <1>1, <2>1, <2>4, <2>5 DEF PotFull
  <1>4. ASSUME NEW a \in Amounts, Deposit(a) PROVE FALSE
    <2>1. deposited = MaxEscrow /\ a > 0 /\ deposited + a <= MaxEscrow
      BY <1>4 DEF Deposit, PotFull, Live
    <2>2. QED
      BY <2>1, StreamAssumption
  <1>5. ASSUME NEW who \in Addr, Start(who) PROVE Moves /\ MoneyGrows /\ PotFull'
    <2>1. /\ status = "Created" /\ status' = "Active" /\ startedAt' = now
          /\ UNCHANGED <<deposited, settled, payouts>>
      BY <1>5 DEF Start
    <2>2. startedAt = 0 /\ now # 0
      BY <1>2, <2>1 DEF ClockInv
    <2>3. QED
      BY <1>1, <2>1, <2>2, QuietMoves
  <1>6. ASSUME NEW who \in Addr, Pause(who) PROVE Moves /\ MoneyGrows /\ PotFull'
    <2>1. CASE Exhausted /\ EndAtCap
      <3>1. status = "Active"
        BY <1>6 DEF Pause
      <3>2. QED
        BY <1>1, <2>1, <3>1, CancelMoves DEF DoCancel, Live
    <2>2. CASE ~(Exhausted /\ EndAtCap)
      <3>1. /\ status = "Active" /\ status' = "Paused"
            /\ UNCHANGED <<startedAt, deposited, settled, payouts>>
        BY <1>6, <2>2 DEF Pause
      <3>2. QED
        BY <1>1, <3>1, QuietMoves
    <2>3. QED
      BY <2>1, <2>2
  <1>7. ASSUME NEW who \in Addr, Resume(who) PROVE Moves /\ MoneyGrows /\ PotFull'
    <2>1. /\ status = "Paused" /\ status' = "Active"
          /\ UNCHANGED <<startedAt, deposited, settled, payouts>>
      BY <1>7 DEF Resume
    <2>2. QED
      BY <1>1, <2>1, QuietMoves
  <1>8. ASSUME NEW who \in Addr, Cancel(who) PROVE Moves /\ MoneyGrows /\ PotFull'
    BY <1>1, <1>8, CancelMoves DEF Cancel
  <1>9. ASSUME NEW who \in Addr, NEW d \in Deadlines, CancelFor(who, d)
        PROVE  Moves /\ MoneyGrows /\ PotFull'
    BY <1>1, <1>9, CancelMoves DEF CancelFor
  <1>10. CASE Settle
    <2>1. CASE status = "Active" /\ Exhausted
      <3>1. EndAtCap /\ Live
        BY <1>10, <2>1 DEF Settle
      <3>2. QED
        BY <1>1, <2>1, <3>1, CancelMoves DEF DoCancel
    <2>2. CASE ~(status = "Active" /\ Exhausted)
      <3> DEFINE secs == accruedSeconds - settledSeconds
      <3>1. /\ Live /\ Pay(secs, 0)
            /\ UNCHANGED <<lifecycle, deposited>>
        BY <1>10, <2>2 DEF Settle
      <3>2. secs \in Nat
        <4>1. accruedSeconds = AtMost(ran, maxSeconds) /\ settledSeconds <= AtMost(ran, maxSeconds)
          BY <3>1 DEF IInv, OnlyTimeRunIsBilled
        <4>2. AtMost(ran, maxSeconds) \in Nat
          BY <1>2 DEF AtMost, TypeOK
        <4>3. QED
          BY <1>2, <4>1, <4>2 DEF TypeOK
      <3> HIDE DEF secs
      <3>3. /\ settledSeconds' >= settledSeconds /\ settledAmount' >= settledAmount
            /\ settledFee' >= settledFee
            /\ settledFee' - settledFee <= settledAmount' - settledAmount
            /\ settledSeconds' = settledSeconds =>
                 UNCHANGED <<settledAmount, settledFee, toMerchant, toTreasury>>
        BY <1>1, <3>1, <3>2, PayMoves
      <3>4. /\ status \notin {"None", "Canceled"} /\ UNCHANGED <<status, startedAt, deposited>>
        BY <3>1 DEF Live, lifecycle
      <3>5. toSubscriber = 0 /\ toSubscriber' = 0
        BY <1>1, <3>4 DEF IInv, Solvent
      <3>6. MoneyGrows
        BY <1>2, <3>3, <3>4, <3>5 DEF MoneyGrows, TypeOK
      <3>7. Moves
        BY <3>3, <3>4, <3>5 DEF Moves
      <3>8. PotFull'
        BY <3>4 DEF PotFull
      <3>9. QED
        BY <1>1, <3>6, <3>7, <3>8
    <2>3. QED
      BY <2>1, <2>2
  <1>11. ASSUME NEW d \in Steps, Tick(d) PROVE Moves /\ MoneyGrows /\ PotFull'
    <2>1. /\ UNCHANGED <<lifecycle, deposited, settled, payouts>>
          /\ status # "Active" => UNCHANGED ran
      BY <1>11 DEF Tick
    <2>2. UNCHANGED <<status, startedAt>>
      BY <2>1 DEF lifecycle
    <2>3. QED
      BY <1>1, <2>1, <2>2, QuietMoves
  <1>12. QED
    BY <1>1, <1>3, <1>4, <1>5, <1>6, <1>7, <1>8, <1>9, <1>10, <1>11 DEF ChainStep, StreamCall

-----------------------------------------------------------------------------
(* The logs a step adds to the chain.                                      *)

Fresh(s, t) == Len(s) + 1 .. Len(t)

(* Numbering a log changes nothing else of it.                             *)
LEMMA NumberedLog ==
  ASSUME NEW l \in LogRecords, NEW n \in Nat
  PROVE  /\ [l EXCEPT !.n = n] \in LogRecords /\ [l EXCEPT !.n = n].n = n
         /\ [l EXCEPT !.n = n].event = l.event /\ [l EXCEPT !.n = n].seconds = l.seconds
         /\ [l EXCEPT !.n = n].amount = l.amount /\ [l EXCEPT !.n = n].fee = l.fee
         /\ [l EXCEPT !.n = n].secondsElapsed = l.secondsElapsed
         /\ [l EXCEPT !.n = n].amountSettled = l.amountSettled
         /\ [l EXCEPT !.n = n].amountRefunded = l.amountRefunded
  BY DEF LogRecords

LEMMA LogsAppended ==
  ASSUME logs \in Seq(LogRecords), \A i \in 1 .. Len(logs) : logs[i].n = i,
         Ranked(Emitted, 8), logs' = logs \o Numbered(Emitted)
  PROVE  /\ logs' \in Seq(LogRecords) /\ Len(logs) <= Len(logs')
         /\ \A i \in 1 .. Len(logs) : logs'[i] = logs[i]
         /\ \A i \in 1 .. Len(logs') : logs'[i].n = i
         /\ \A i, j \in Fresh(logs, logs') : logs'[i].event = logs'[j].event => i = j
         /\ \A i, j \in Fresh(logs, logs') : logs'[i].event = "StreamCanceled" => j <= i
         /\ \A i \in Fresh(logs, logs') :
              \E l \in LogRecords : Has(Emitted, l) /\ logs'[i] = [l EXCEPT !.n = i]
         /\ \A l : Has(Emitted, l) =>
              \E i \in Fresh(logs, logs') : l \in LogRecords /\ logs'[i] = [l EXCEPT !.n = i]
  <1> DEFINE m == Len(logs)
             s == Emitted
             t == Numbered(s)
  <1>1. /\ s \in Seq(LogRecords) /\ Len(s) \in Nat /\ DOMAIN s = 1 .. Len(s)
        /\ \A i \in 1 .. Len(s) : s[i] \in LogRecords
        /\ \A i, j \in 1 .. Len(s) : i < j => Rank[s[i].event] < Rank[s[j].event]
    BY LenProperties, ElementOfSeq DEF Ranked
  <1>2. m \in Nat /\ \A i \in 1 .. m : logs[i] \in LogRecords
    BY LenProperties, ElementOfSeq
  <1> HIDE DEF s
  <1>4. t = [i \in 1 .. Len(s) |-> [s[i] EXCEPT !.n = m + i]]
    BY <1>1 DEF Numbered
  <1> HIDE DEF t, m
  <1>5. /\ t \in Seq(LogRecords) /\ Len(t) = Len(s)
        /\ \A i \in 1 .. Len(s) : t[i] = [s[i] EXCEPT !.n = m + i]
    <2>1. t \in [1 .. Len(s) -> LogRecords]
      <3>1. \A i \in 1 .. Len(s) : m + i \in Nat /\ [s[i] EXCEPT !.n = m + i] \in LogRecords
        BY <1>1, <1>2, NumberedLog
      <3>2. QED
        BY <3>1, <1>4
    <2>2. t \in Seq(LogRecords) /\ Len(t) = Len(s)
      BY <2>1, <1>1
    <2>3. QED
      BY <2>2, <1>4
  <1>6. /\ logs' \in Seq(LogRecords) /\ Len(logs') = m + Len(s)
        /\ \A i \in 1 .. m + Len(s) : logs'[i] = IF i <= m THEN logs[i] ELSE t[i - m]
    <2>1. logs' = logs \o t
      BY DEF t, s
    <2>2. /\ logs \o t \in Seq(LogRecords) /\ Len(logs \o t) = Len(logs) + Len(t)
          /\ \A i \in 1 .. Len(logs) + Len(t) :
               (logs \o t)[i] = IF i <= Len(logs) THEN logs[i] ELSE t[i - Len(logs)]
      <3>1. t \in Seq(LogRecords)
        BY <1>5
      <3>2. QED
        BY <3>1, ConcatProperties
    <2>3. QED
      BY <2>1, <2>2, <1>5 DEF m
  <1>7. ASSUME NEW i \in Fresh(logs, logs')
        PROVE  /\ i - m \in 1 .. Len(s) /\ s[i - m] \in LogRecords
               /\ logs'[i] = [s[i - m] EXCEPT !.n = i]
    <2>1. i \in m + 1 .. m + Len(s)
      BY <1>6 DEF Fresh, m
    <2>2. i - m \in 1 .. Len(s) /\ m + (i - m) = i
      BY <2>1, <1>1, <1>2
    <2>3. logs'[i] = t[i - m]
      <3>1. i \in 1 .. m + Len(s) /\ ~(i <= m)
        BY <2>1, <1>1, <1>2
      <3>2. QED
        BY <3>1, <1>6
    <2>4. QED
      BY <2>2, <2>3, <1>1, <1>5
  <1>8. \A i \in 1 .. m : logs'[i] = logs[i]
    BY <1>1, <1>2, <1>6
  <1>9. ASSUME NEW i \in 1 .. Len(logs') PROVE logs'[i].n = i
    <2>1. CASE i \in 1 .. m
      BY <2>1, <1>8 DEF m
    <2>2. CASE i \notin 1 .. m
      <3>1. i \in Fresh(logs, logs') /\ i \in Nat
        BY <2>2, <1>1, <1>2, <1>6 DEF Fresh, m
      <3>2. logs'[i] = [s[i - m] EXCEPT !.n = i] /\ s[i - m] \in LogRecords
        BY <3>1, <1>7
      <3>3. QED
        BY <3>1, <3>2, NumberedLog
    <2>3. QED
      BY <2>1, <2>2
  <1>10. ASSUME NEW i \in Fresh(logs, logs'), NEW j \in Fresh(logs, logs'),
                logs'[i].event = logs'[j].event
         PROVE  i = j
    <2>1. i \in Nat /\ j \in Nat
      BY <1>1, <1>2, <1>6 DEF Fresh, m
    <2>2. /\ i - m \in 1 .. Len(s) /\ j - m \in 1 .. Len(s)
          /\ s[i - m].event = s[j - m].event
      <3>1. /\ i - m \in 1 .. Len(s) /\ s[i - m] \in LogRecords
            /\ logs'[i] = [s[i - m] EXCEPT !.n = i]
        BY <1>7
      <3>2. /\ j - m \in 1 .. Len(s) /\ s[j - m] \in LogRecords
            /\ logs'[j] = [s[j - m] EXCEPT !.n = j]
        BY <1>7
      <3>3. logs'[i].event = s[i - m].event /\ logs'[j].event = s[j - m].event
        BY <2>1, <3>1, <3>2, NumberedLog
      <3>4. QED
        BY <3>1, <3>2, <3>3, <1>10
    <2>3. Rank[s[i - m].event] \in Nat /\ Rank[s[j - m].event] \in Nat
      <3>1. \A l \in LogRecords : Rank[l.event] \in Nat
        <4>1. \A e \in Events : Rank[e] \in Nat
          BY DEF Events, Rank
        <4>2. QED
          BY <4>1 DEF LogRecords
      <3>2. s[i - m] \in LogRecords /\ s[j - m] \in LogRecords
        BY <1>1, <2>2
      <3>3. QED
        BY <3>1, <3>2
    <2>4. ~(i - m < j - m) /\ ~(j - m < i - m)
      BY <1>1, <2>2, <2>3
    <2>5. QED
      BY <1>2, <2>1, <2>4
  <1>10a. ASSUME NEW i \in Fresh(logs, logs'), NEW j \in Fresh(logs, logs'),
                 logs'[i].event = "StreamCanceled"
          PROVE  j <= i
    <2>1. i \in Nat /\ j \in Nat
      BY <1>1, <1>2, <1>6 DEF Fresh, m
    <2>2. /\ i - m \in 1 .. Len(s) /\ s[i - m] \in LogRecords
          /\ logs'[i] = [s[i - m] EXCEPT !.n = i]
      BY <1>7
    <2>3. j - m \in 1 .. Len(s) /\ s[j - m] \in LogRecords
      BY <1>7
    <2>4. s[i - m].event = "StreamCanceled"
      BY <2>1, <2>2, <1>10a, NumberedLog
    <2>5. Rank[s[i - m].event] = 7 /\ Rank[s[j - m].event] <= 7
      <3>1. (\A e \in Events : Rank[e] <= 7) /\ Rank["StreamCanceled"] = 7
        BY DEF Events, Rank
      <3>2. s[j - m].event \in Events
        BY <2>3 DEF LogRecords
      <3>3. QED
        BY <2>4, <3>1, <3>2
    <2>6. Rank[s[j - m].event] \in Nat
      <3>1. \A e \in Events : Rank[e] \in Nat
        BY DEF Events, Rank
      <3>2. s[j - m].event \in Events
        BY <2>3 DEF LogRecords
      <3>3. QED
        BY <3>1, <3>2
    <2>7. ~(i - m < j - m)
      BY <1>1, <2>2, <2>3, <2>5, <2>6
    <2>8. QED
      BY <1>2, <2>1, <2>7
  <1>11. ASSUME NEW i \in Fresh(logs, logs')
         PROVE  \E l \in LogRecords : Has(Emitted, l) /\ logs'[i] = [l EXCEPT !.n = i]
    BY <1>7 DEF Has, s
  <1>12. ASSUME NEW l, Has(Emitted, l)
         PROVE  \E i \in Fresh(logs, logs') : l \in LogRecords /\ logs'[i] = [l EXCEPT !.n = i]
    <2>1. PICK k \in 1 .. Len(s) : s[k] = l
      BY <1>12 DEF Has, s
    <2>2. m + k \in Fresh(logs, logs') /\ (m + k) - m = k
      BY <1>1, <1>2, <1>6 DEF Fresh, m
    <2>3. logs'[m + k] = [l EXCEPT !.n = m + k]
      BY <2>1, <2>2, <1>7
    <2>4. QED
      BY <2>1, <2>2, <2>3, <1>1
  <1>13. Len(logs) <= Len(logs')
    BY <1>1, <1>2, <1>6 DEF m
  <1>14. \A i \in 1 .. Len(logs) : logs'[i] = logs[i]
    BY <1>8 DEF m
  <1>15. QED
    BY <1>6, <1>9, <1>10, <1>10a, <1>11, <1>12, <1>13, <1>14

(* The same, event by event.                                               *)
LEMMA NewLogs ==
  ASSUME logs \in Seq(LogRecords), \A i \in 1 .. Len(logs) : logs[i].n = i,
         TypeOK, TypeOK', MoneyGrows, logs' = logs \o Numbered(Emitted)
  PROVE  /\ logs' \in Seq(LogRecords) /\ Len(logs) <= Len(logs')
         /\ \A i \in 1 .. Len(logs) : logs'[i] = logs[i]
         /\ \A i \in 1 .. Len(logs') : logs'[i].n = i
         /\ \A i, j \in Fresh(logs, logs') : logs'[i].event = logs'[j].event => i = j
         /\ \A i \in Fresh(logs, logs') :
              /\ status' # "None" \/ deposited' > deposited
                   \/ startedAt' # startedAt \/ settledSeconds' > settledSeconds
              /\ logs'[i].event = "Deposited" =>
                   deposited' > deposited /\ logs'[i].amount = deposited' - deposited
              /\ logs'[i].event = "StreamStarted" => startedAt' # startedAt
              /\ logs'[i].event = "Settled" =>
                   /\ settledSeconds' > settledSeconds
                   /\ logs'[i].seconds = settledSeconds' - settledSeconds
                   /\ logs'[i].amount = settledAmount' - settledAmount
                   /\ logs'[i].fee = settledFee' - settledFee
              /\ logs'[i].event = "StreamCanceled" =>
                   /\ status # "Canceled" /\ status' = "Canceled"
                   /\ logs'[i].secondsElapsed = closedActiveSeconds'
                   /\ logs'[i].amountSettled = settledAmount'
                   /\ logs'[i].amountRefunded = toSubscriber' - toSubscriber
         /\ deposited' > deposited =>
              \E i \in Fresh(logs, logs') : logs'[i].event = "Deposited"
         /\ settledSeconds' > settledSeconds =>
              \E i \in Fresh(logs, logs') : logs'[i].event = "Settled"
         /\ status # "Canceled" /\ status' = "Canceled" =>
              \E i \in Fresh(logs, logs') : logs'[i].event = "StreamCanceled"
  <1>1. /\ Ranked(Emitted, 8)
        /\ \A x : Has(Emitted, x) <=>
              \/ status = "None" /\ status' # "None" /\ x = Log("StreamCreated")
              \/ deposited' > deposited /\ x = DepositedLog
              \/ startedAt' # startedAt /\ x = Stamped("StreamStarted", startedAt')
              \/ status = "Active" /\ status' = "Paused" /\ x = Stamped("StreamPaused", now)
              \/ status = "Paused" /\ status' = "Active" /\ x = Stamped("StreamResumed", now)
              \/ settledSeconds' > settledSeconds /\ x = SettledLog
              \/ status # "Canceled" /\ status' = "Canceled" /\ x = CanceledLog
    BY EmittedLogs
  <1>2. /\ logs' \in Seq(LogRecords) /\ Len(logs) <= Len(logs')
        /\ \A i \in 1 .. Len(logs) : logs'[i] = logs[i]
        /\ \A i \in 1 .. Len(logs') : logs'[i].n = i
        /\ \A i, j \in Fresh(logs, logs') : logs'[i].event = logs'[j].event => i = j
        /\ \A i \in Fresh(logs, logs') :
              \E l \in LogRecords : Has(Emitted, l) /\ logs'[i] = [l EXCEPT !.n = i]
        /\ \A l : Has(Emitted, l) =>
              \E i \in Fresh(logs, logs') : l \in LogRecords /\ logs'[i] = [l EXCEPT !.n = i]
    BY <1>1, LogsAppended
  <1>3. Fresh(logs, logs') \subseteq Nat
    BY <1>2, LenProperties DEF Fresh
  <1>4. /\ Log("StreamCreated").event = "StreamCreated"
        /\ Stamped("StreamStarted", startedAt').event = "StreamStarted"
        /\ Stamped("StreamPaused", now).event = "StreamPaused"
        /\ Stamped("StreamResumed", now).event = "StreamResumed"
    BY DEF Log, Stamped
  <1>5. DepositedLog.event = "Deposited" /\ DepositedLog.amount = deposited' - deposited
    BY DEF Log, DepositedLog
  <1>6. /\ SettledLog.event = "Settled" /\ SettledLog.fee = settledFee' - settledFee
        /\ SettledLog.seconds = settledSeconds' - settledSeconds
        /\ SettledLog.amount = settledAmount' - settledAmount
    BY DEF Log, SettledLog
  <1>7. /\ CanceledLog.event = "StreamCanceled"
        /\ CanceledLog.secondsElapsed = closedActiveSeconds'
        /\ CanceledLog.amountSettled = settledAmount'
        /\ CanceledLog.amountRefunded = toSubscriber' - toSubscriber
    BY DEF Log, CanceledLog
  <1>8. ASSUME NEW i \in Fresh(logs, logs')
        PROVE  /\ status' # "None" \/ deposited' > deposited
                    \/ startedAt' # startedAt \/ settledSeconds' > settledSeconds
               /\ logs'[i].event = "Deposited" =>
                    deposited' > deposited /\ logs'[i].amount = deposited' - deposited
               /\ logs'[i].event = "StreamStarted" => startedAt' # startedAt
               /\ logs'[i].event = "Settled" =>
                    /\ settledSeconds' > settledSeconds
                    /\ logs'[i].seconds = settledSeconds' - settledSeconds
                    /\ logs'[i].amount = settledAmount' - settledAmount
                    /\ logs'[i].fee = settledFee' - settledFee
               /\ logs'[i].event = "StreamCanceled" =>
                    /\ status # "Canceled" /\ status' = "Canceled"
                    /\ logs'[i].secondsElapsed = closedActiveSeconds'
                    /\ logs'[i].amountSettled = settledAmount'
                    /\ logs'[i].amountRefunded = toSubscriber' - toSubscriber
    <2>1. PICK l \in LogRecords : Has(Emitted, l) /\ logs'[i] = [l EXCEPT !.n = i]
      BY <1>2
    <2>2. /\ logs'[i].event = l.event /\ logs'[i].seconds = l.seconds
          /\ logs'[i].amount = l.amount /\ logs'[i].fee = l.fee
          /\ logs'[i].secondsElapsed = l.secondsElapsed
          /\ logs'[i].amountSettled = l.amountSettled
          /\ logs'[i].amountRefunded = l.amountRefunded
      <3>1. i \in Nat
        BY <1>3
      <3>2. QED
        BY <2>1, <3>1, NumberedLog
    <2>3. \/ status = "None" /\ status' # "None" /\ l = Log("StreamCreated")
          \/ deposited' > deposited /\ l = DepositedLog
          \/ startedAt' # startedAt /\ l = Stamped("StreamStarted", startedAt')
          \/ status = "Active" /\ status' = "Paused" /\ l = Stamped("StreamPaused", now)
          \/ status = "Paused" /\ status' = "Active" /\ l = Stamped("StreamResumed", now)
          \/ settledSeconds' > settledSeconds /\ l = SettledLog
          \/ status # "Canceled" /\ status' = "Canceled" /\ l = CanceledLog
      BY <1>1, <2>1
    <2>4. QED
      BY <2>2, <2>3, <1>4, <1>5, <1>6, <1>7
  <1>9. ASSUME deposited' > deposited
        PROVE  \E i \in Fresh(logs, logs') : logs'[i].event = "Deposited"
    <2>1. Has(Emitted, DepositedLog)
      BY <1>1, <1>9
    <2>2. PICK i \in Fresh(logs, logs') : /\ DepositedLog \in LogRecords
                                          /\ logs'[i] = [DepositedLog EXCEPT !.n = i]
      BY <1>2, <2>1
    <2>3. i \in Nat
      BY <1>3
    <2>4. [DepositedLog EXCEPT !.n = i].event = DepositedLog.event
      BY <2>2, <2>3, NumberedLog
    <2>5. QED
      BY <2>2, <2>4, <1>5
  <1>10. ASSUME settledSeconds' > settledSeconds
         PROVE  \E i \in Fresh(logs, logs') : logs'[i].event = "Settled"
    <2>1. Has(Emitted, SettledLog)
      BY <1>1, <1>10
    <2>2. PICK i \in Fresh(logs, logs') : /\ SettledLog \in LogRecords
                                          /\ logs'[i] = [SettledLog EXCEPT !.n = i]
      BY <1>2, <2>1
    <2>3. i \in Nat
      BY <1>3
    <2>4. [SettledLog EXCEPT !.n = i].event = SettledLog.event
      BY <2>2, <2>3, NumberedLog
    <2>5. QED
      BY <2>2, <2>4, <1>6
  <1>11. ASSUME status # "Canceled" /\ status' = "Canceled"
         PROVE  \E i \in Fresh(logs, logs') : logs'[i].event = "StreamCanceled"
    <2>1. Has(Emitted, CanceledLog)
      BY <1>1, <1>11
    <2>2. PICK i \in Fresh(logs, logs') : /\ CanceledLog \in LogRecords
                                          /\ logs'[i] = [CanceledLog EXCEPT !.n = i]
      BY <1>2, <2>1
    <2>3. i \in Nat
      BY <1>3
    <2>4. [CanceledLog EXCEPT !.n = i].event = CanceledLog.event
      BY <2>2, <2>3, NumberedLog
    <2>5. QED
      BY <2>2, <2>4, <1>7
  <1>12. QED
    BY <1>2, <1>8, <1>9, <1>10, <1>11

-----------------------------------------------------------------------------
(* The inductive invariant.                                                *)

Statuses == {"incomplete", "active", "paused", "canceled"}

RowRecords ==
  [status : Statuses, endedReason : {"none", "canceled", "cap_reached"},
   pendingTx : Nat, streamAddress : BOOLEAN, startedAt : Nat, pausedAt : Nat,
   pausedSeconds : Nat, fundedWei : Nat, settledSeconds : Nat, settledWei : Nat,
   settledFeeWei : Nat]

DbTypeOK ==
  /\ startMode \in {"checkout", "merchant"}
  /\ row \in RowRecords
  /\ ledger \in [deposit : Nat, settlement : Nat, fee : Nat, refund : Nat]
  /\ invoiced \in [seconds : Nat, amount : Nat]
  /\ events \in [created : Nat, paymentFailed : Nat, canceled : Nat]

(* The logs tell the stream: the pot is funded once, it starts once and    *)
(* ends once, and the log of the end carries the final totals.             *)
EachOnce == {"Deposited", "StreamStarted", "StreamCanceled"}

LogInv ==
  /\ logs \in Seq(LogRecords)
  /\ \A i \in 1 .. Len(logs) : logs[i].n = i
  /\ Len(logs) # 0 => status # "None"
  /\ PotFull
  /\ \A i, j \in 1 .. Len(logs) :
       logs[i].event \in EachOnce /\ logs[j].event = logs[i].event => i = j
  /\ \A i \in 1 .. Len(logs) :
       /\ logs[i].event = "StreamStarted" => startedAt # 0
       /\ logs[i].event = "Settled" => logs[i].fee <= logs[i].amount
       /\ logs[i].event = "StreamCanceled" =>
            /\ status = "Canceled"
            /\ logs[i].secondsElapsed = settledSeconds
            /\ logs[i].amountSettled = settledAmount

(* Whatever is on its way is a log of the chain, and a log in a            *)
(* transaction is in no other one and is not known yet.                    *)
DeliveryInv ==
  /\ stored \subseteq 1 .. Len(logs) /\ ignored \subseteq 1 .. Len(logs)
  /\ stored \cap ignored = {}
  /\ taken \in 0 .. Len(logs) /\ open \subseteq 1 .. taken /\ DOMAIN tries \subseteq 1 .. taken
  /\ replay \subseteq 1 .. Len(logs)
  /\ \A t \in writing :
       /\ t.pausedAt \in Nat
       /\ t.log.n \in 1 .. Len(logs) /\ t.log = logs[t.log.n]
       /\ t.log.n \notin stored /\ t.log.n \notin ignored
  /\ \A t, u \in writing : t.log = u.log => t = u

(* Kind by kind: which event carries it, what the chain moved, what the    *)
(* books show; the difference is what the logs not yet stored carry.       *)
Kinds == {"deposit", "settlement", "fee", "refund", "seconds", "amount"}

Bearer ==
  [deposit |-> "Deposited", settlement |-> "Settled", fee |-> "Settled",
   refund |-> "StreamCanceled", seconds |-> "Settled", amount |-> "Settled"]

Worth(k, l) ==
  IF l.event # Bearer[k] THEN 0
  ELSE CASE k = "deposit"    -> l.amount
         [] k = "settlement" -> l.amount - l.fee
         [] k = "fee"        -> l.fee
         [] k = "refund"     -> l.amountRefunded
         [] k = "seconds"    -> l.seconds
         [] k = "amount"     -> l.amount

Moved(k) ==
  CASE k = "deposit"    -> deposited
    [] k = "settlement" -> toMerchant
    [] k = "fee"        -> toTreasury
    [] k = "refund"     -> toSubscriber
    [] k = "seconds"    -> settledSeconds
    [] k = "amount"     -> settledAmount

Shown(k) ==
  CASE k = "deposit"    -> ledger.deposit
    [] k = "settlement" -> ledger.settlement
    [] k = "fee"        -> ledger.fee
    [] k = "refund"     -> ledger.refund
    [] k = "seconds"    -> invoiced.seconds
    [] k = "amount"     -> invoiced.amount

Weights(k, s) == [i \in 1 .. Len(s) |-> Worth(k, s[i])]

BooksInv ==
  /\ \A k \in Kinds : Pending(Len(logs), Weights(k, logs), stored, Moved(k) - Shown(k))
  /\ row.settledFeeWei = ledger.fee

(* What the merchant was told follows from which logs are stored, and the  *)
(* outcome of a stream from how long it ran.                               *)
Heard(event) == \E i \in stored : logs[i].event = event

Announced == \E i \in stored : Announces(logs[i])

OutcomeInv ==
  /\ events.created = IF Announced THEN 1 ELSE 0
  /\ events.canceled = IF Heard("StreamCanceled") THEN 1 ELSE 0
  /\ events.paymentFailed = IF Heard("StreamCanceled") /\ ran >= maxSeconds THEN 1 ELSE 0
  /\ row.endedReason # "none" =>
       /\ status = "Canceled"
       /\ row.endedReason = IF ran >= maxSeconds THEN "cap_reached" ELSE "canceled"
  /\ row.status = "canceled" =>
       /\ status = "Canceled"
       /\ row.settledSeconds = settledSeconds /\ row.settledWei = settledAmount

(* The newest turn that was applied is a stored log.                       *)
HistoryInv == latest \in {0} \cup stored /\ misread \in BOOLEAN

PipelineInv == IInv /\ DbTypeOK /\ LogInv /\ DeliveryInv /\ BooksInv /\ OutcomeInv

-----------------------------------------------------------------------------
(* It says what the properties say.                                        *)

LEMMA DeltaType ==
  ASSUME PipelineInv, NEW k \in Kinds
  PROVE  Moved(k) - Shown(k) \in Nat /\ Moved(k) \in Nat /\ Shown(k) \in Nat
  <1>1. Moved(k) - Shown(k) \in Nat
    <2>1. Len(logs) \in Nat
      BY LenProperties DEF PipelineInv, LogInv
    <2>2. QED
      BY <2>1, PendingType DEF PipelineInv, BooksInv
  <1>2. Moved(k) \in Nat
    BY DEF PipelineInv, IInv, TypeOK, Moved, Kinds
  <1>3. Shown(k) \in Nat
    BY DEF PipelineInv, DbTypeOK, Shown, Kinds
  <1>4. QED
    BY <1>1, <1>2, <1>3

LEMMA InvGivesType == PipelineInv /\ HistoryInv => PipelineTypeOK
  <1> SUFFICES ASSUME PipelineInv, HistoryInv PROVE PipelineTypeOK
    OBVIOUS
  <1> USE DEF PipelineInv
  <1>1. DOMAIN logs = 1 .. Len(logs)
    BY LenProperties DEF LogInv
  <1>2. /\ row.status \in Statuses /\ row.endedReason \in {"none", "canceled", "cap_reached"}
        /\ row.streamAddress \in BOOLEAN
    BY DEF DbTypeOK, RowRecords
  <1>3. \A f \in {"pendingTx", "startedAt", "pausedAt", "pausedSeconds", "fundedWei",
                  "settledSeconds", "settledWei", "settledFeeWei"} : row[f] \in Nat
    BY DEF DbTypeOK, RowRecords
  <1>4. \A k \in DOMAIN ledger : ledger[k] \in Nat
    BY DEF DbTypeOK
  <1>5. QED
    BY <1>1, <1>2, <1>3, <1>4 DEF PipelineTypeOK, DbTypeOK, Statuses, DeliveryInv, HistoryInv

LEMMA InvGivesBooks == PipelineInv => BooksMatchChain
  <1> SUFFICES ASSUME PipelineInv PROVE BooksMatchChain
    OBVIOUS
  <1>1. \A k \in Kinds : Moved(k) - Shown(k) \in Nat /\ Moved(k) \in Nat /\ Shown(k) \in Nat
    BY DeltaType
  <1>2. /\ ledger.deposit \in Nat /\ deposited \in Nat /\ deposited - ledger.deposit \in Nat
        /\ ledger.settlement \in Nat /\ toMerchant \in Nat /\ toMerchant - ledger.settlement \in Nat
        /\ ledger.fee \in Nat /\ toTreasury \in Nat /\ toTreasury - ledger.fee \in Nat
        /\ ledger.refund \in Nat /\ toSubscriber \in Nat /\ toSubscriber - ledger.refund \in Nat
        /\ invoiced.seconds \in Nat /\ settledSeconds \in Nat /\ settledSeconds - invoiced.seconds \in Nat
        /\ invoiced.amount \in Nat /\ settledAmount \in Nat /\ settledAmount - invoiced.amount \in Nat
    BY <1>1 DEF Kinds, Moved, Shown
  <1>3. row.settledFeeWei = ledger.fee /\ toTreasury = settledFee
    BY DEF PipelineInv, BooksInv, IInv, Solvent
  <1>4. /\ ledger.deposit <= deposited /\ ledger.settlement <= toMerchant
        /\ ledger.fee <= toTreasury /\ ledger.refund <= toSubscriber
        /\ row.settledFeeWei <= settledFee /\ invoiced.seconds <= settledSeconds
        /\ invoiced.amount <= settledAmount
    BY <1>2, <1>3
  <1>5. ASSUME Complete
        PROVE  /\ ledger.deposit = deposited /\ ledger.settlement = toMerchant
               /\ ledger.fee = toTreasury /\ ledger.refund = toSubscriber
               /\ row.settledFeeWei = settledFee /\ invoiced.seconds = settledSeconds
               /\ invoiced.amount = settledAmount
    <2>1. 1 .. Len(logs) \subseteq stored /\ Len(logs) \in Nat
      BY <1>5, LenProperties DEF Complete, PipelineInv, LogInv
    <2>2. \A k \in Kinds : Moved(k) - Shown(k) = 0
      BY <2>1, PendingAllDone DEF PipelineInv, BooksInv
    <2>3. /\ deposited - ledger.deposit = 0 /\ toMerchant - ledger.settlement = 0
          /\ toTreasury - ledger.fee = 0 /\ toSubscriber - ledger.refund = 0
          /\ settledSeconds - invoiced.seconds = 0 /\ settledAmount - invoiced.amount = 0
      BY <2>2 DEF Kinds, Moved, Shown
    <2>4. QED
      BY <2>3, <1>2, <1>3
  <1>6. QED
    BY <1>4, <1>5 DEF BooksMatchChain

LEMMA InvGivesTold == PipelineInv => MerchantToldOnce
  <1> SUFFICES ASSUME PipelineInv PROVE MerchantToldOnce
    OBVIOUS
  <1>1. OutcomeInv
    BY DEF PipelineInv
  <1>2. ran \in Nat /\ maxSeconds \in Nat
    BY MaxSecondsBounds DEF PipelineInv, IInv, TypeOK
  <1> HIDE DEF maxSeconds
  <1>3. QED
    BY <1>1, <1>2 DEF OutcomeInv, MerchantToldOnce

LEMMA InvGivesTotals == PipelineInv => FinalTotalsExact
  BY DEF PipelineInv, OutcomeInv, FinalTotalsExact

-----------------------------------------------------------------------------
(* The initial states.                                                     *)

LEMMA InitPipelineInv == PipelineInit => PipelineInv
  <1> SUFFICES ASSUME PipelineInit PROVE PipelineInv
    OBVIOUS
  <1> USE DEF PipelineInit
  <1>1. IInv
    BY InitIInv
  <1>2. DbTypeOK
    BY DEF IngestInit, DbTypeOK, RowRecords, Statuses
  <1>3. logs \in Seq(LogRecords) /\ Len(logs) = 0
    BY EmptySeq
  <1>4. LogInv
    BY <1>3 DEF LogInv, PotFull, Init
  <1>5. DOMAIN tries = {}
    OBVIOUS
  <1>6. DeliveryInv
    BY <1>3, <1>5 DEF DeliveryInv, IngestInit
  <1>7. ASSUME NEW k \in Kinds
        PROVE  Pending(Len(logs), Weights(k, logs), stored, Moved(k) - Shown(k))
    <2>1. Moved(k) = 0 /\ Shown(k) = 0
      BY DEF Moved, Shown, Kinds, Init, IngestInit
    <2>2. QED
      BY <1>3, <2>1, PendingOfNone
  <1>8. BooksInv
    BY <1>7 DEF BooksInv, IngestInit
  <1>9. OutcomeInv
    BY DEF OutcomeInv, IngestInit, Heard, Announced
  <1>10. QED
    BY <1>1, <1>2, <1>4, <1>6, <1>8, <1>9 DEF PipelineInv

-----------------------------------------------------------------------------
(* The steps of the stream.                                                *)

LEMMA WorthType ==
  ASSUME NEW k \in Kinds, NEW l \in LogRecords, l.event = "Settled" => l.fee <= l.amount
  PROVE  Worth(k, l) \in Nat
  BY DEF Kinds, LogRecords, Worth, Bearer

LEMMA WeightsType ==
  ASSUME NEW s \in Seq(LogRecords), NEW k \in Kinds,
         \A i \in 1 .. Len(s) : s[i].event = "Settled" => s[i].fee <= s[i].amount
  PROVE  Weights(k, s) \in [1 .. Len(s) -> Nat]
  <1>1. \A i \in 1 .. Len(s) : s[i] \in LogRecords
    BY ElementOfSeq
  <1>2. QED
    BY <1>1, WorthType DEF Weights

(* What NewLogs says, by name.                                             *)
Grown ==
  /\ logs' \in Seq(LogRecords) /\ Len(logs) <= Len(logs')
  /\ \A i \in 1 .. Len(logs) : logs'[i] = logs[i]
  /\ \A i \in 1 .. Len(logs') : logs'[i].n = i
  /\ \A i, j \in Fresh(logs, logs') : logs'[i].event = logs'[j].event => i = j

LEMMA EmitKeepsLogInv ==
  ASSUME PipelineInv, ChainStep, Emit
  PROVE  LogInv' /\ Grown
  <1>1. /\ IInv /\ IInv' /\ LogInv /\ PotFull /\ PotFull' /\ Moves /\ MoneyGrows
        /\ TypeOK /\ TypeOK'
    BY ChainStepMoves DEF PipelineInv, LogInv, IInv
  <1>2. /\ logs \in Seq(LogRecords) /\ Len(logs) \in Nat
        /\ \A i \in 1 .. Len(logs) : logs[i].n = i
        /\ logs' = logs \o Numbered(Emitted)
    BY <1>1, LenProperties DEF LogInv, Emit
  <1>3. Grown
    BY <1>1, <1>2, NewLogs DEF Grown
  <1>4. Len(logs') \in Nat /\ Len(logs) <= Len(logs')
    BY <1>3, LenProperties DEF Grown
  <1>5. ASSUME NEW i \in 1 .. Len(logs') PROVE i \in 1 .. Len(logs) \/ i \in Fresh(logs, logs')
    BY <1>2, <1>4 DEF Fresh
  <1>6. ASSUME NEW i \in Fresh(logs, logs')
        PROVE  /\ status' # "None" \/ deposited' > deposited
                    \/ startedAt' # startedAt \/ settledSeconds' > settledSeconds
               /\ logs'[i].event = "Deposited" => deposited' > deposited
               /\ logs'[i].event = "StreamStarted" => startedAt' # startedAt
               /\ logs'[i].event = "Settled" =>
                    /\ logs'[i].amount = settledAmount' - settledAmount
                    /\ logs'[i].fee = settledFee' - settledFee
               /\ logs'[i].event = "StreamCanceled" =>
                    /\ status # "Canceled" /\ status' = "Canceled"
                    /\ logs'[i].secondsElapsed = closedActiveSeconds'
                    /\ logs'[i].amountSettled = settledAmount'
    BY <1>1, <1>2, NewLogs
  <1>7. ASSUME NEW i \in Fresh(logs, logs') PROVE status' # "None"
    <2>1. deposited \in Nat /\ settledSeconds \in Nat
      BY <1>1 DEF TypeOK
    <2>2. QED
      BY <2>1, <1>1, <1>6 DEF Moves
  <1>8. Len(logs') # 0 => status' # "None"
    <2>1. CASE Len(logs) # 0
      BY <2>1, <1>1 DEF LogInv, Moves
    <2>2. CASE Len(logs) = 0 /\ Len(logs') # 0
      <3>1. Len(logs') \in Fresh(logs, logs')
        BY <1>4, <2>2 DEF Fresh
      <3>2. QED
        BY <3>1, <1>7
    <2>3. QED
      BY <2>1, <2>2
  <1>9. ASSUME NEW i \in 1 .. Len(logs), NEW j \in Fresh(logs, logs'),
               logs'[i].event \in EachOnce, logs'[j].event = logs'[i].event
        PROVE  FALSE
    <2>1. logs'[i] = logs[i] /\ Len(logs) # 0
      BY <1>2, <1>3 DEF Grown
    <2>2. CASE logs[i].event = "Deposited"
      <3>1. status = "None"
        <4>1. deposited' > deposited /\ deposited \in Nat
          BY <1>1, <1>6, <1>9, <2>1, <2>2 DEF TypeOK
        <4>2. QED
          BY <4>1, <1>1 DEF Moves
      <3>2. QED
        BY <3>1, <2>1, <1>1 DEF LogInv
    <2>3. CASE logs[i].event = "StreamStarted"
      BY <2>1, <2>3, <1>1, <1>6, <1>9 DEF LogInv, Moves
    <2>4. CASE logs[i].event = "StreamCanceled"
      BY <2>1, <2>4, <1>1, <1>6, <1>9 DEF LogInv
    <2>5. QED
      BY <2>1, <2>2, <2>3, <2>4, <1>9 DEF EachOnce
  <1>10. ASSUME NEW i \in 1 .. Len(logs'), NEW j \in 1 .. Len(logs'),
                logs'[i].event \in EachOnce, logs'[j].event = logs'[i].event
         PROVE  i = j
    <2>1. CASE i \in 1 .. Len(logs) /\ j \in 1 .. Len(logs)
      <3>1. logs'[i] = logs[i] /\ logs'[j] = logs[j]
        BY <2>1, <1>3 DEF Grown
      <3>2. QED
        BY <2>1, <3>1, <1>1, <1>10 DEF LogInv
    <2>2. CASE i \in Fresh(logs, logs') /\ j \in Fresh(logs, logs')
      BY <2>2, <1>3, <1>10 DEF Grown
    <2>3. CASE i \in 1 .. Len(logs) /\ j \in Fresh(logs, logs')
      BY <2>3, <1>9, <1>10
    <2>4. CASE j \in 1 .. Len(logs) /\ i \in Fresh(logs, logs')
      BY <2>4, <1>9, <1>10
    <2>5. QED
      BY <2>1, <2>2, <2>3, <2>4, <1>5
  <1>11. ASSUME NEW i \in 1 .. Len(logs')
         PROVE  /\ logs'[i].event = "StreamStarted" => startedAt' # 0
                /\ logs'[i].event = "Settled" => logs'[i].fee <= logs'[i].amount
                /\ logs'[i].event = "StreamCanceled" =>
                     /\ status' = "Canceled"
                     /\ logs'[i].secondsElapsed = settledSeconds'
                     /\ logs'[i].amountSettled = settledAmount'
    <2>1. CASE i \in 1 .. Len(logs)
      <3>1. logs'[i] = logs[i]
        BY <2>1, <1>3 DEF Grown
      <3>2. startedAt # 0 => startedAt' # 0
        BY <1>1 DEF Moves
      <3>3. status = "Canceled" =>
              status' = "Canceled" /\ UNCHANGED <<settledSeconds, settledAmount>>
        BY <1>1 DEF Moves
      <3>4. QED
        BY <2>1, <3>1, <3>2, <3>3, <1>1 DEF LogInv
    <2>2. CASE i \in Fresh(logs, logs')
      <3>1. status' = "Canceled" => closedActiveSeconds' = settledSeconds'
        BY <1>1 DEF IInv, EndIsExact
      <3>2. QED
        BY <2>2, <3>1, <1>1, <1>6 DEF Moves
    <2>3. QED
      BY <2>1, <2>2, <1>5
  <1>12. QED
    BY <1>1, <1>3, <1>8, <1>10, <1>11 DEF LogInv, Grown

LEMMA EmitKeepsBooks ==
  ASSUME PipelineInv, ChainStep, Emit
  PROVE  BooksInv'
  <1>1. /\ IInv /\ IInv' /\ LogInv /\ LogInv' /\ Grown /\ Moves /\ MoneyGrows
        /\ TypeOK /\ TypeOK' /\ Solvent /\ Solvent'
    BY ChainStepMoves, EmitKeepsLogInv DEF PipelineInv, LogInv, IInv
  <1>2. /\ logs \in Seq(LogRecords) /\ Len(logs) \in Nat
        /\ \A i \in 1 .. Len(logs) : logs[i].n = i
        /\ logs' = logs \o Numbered(Emitted)
    BY <1>1, LenProperties DEF LogInv, Emit
  <1>3. Len(logs') \in Nat /\ Len(logs) <= Len(logs')
    BY <1>1, LenProperties DEF Grown
  <1>4. UNCHANGED <<stored, row, ledger, invoiced>>
    BY DEF Emit, db
  <1>5. ASSUME NEW k \in Kinds
        PROVE  /\ Moved(k)' - Moved(k) \in Nat
               /\ \A i \in Fresh(logs, logs') :
                    logs'[i].event = Bearer[k] => Worth(k, logs'[i]) = Moved(k)' - Moved(k)
               /\ Moved(k)' # Moved(k) =>
                    \E i \in Fresh(logs, logs') : logs'[i].event = Bearer[k]
    <2>1. ASSUME NEW i \in Fresh(logs, logs')
          PROVE  /\ logs'[i].event = "Deposited" => logs'[i].amount = deposited' - deposited
                 /\ logs'[i].event = "Settled" =>
                      /\ logs'[i].seconds = settledSeconds' - settledSeconds
                      /\ logs'[i].amount = settledAmount' - settledAmount
                      /\ logs'[i].fee = settledFee' - settledFee
                 /\ logs'[i].event = "StreamCanceled" =>
                      logs'[i].amountRefunded = toSubscriber' - toSubscriber
      BY <1>1, <1>2, NewLogs
    <2>2. /\ deposited' > deposited =>
                \E i \in Fresh(logs, logs') : logs'[i].event = "Deposited"
          /\ settledSeconds' > settledSeconds =>
                \E i \in Fresh(logs, logs') : logs'[i].event = "Settled"
          /\ status # "Canceled" /\ status' = "Canceled" =>
                \E i \in Fresh(logs, logs') : logs'[i].event = "StreamCanceled"
      BY <1>1, <1>2, NewLogs
    <2>3. /\ deposited \in Nat /\ settledSeconds \in Nat /\ settledAmount \in Nat
          /\ settledFee \in Nat /\ toSubscriber \in Nat
          /\ deposited' \in Nat /\ settledSeconds' \in Nat /\ settledAmount' \in Nat
          /\ settledFee' \in Nat /\ toSubscriber' \in Nat
      BY <1>1 DEF TypeOK
    <2>4. /\ toTreasury = settledFee /\ toMerchant = settledAmount - settledFee
          /\ toTreasury' = settledFee' /\ toMerchant' = settledAmount' - settledFee'
      BY <1>1 DEF Solvent
    <2>5. /\ deposited' - deposited \in Nat /\ settledSeconds' - settledSeconds \in Nat
          /\ settledAmount' - settledAmount \in Nat /\ settledFee' - settledFee \in Nat
          /\ toSubscriber' - toSubscriber \in Nat
          /\ settledFee' - settledFee <= settledAmount' - settledAmount
      <3>1. /\ deposited' >= deposited /\ settledSeconds' >= settledSeconds
            /\ settledAmount' >= settledAmount /\ settledFee' >= settledFee
            /\ toSubscriber' >= toSubscriber
            /\ settledFee' - settledFee <= settledAmount' - settledAmount
        BY <1>1 DEF MoneyGrows, Moves
      <3>2. \A a, b \in Nat : a >= b => a - b \in Nat
        OBVIOUS
      <3>3. QED
        BY <2>3, <3>1, <3>2
    <2>6. /\ deposited' # deposited => deposited' > deposited
          /\ settledSeconds' > settledSeconds \/ UNCHANGED <<settledSeconds, settledAmount, settledFee>>
          /\ toSubscriber' # toSubscriber => status # "Canceled" /\ status' = "Canceled"
      BY <1>1, <2>3 DEF Moves, MoneyGrows
    <2>7. CASE k = "deposit"
      <3>1. /\ Bearer[k] = "Deposited" /\ Moved(k) = deposited
            /\ Moved(k)' = deposited'
        BY <2>4, <2>7 DEF Bearer, Moved
      <3>2. \A l : l.event = "Deposited" => Worth(k, l) = l.amount
        BY <2>7, <3>1 DEF Worth
      <3>3. /\ Moved(k)' - Moved(k) = deposited' - deposited
            /\ Moved(k)' - Moved(k) \in Nat
        BY <2>3, <2>5, <3>1
      <3>4. ASSUME NEW i \in Fresh(logs, logs'), logs'[i].event = Bearer[k]
            PROVE  Worth(k, logs'[i]) = Moved(k)' - Moved(k)
        BY <2>1, <3>1, <3>2, <3>3, <3>4
      <3>5. Moved(k)' # Moved(k) => \E i \in Fresh(logs, logs') : logs'[i].event = Bearer[k]
        BY <2>2, <2>6, <3>1
      <3>6. QED
        BY <3>3, <3>4, <3>5
    <2>8. CASE k = "settlement"
      <3>1. /\ Bearer[k] = "Settled" /\ Moved(k) = settledAmount - settledFee
            /\ Moved(k)' = settledAmount' - settledFee'
        BY <2>4, <2>8 DEF Bearer, Moved
      <3>2. \A l : l.event = "Settled" => Worth(k, l) = l.amount - l.fee
        BY <2>8, <3>1 DEF Worth
      <3>3. /\ Moved(k)' - Moved(k) = (settledAmount' - settledAmount) - (settledFee' - settledFee)
            /\ Moved(k)' - Moved(k) \in Nat
        <4>1. Moved(k)' - Moved(k) = (settledAmount' - settledAmount) - (settledFee' - settledFee)
          BY <2>3, <3>1
        <4>2. \A a, b \in Nat : b <= a => a - b \in Nat
          OBVIOUS
        <4>3. QED
          BY <2>5, <4>1, <4>2
      <3>4. ASSUME NEW i \in Fresh(logs, logs'), logs'[i].event = Bearer[k]
            PROVE  Worth(k, logs'[i]) = Moved(k)' - Moved(k)
        BY <2>1, <3>1, <3>2, <3>3, <3>4
      <3>5. Moved(k)' # Moved(k) => \E i \in Fresh(logs, logs') : logs'[i].event = Bearer[k]
        BY <2>2, <2>6, <3>1
      <3>6. QED
        BY <3>3, <3>4, <3>5
    <2>9. CASE k = "fee"
      <3>1. /\ Bearer[k] = "Settled" /\ Moved(k) = settledFee
            /\ Moved(k)' = settledFee'
        BY <2>4, <2>9 DEF Bearer, Moved
      <3>2. \A l : l.event = "Settled" => Worth(k, l) = l.fee
        BY <2>9, <3>1 DEF Worth
      <3>3. /\ Moved(k)' - Moved(k) = settledFee' - settledFee
            /\ Moved(k)' - Moved(k) \in Nat
        BY <2>3, <2>5, <3>1
      <3>4. ASSUME NEW i \in Fresh(logs, logs'), logs'[i].event = Bearer[k]
            PROVE  Worth(k, logs'[i]) = Moved(k)' - Moved(k)
        BY <2>1, <3>1, <3>2, <3>3, <3>4
      <3>5. Moved(k)' # Moved(k) => \E i \in Fresh(logs, logs') : logs'[i].event = Bearer[k]
        BY <2>2, <2>6, <3>1
      <3>6. QED
        BY <3>3, <3>4, <3>5
    <2>10. CASE k = "refund"
      <3>1. /\ Bearer[k] = "StreamCanceled" /\ Moved(k) = toSubscriber
            /\ Moved(k)' = toSubscriber'
        BY <2>4, <2>10 DEF Bearer, Moved
      <3>2. \A l : l.event = "StreamCanceled" => Worth(k, l) = l.amountRefunded
        BY <2>10, <3>1 DEF Worth
      <3>3. /\ Moved(k)' - Moved(k) = toSubscriber' - toSubscriber
            /\ Moved(k)' - Moved(k) \in Nat
        BY <2>3, <2>5, <3>1
      <3>4. ASSUME NEW i \in Fresh(logs, logs'), logs'[i].event = Bearer[k]
            PROVE  Worth(k, logs'[i]) = Moved(k)' - Moved(k)
        BY <2>1, <3>1, <3>2, <3>3, <3>4
      <3>5. Moved(k)' # Moved(k) => \E i \in Fresh(logs, logs') : logs'[i].event = Bearer[k]
        BY <2>2, <2>6, <3>1
      <3>6. QED
        BY <3>3, <3>4, <3>5
    <2>11. CASE k = "seconds"
      <3>1. /\ Bearer[k] = "Settled" /\ Moved(k) = settledSeconds
            /\ Moved(k)' = settledSeconds'
        BY <2>4, <2>11 DEF Bearer, Moved
      <3>2. \A l : l.event = "Settled" => Worth(k, l) = l.seconds
        BY <2>11, <3>1 DEF Worth
      <3>3. /\ Moved(k)' - Moved(k) = settledSeconds' - settledSeconds
            /\ Moved(k)' - Moved(k) \in Nat
        BY <2>3, <2>5, <3>1
      <3>4. ASSUME NEW i \in Fresh(logs, logs'), logs'[i].event = Bearer[k]
            PROVE  Worth(k, logs'[i]) = Moved(k)' - Moved(k)
        BY <2>1, <3>1, <3>2, <3>3, <3>4
      <3>5. Moved(k)' # Moved(k) => \E i \in Fresh(logs, logs') : logs'[i].event = Bearer[k]
        BY <2>2, <2>6, <3>1
      <3>6. QED
        BY <3>3, <3>4, <3>5
    <2>12. CASE k = "amount"
      <3>1. /\ Bearer[k] = "Settled" /\ Moved(k) = settledAmount
            /\ Moved(k)' = settledAmount'
        BY <2>4, <2>12 DEF Bearer, Moved
      <3>2. \A l : l.event = "Settled" => Worth(k, l) = l.amount
        BY <2>12, <3>1 DEF Worth
      <3>3. /\ Moved(k)' - Moved(k) = settledAmount' - settledAmount
            /\ Moved(k)' - Moved(k) \in Nat
        BY <2>3, <2>5, <3>1
      <3>4. ASSUME NEW i \in Fresh(logs, logs'), logs'[i].event = Bearer[k]
            PROVE  Worth(k, logs'[i]) = Moved(k)' - Moved(k)
        BY <2>1, <3>1, <3>2, <3>3, <3>4
      <3>5. Moved(k)' # Moved(k) => \E i \in Fresh(logs, logs') : logs'[i].event = Bearer[k]
        BY <2>2, <2>6, <3>1
      <3>6. QED
        BY <3>3, <3>4, <3>5
    <2>13. QED
      BY <2>7, <2>8, <2>9, <2>10, <2>11, <2>12 DEF Kinds
  <1>6. ASSUME NEW k \in Kinds
        PROVE  Pending(Len(logs), Weights(k, logs), stored, Moved(k) - Shown(k))'
    <2> DEFINE v == Moved(k)' - Moved(k)
               x == Moved(k) - Shown(k)
               w == Weights(k, logs)
               u == Weights(k, logs')
    <2>1. /\ Pending(Len(logs), w, stored, x) /\ stored \in SUBSET (1 .. Len(logs))
          /\ w \in [1 .. Len(logs) -> Nat] /\ u \in [1 .. Len(logs') -> Nat]
      <3>1. w \in [1 .. Len(logs) -> Nat]
        BY <1>1, WeightsType DEF LogInv
      <3>2. u \in [1 .. Len(logs') -> Nat]
        BY <1>1, WeightsType DEF LogInv
      <3>3. QED
        BY <3>1, <3>2 DEF PipelineInv, BooksInv, DeliveryInv
    <2>2. \A i \in 1 .. Len(logs) : u[i] = w[i]
      <3>1. ASSUME NEW i \in 1 .. Len(logs) PROVE u[i] = w[i]
        <4>1. i \in 1 .. Len(logs') /\ logs'[i] = logs[i]
          BY <1>1, <1>2, <1>3 DEF Grown
        <4>2. u[i] = Worth(k, logs'[i]) /\ w[i] = Worth(k, logs[i])
          BY <4>1 DEF Weights
        <4>3. QED
          BY <4>1, <4>2
      <3>2. QED
        BY <3>1
    <2>3. \A i \in Fresh(logs, logs') : i \in 1 .. Len(logs') /\ u[i] = Worth(k, logs'[i])
      BY <1>2, <1>3 DEF Fresh, Weights
    <2>4. v \in Nat
      BY <1>5
    <2>5. \E p \in Len(logs) + 1 .. Len(logs') + 1 :
            /\ p <= Len(logs') => u[p] = v
            /\ p > Len(logs') => v = 0
            /\ \A i \in Len(logs) + 1 .. Len(logs') : i # p => u[i] = 0
      <3>1. CASE \E p \in Fresh(logs, logs') : logs'[p].event = Bearer[k]
        <4>1. PICK p \in Fresh(logs, logs') : logs'[p].event = Bearer[k]
          BY <3>1
        <4>2. u[p] = v
          BY <4>1, <2>3, <1>5
        <4>3. ASSUME NEW i \in Fresh(logs, logs'), i # p PROVE u[i] = 0
          <5>1. logs'[i].event # Bearer[k]
            BY <4>1, <4>3, <1>1 DEF Grown
          <5>2. QED
            BY <5>1, <2>3 DEF Worth
        <4>4. p \in Len(logs) + 1 .. Len(logs') + 1 /\ ~(p > Len(logs'))
          BY <1>2, <1>3, <4>1 DEF Fresh
        <4>5. QED
          BY <4>2, <4>3, <4>4 DEF Fresh
      <3>2. CASE ~\E p \in Fresh(logs, logs') : logs'[p].event = Bearer[k]
        <4>1. v = 0
          <5>1. Moved(k)' = Moved(k)
            BY <3>2, <1>5
          <5>2. Moved(k) \in Nat
            BY DeltaType
          <5>3. QED
            BY <5>1, <5>2
        <4>2. \A i \in Fresh(logs, logs') : u[i] = 0
          BY <3>2, <2>3 DEF Worth
        <4>3. Len(logs') + 1 \in Len(logs) + 1 .. Len(logs') + 1 /\ ~(Len(logs') + 1 <= Len(logs'))
          BY <1>2, <1>3
        <4>4. QED
          BY <4>1, <4>2, <4>3 DEF Fresh
      <3>3. QED
        BY <3>1, <3>2
    <2> HIDE DEF u, w, v, x
    <2>6. Pending(Len(logs'), u, stored, x + v)
      <3>1. PICK p \in Len(logs) + 1 .. Len(logs') + 1 :
              /\ p <= Len(logs') => u[p] = v
              /\ p > Len(logs') => v = 0
              /\ \A i \in Len(logs) + 1 .. Len(logs') : i # p => u[i] = 0
        BY <2>5
      <3> DEFINE m == Len(logs)
                 n == Len(logs')
      <3>2. m \in Nat /\ n \in Nat /\ m <= n
        BY <1>2, <1>3
      <3>3. Pending(m, w, stored, x) /\ stored \in SUBSET (1 .. m)
        BY <2>1
      <3>4. u \in [1 .. n -> Nat]
        BY <2>1
      <3>5. \A i \in 1 .. m : u[i] = w[i]
        BY <2>2
      <3>6. /\ p \in m + 1 .. n + 1 /\ (p <= n => u[p] = v) /\ (p > n => v = 0)
            /\ \A i \in m + 1 .. n : i # p => u[i] = 0
        BY <3>1
      <3> HIDE DEF m, n
      <3>7. Pending(n, u, stored, x + v)
        BY <2>4, <3>2, <3>3, <3>4, <3>5, <3>6, PendingGrows
      <3>8. QED
        BY <3>7 DEF n
    <2>7. x + v = Moved(k)' - Shown(k)'
      <3>1. Shown(k)' = Shown(k)
        BY <1>4 DEF Shown
      <3>2. Moved(k) \in Nat /\ Shown(k) \in Nat
        BY DeltaType
      <3>3. Moved(k)' \in Int
        BY <1>1 DEF TypeOK, Moved, Kinds
      <3>4. QED
        BY <3>1, <3>2, <3>3 DEF x, v
    <2>8. QED
      BY <2>6, <2>7, <1>4 DEF u
  <1>7. row'.settledFeeWei = ledger'.fee
    BY <1>4 DEF PipelineInv, BooksInv
  <1>8. QED
    BY <1>6, <1>7 DEF BooksInv

LEMMA EmitKeepsInv ==
  ASSUME PipelineInv, ChainStep, Emit
  PROVE  PipelineInv'
  <1>1. /\ IInv /\ IInv' /\ LogInv /\ LogInv' /\ Grown /\ Moves /\ DeliveryInv /\ OutcomeInv
    BY ChainStepMoves, EmitKeepsLogInv DEF PipelineInv, LogInv
  <1>2. BooksInv'
    BY EmitKeepsBooks
  <1>3. UNCHANGED <<startMode, row, stored, ignored, writing, ledger, invoiced, events,
                    taken, open, tries, replay>>
    BY DEF Emit, db, delivery
  <1>4. DbTypeOK'
    BY <1>3 DEF PipelineInv, DbTypeOK
  <1>5. /\ Len(logs) \in Nat /\ Len(logs') \in Nat /\ Len(logs) <= Len(logs')
        /\ \A i \in 1 .. Len(logs) : i \in 1 .. Len(logs') /\ logs'[i] = logs[i]
    BY <1>1, LenProperties DEF LogInv, Grown
  <1>6. DeliveryInv'
    <2>1. ASSUME NEW t \in writing
          PROVE  /\ t.pausedAt \in Nat
                 /\ t.log.n \in 1 .. Len(logs') /\ t.log = logs'[t.log.n]
                 /\ t.log.n \notin stored /\ t.log.n \notin ignored
      BY <1>1, <1>5 DEF DeliveryInv
    <2>2. /\ stored \subseteq 1 .. Len(logs') /\ ignored \subseteq 1 .. Len(logs')
          /\ stored \cap ignored = {} /\ replay \subseteq 1 .. Len(logs')
      BY <1>1, <1>5 DEF DeliveryInv
    <2>3. taken \in 0 .. Len(logs') /\ open \subseteq 1 .. taken /\ DOMAIN tries \subseteq 1 .. taken
      BY <1>1, <1>5 DEF DeliveryInv
    <2>4. \A t, u \in writing : t.log = u.log => t = u
      BY <1>1 DEF DeliveryInv
    <2>5. QED
      BY <2>1, <2>2, <2>3, <2>4, <1>3 DEF DeliveryInv
  <1>7. \A i \in stored : logs'[i] = logs[i] /\ i \in 1 .. Len(logs)
    BY <1>1, <1>5 DEF DeliveryInv
  <1>8. Heard("StreamCanceled")' <=> Heard("StreamCanceled")
    BY <1>3, <1>7 DEF Heard
  <1>9. Announced' <=> Announced
    BY <1>3, <1>7 DEF Announced, Announces
  <1>10. Heard("StreamCanceled") => status = "Canceled"
    BY <1>1, <1>7 DEF Heard, LogInv
  <1>11. status = "Canceled" =>
           /\ status' = "Canceled" /\ ran' = ran /\ maxSeconds' = maxSeconds
           /\ settledSeconds' = settledSeconds /\ settledAmount' = settledAmount
    BY <1>1 DEF Moves, maxSeconds
  <1>12. OutcomeInv'
    <2> HIDE DEF maxSeconds
    <2>1. events'.created = IF Announced' THEN 1 ELSE 0
      BY <1>1, <1>3, <1>9 DEF OutcomeInv
    <2>2. events'.canceled = IF Heard("StreamCanceled")' THEN 1 ELSE 0
      BY <1>1, <1>3, <1>8 DEF OutcomeInv
    <2>3. events'.paymentFailed =
            IF Heard("StreamCanceled")' /\ ran' >= maxSeconds' THEN 1 ELSE 0
      BY <1>1, <1>3, <1>8, <1>10, <1>11 DEF OutcomeInv
    <2>4. row'.endedReason # "none" =>
            /\ status' = "Canceled"
            /\ row'.endedReason = IF ran' >= maxSeconds' THEN "cap_reached" ELSE "canceled"
      BY <1>1, <1>3, <1>11 DEF OutcomeInv
    <2>5. row'.status = "canceled" =>
            /\ status' = "Canceled"
            /\ row'.settledSeconds = settledSeconds' /\ row'.settledWei = settledAmount'
      BY <1>1, <1>3, <1>11 DEF OutcomeInv
    <2>6. QED
      BY <2>1, <2>2, <2>3, <2>4, <2>5 DEF OutcomeInv
  <1>13. QED
    BY <1>1, <1>2, <1>4, <1>6, <1>12 DEF PipelineInv

-----------------------------------------------------------------------------
(* The transaction of a log that is new to its subscription.               *)

LEMMA AppliesKeepsTypes ==
  ASSUME DbTypeOK, NEW l \in LogRecords, l.event = "Settled" => l.fee <= l.amount,
         NEW seen \in Nat, Applies(l, seen), UNCHANGED startMode
  PROVE  DbTypeOK'
  <1>1. /\ row' = RowAfter(row, l, seen) /\ ledger' = LedgerAfter(ledger, l)
        /\ invoiced' = InvoicedAfter(invoiced, l) /\ events' = EventsAfter(events, l)
    BY DEF Applies
  <1>2. /\ l.event \in Events /\ l.at \in Nat /\ l.total \in Nat /\ l.amount \in Nat /\ l.fee \in Nat
        /\ l.seconds \in Nat /\ l.secondsElapsed \in Nat /\ l.amountSettled \in Nat
        /\ l.amountRefunded \in Nat
    BY DEF LogRecords
  <1>3. row \in RowRecords
    BY DEF DbTypeOK
  <1>4. row' \in RowRecords
    <2>1. CASE l.event = "StreamCreated"
      BY <2>1, <1>1, <1>3 DEF RowAfter, Created, RowRecords
    <2>2. CASE l.event = "Deposited"
      BY <2>2, <1>1, <1>2, <1>3 DEF RowAfter, Funded, RowRecords
    <2>3. CASE l.event = "StreamStarted"
      BY <2>3, <1>1, <1>2, <1>3 DEF RowAfter, Started, RowRecords, Statuses
    <2>4. CASE l.event = "StreamPaused"
      BY <2>4, <1>1, <1>2, <1>3 DEF RowAfter, Paused, RowRecords, Statuses
    <2>5. CASE l.event = "StreamResumed"
      <3> DEFINE pausedFor == IF seen # 0 /\ l.at > seen THEN l.at - seen ELSE 0
      <3>1. pausedFor \in Nat
        BY <1>2
      <3>2. row' = [row EXCEPT !.status = "active", !.pausedAt = 0,
                               !.pausedSeconds = @ + pausedFor]
        BY <2>5, <1>1 DEF RowAfter, Resumed
      <3> HIDE DEF pausedFor
      <3>3. row.pausedSeconds + pausedFor \in Nat
        BY <1>3, <3>1 DEF RowRecords
      <3>4. QED
        BY <1>3, <3>2, <3>3 DEF RowRecords, Statuses
    <2>6. CASE l.event = "Settled"
      <3>1. /\ row.settledFeeWei + l.fee \in Nat /\ row.settledSeconds + l.seconds \in Nat
            /\ row.settledWei + l.amount \in Nat
        BY <1>2, <1>3 DEF RowRecords
      <3>2. row' = Settled(row, l)
        BY <2>6, <1>1 DEF RowAfter
      <3>3. CASE row.status = "canceled"
        BY <3>1, <3>2, <3>3, <1>3 DEF Settled, RowRecords
      <3>4. CASE row.status # "canceled"
        BY <3>1, <3>2, <3>4, <1>3 DEF Settled, RowRecords
      <3>5. QED
        BY <3>3, <3>4
    <2>7. CASE l.event = "StreamCanceled"
      BY <2>7, <1>1, <1>2, <1>3 DEF RowAfter, Canceled, RowRecords, Statuses
    <2>8. QED
      BY <2>1, <2>2, <2>3, <2>4, <2>5, <2>6, <2>7, <1>2 DEF Events
  <1>5. ledger' \in [deposit : Nat, settlement : Nat, fee : Nat, refund : Nat]
    <2>1. ledger \in [deposit : Nat, settlement : Nat, fee : Nat, refund : Nat]
      BY DEF DbTypeOK
    <2>2. CASE l.event = "Settled"
      <3>1. l.amount - l.fee \in Nat
        BY <1>2, <2>2
      <3>2. /\ ledger.settlement + (l.amount - l.fee) \in Nat /\ ledger.fee + l.fee \in Nat
        BY <1>2, <2>1, <3>1
      <3>3. QED
        BY <2>1, <2>2, <3>2, <1>1 DEF LedgerAfter
    <2>3. CASE l.event # "Settled"
      BY <2>1, <2>3, <1>1, <1>2 DEF LedgerAfter
    <2>4. QED
      BY <2>2, <2>3
  <1>6. invoiced' \in [seconds : Nat, amount : Nat]
    BY <1>1, <1>2 DEF InvoicedAfter, DbTypeOK
  <1>7. events' \in [created : Nat, paymentFailed : Nat, canceled : Nat]
    BY <1>1 DEF EventsAfter, DbTypeOK
  <1>8. QED
    BY <1>4, <1>5, <1>6, <1>7 DEF DbTypeOK

(* What the books show rises by what the log carries.                      *)
LEMMA AppliesShows ==
  ASSUME DbTypeOK, NEW l \in LogRecords, NEW seen, Applies(l, seen), NEW k \in Kinds
  PROVE  Shown(k)' = Shown(k) + Worth(k, l)
  <1>1. ledger' = LedgerAfter(ledger, l) /\ invoiced' = InvoicedAfter(invoiced, l)
    BY DEF Applies
  <1>2. l.event \in Events
    BY DEF LogRecords
  <1>3. /\ ledger \in [deposit : Nat, settlement : Nat, fee : Nat, refund : Nat]
        /\ invoiced \in [seconds : Nat, amount : Nat]
    BY DEF DbTypeOK
  <1>4. CASE l.event = "Deposited"
    BY <1>1, <1>3, <1>4 DEF LedgerAfter, InvoicedAfter, Shown, Worth, Bearer, Kinds
  <1>5. CASE l.event = "Settled"
    <2>1. /\ ledger' = [ledger EXCEPT !.settlement = @ + (l.amount - l.fee), !.fee = @ + l.fee]
          /\ invoiced' = [seconds |-> invoiced.seconds + l.seconds,
                          amount |-> invoiced.amount + l.amount]
      BY <1>1, <1>5 DEF LedgerAfter, InvoicedAfter
    <2>2. /\ ledger'.deposit = ledger.deposit /\ ledger'.refund = ledger.refund
          /\ ledger'.settlement = ledger.settlement + (l.amount - l.fee)
          /\ ledger'.fee = ledger.fee + l.fee
          /\ invoiced'.seconds = invoiced.seconds + l.seconds
          /\ invoiced'.amount = invoiced.amount + l.amount
      BY <2>1, <1>3
    <2>3. ledger.deposit \in Nat /\ ledger.refund \in Nat
      BY <1>3
    <2>4. QED
      BY <2>2, <2>3, <1>5 DEF Shown, Worth, Bearer, Kinds
  <1>6. CASE l.event = "StreamCanceled"
    BY <1>1, <1>3, <1>6 DEF LedgerAfter, InvoicedAfter, Shown, Worth, Bearer, Kinds
  <1>7. CASE l.event \notin {"Deposited", "Settled", "StreamCanceled"}
    BY <1>1, <1>3, <1>7 DEF LedgerAfter, InvoicedAfter, Shown, Worth, Bearer, Kinds
  <1>8. QED
    BY <1>4, <1>5, <1>6, <1>7

LEMMA AppliesKeepsBooks ==
  ASSUME PipelineInv, NEW n \in 1 .. Len(logs), n \notin stored, NEW seen \in Nat,
         Applies(logs[n], seen), UNCHANGED <<chain, logs>>
  PROVE  BooksInv'
  <1> DEFINE l == logs[n]
  <1>1. /\ logs \in Seq(LogRecords) /\ Len(logs) \in Nat /\ l \in LogRecords /\ l.n = n
        /\ \A i \in 1 .. Len(logs) : logs[i].event = "Settled" => logs[i].fee <= logs[i].amount
        /\ DbTypeOK
    BY LenProperties, ElementOfSeq DEF PipelineInv, LogInv
  <1>2. stored' = stored \cup {n}
    BY <1>1 DEF Applies
  <1>3. ASSUME NEW k \in Kinds
        PROVE  Pending(Len(logs'), Weights(k, logs'), stored', Moved(k)' - Shown(k)')
    <2>1. Weights(k, logs) \in [1 .. Len(logs) -> Nat] /\ Weights(k, logs)[n] = Worth(k, l)
      BY <1>1, WeightsType DEF Weights
    <2>2. Pending(Len(logs), Weights(k, logs), stored, Moved(k) - Shown(k))
      BY DEF PipelineInv, BooksInv
    <2>3. Pending(Len(logs), Weights(k, logs), stored \cup {n}, (Moved(k) - Shown(k)) - Worth(k, l))
      <3>1. Pending(Len(logs), Weights(k, logs), stored \cup {n},
                    (Moved(k) - Shown(k)) - Weights(k, logs)[n])
        BY <1>1, <2>1, <2>2, PendingApplied
      <3>2. QED
        BY <3>1, <2>1
    <2>4. Moved(k)' = Moved(k)
      BY DEF Moved, chain, vars, settled, payouts
    <2>5. Shown(k)' = Shown(k) + Worth(k, l)
      BY <1>1, AppliesShows
    <2>6. (Moved(k) - Shown(k)) - Worth(k, l) = Moved(k)' - Shown(k)'
      <3>1. Moved(k) \in Nat /\ Shown(k) \in Nat /\ Worth(k, l) \in Nat
        BY <2>1, DeltaType
      <3>2. QED
        BY <2>4, <2>5, <3>1
    <2>7. QED
      BY <2>3, <2>6, <1>2
  <1>4. row'.settledFeeWei = ledger'.fee
    <2>1. row.settledFeeWei = ledger.fee
      BY DEF PipelineInv, BooksInv
    <2>2. /\ row' = RowAfter(row, l, seen) /\ ledger' = LedgerAfter(ledger, l)
          /\ l.event \in Events /\ row \in RowRecords
          /\ ledger \in [deposit : Nat, settlement : Nat, fee : Nat, refund : Nat]
      BY <1>1 DEF Applies, LogRecords, DbTypeOK
    <2> HIDE DEF l
    <2>3. CASE l.event = "Settled"
      BY <2>1, <2>2, <2>3 DEF RowAfter, Settled, LedgerAfter, RowRecords
    <2>4. CASE l.event = "StreamCreated"
      BY <2>1, <2>2, <2>4 DEF RowAfter, Created, LedgerAfter, RowRecords
    <2>5. CASE l.event = "Deposited"
      BY <2>1, <2>2, <2>5 DEF RowAfter, Funded, LedgerAfter, RowRecords
    <2>6. CASE l.event = "StreamStarted"
      BY <2>1, <2>2, <2>6 DEF RowAfter, Started, LedgerAfter, RowRecords
    <2>7. CASE l.event = "StreamPaused"
      BY <2>1, <2>2, <2>7 DEF RowAfter, Paused, LedgerAfter, RowRecords
    <2>8. CASE l.event = "StreamResumed"
      BY <2>1, <2>2, <2>8 DEF RowAfter, Resumed, LedgerAfter, RowRecords
    <2>9. CASE l.event = "StreamCanceled"
      BY <2>1, <2>2, <2>9 DEF RowAfter, Canceled, LedgerAfter, RowRecords
    <2>10. QED
      BY <2>2, <2>3, <2>4, <2>5, <2>6, <2>7, <2>8, <2>9 DEF Events
  <1>5. QED
    BY <1>3, <1>4 DEF BooksInv

(* The cap in seconds that the contract works out from the pot is the one  *)
(* the subscription was sold with.                                         *)
LEMMA CapIsMaxDuration ==
  ASSUME PotFull, status # "None"
  PROVE  maxSeconds = MaxDuration
  <1>1. Rate \in Nat \ {0} /\ MaxDuration \in Nat \ {0} /\ deposited = Rate * MaxDuration
    BY StreamAssumption, IngestAssumption, IndexerAssumption DEF PotFull
  <1>2. (Rate * MaxDuration) \div Rate = MaxDuration
    <2> DEFINE a == Rate * MaxDuration
               q == a \div Rate
    <2>1. a \in Nat
      BY <1>1
    <2>2. q \in Nat /\ q * Rate <= a /\ a < q * Rate + Rate
      BY <1>1, <2>1, DivMul
    <2> HIDE DEF q
    <2>3. ~(q < MaxDuration)
      <3>1. SUFFICES ASSUME q < MaxDuration PROVE FALSE
        OBVIOUS
      <3>2. q + 1 <= MaxDuration
        BY <1>1, <2>2, <3>1
      <3>3. (q + 1) * Rate <= MaxDuration * Rate
        BY <1>1, <2>2, <3>2, MulMono
      <3>4. (q + 1) * Rate = q * Rate + Rate
        BY <1>1, <2>2
      <3>5. QED
        BY <1>1, <2>2, <3>3, <3>4
    <2>4. ~(q > MaxDuration)
      <3>1. SUFFICES ASSUME q > MaxDuration PROVE FALSE
        OBVIOUS
      <3>2. MaxDuration + 1 <= q
        BY <1>1, <2>2, <3>1
      <3>3. (MaxDuration + 1) * Rate <= q * Rate
        BY <1>1, <2>2, <3>2, MulMono
      <3>4. (MaxDuration + 1) * Rate = MaxDuration * Rate + Rate
        BY <1>1
      <3>5. QED
        BY <1>1, <2>2, <3>3, <3>4
    <2>5. QED
      BY <1>1, <2>2, <2>3, <2>4 DEF q
  <1>3. QED
    BY <1>1, <1>2 DEF maxSeconds

(* The platform tells how a stream ended from the seconds its last log     *)
(* reports: the whole pot was used if and only if the stream ran it dry.   *)
LEMMA EndReadsRight ==
  ASSUME IInv, PotFull, status = "Canceled", NEW l, l.secondsElapsed = settledSeconds
  PROVE  CapReached(l) <=> ran >= maxSeconds
  <1>1. MaxDuration \in Nat \ {0}
    BY IngestAssumption
  <1>2. maxSeconds = MaxDuration
    BY CapIsMaxDuration
  <1>3. settledSeconds = AtMost(ran, maxSeconds) /\ ran \in Nat
    BY DEF IInv, OnlyTimeRunIsBilled, TypeOK
  <1>4. QED
    BY <1>1, <1>2, <1>3 DEF CapReached, AtMost

LEMMA AppliesKeepsOutcome ==
  ASSUME PipelineInv, NEW n \in 1 .. Len(logs), n \notin stored, NEW seen \in Nat,
         Applies(logs[n], seen), UNCHANGED <<startMode, chain, logs>>
  PROVE  OutcomeInv'
  <1> DEFINE l == logs[n]
             ends == l.event = "StreamCanceled"
  <1>1. /\ IInv /\ PotFull /\ OutcomeInv /\ DbTypeOK
        /\ logs \in Seq(LogRecords) /\ l \in LogRecords /\ l.n = n /\ stored \subseteq 1 .. Len(logs)
        /\ \A i, j \in 1 .. Len(logs) :
             logs[i].event \in EachOnce /\ logs[j].event = logs[i].event => i = j
    BY ElementOfSeq DEF PipelineInv, LogInv, DeliveryInv
  <1>2. /\ stored' = stored \cup {n} /\ row' = RowAfter(row, l, seen)
        /\ events' = EventsAfter(events, l)
    BY <1>1 DEF Applies
  <1>3. UNCHANGED <<status, ran, deposited, settledSeconds, settledAmount, maxSeconds>>
    BY DEF chain, vars, settled, observed, lifecycle, maxSeconds
  <1>4. ends =>
          /\ status = "Canceled" /\ l.secondsElapsed = settledSeconds
          /\ l.amountSettled = settledAmount /\ (CapReached(l) <=> ran >= maxSeconds)
    <2>1. SUFFICES ASSUME ends PROVE /\ status = "Canceled" /\ l.secondsElapsed = settledSeconds
                                     /\ l.amountSettled = settledAmount
      BY <1>1, EndReadsRight
    <2>2. QED
      BY <2>1 DEF PipelineInv, LogInv
  <1>5. Heard("StreamCanceled")' <=> Heard("StreamCanceled") \/ ends
    BY <1>2 DEF Heard
  <1>6. ends => ~Heard("StreamCanceled")
    BY <1>1 DEF Heard, EachOnce
  <1>7. Announced' <=> Announced \/ Announces(l)
    BY <1>2 DEF Announced, Announces
  <1>8. Announces(l) => ~Announced
    BY <1>1 DEF Announced, Announces, EachOnce
  <1>9. events \in [created : Nat, paymentFailed : Nat, canceled : Nat] /\ row \in RowRecords
    BY <1>1 DEF DbTypeOK
  <1>10. /\ events'.created = events.created + (IF Announces(l) THEN 1 ELSE 0)
         /\ events'.canceled = events.canceled + (IF ends THEN 1 ELSE 0)
         /\ events'.paymentFailed = events.paymentFailed + (IF ends /\ CapReached(l) THEN 1 ELSE 0)
    BY <1>2 DEF EventsAfter
  <1>11. l.event \in Events
    BY <1>1 DEF LogRecords
  <1>12. ~ends => row'.endedReason = row.endedReason
    <2> HIDE DEF l
    <2>1. ~ends => \/ row' = Created(row) \/ row' = Funded(row, l) \/ row' = Started(row, l)
                   \/ row' = Paused(row, l) \/ row' = Resumed(row, l, seen)
                   \/ row' = Settled(row, l)
      BY <1>2, <1>11 DEF RowAfter, Events
    <2>2. QED
      BY <2>1, <1>9 DEF Created, Funded, Started, Paused, Resumed, Settled, RowRecords
  <1>13. ~ends /\ row'.status = "canceled" =>
           /\ row.status = "canceled"
           /\ row'.settledSeconds = row.settledSeconds /\ row'.settledWei = row.settledWei
    <2> HIDE DEF l
    <2>1. SUFFICES ASSUME ~ends, row'.status = "canceled"
                   PROVE  /\ row.status = "canceled"
                          /\ row'.settledSeconds = row.settledSeconds
                          /\ row'.settledWei = row.settledWei
      OBVIOUS
    <2>2. CASE row' = Created(row) \/ row' = Funded(row, l)
      BY <2>1, <2>2, <1>9 DEF Created, Funded, RowRecords
    <2>3. CASE row' = Settled(row, l)
      BY <2>1, <2>3, <1>9 DEF Settled, RowRecords
    <2>4. CASE row' = Started(row, l) \/ row' = Paused(row, l) \/ row' = Resumed(row, l, seen)
      BY <2>1, <2>4, <1>9 DEF Started, Paused, Resumed, RowRecords
    <2>5. QED
      BY <2>1, <2>2, <2>3, <2>4, <1>2, <1>11 DEF RowAfter, Events
  <1>14. ends =>
           /\ row'.endedReason = IF CapReached(l) THEN "cap_reached" ELSE "canceled"
           /\ row'.settledSeconds = l.secondsElapsed /\ row'.settledWei = l.amountSettled
    <2> HIDE DEF l
    <2>1. ends => row' = Canceled(row, l)
      BY <1>2 DEF RowAfter
    <2>2. QED
      BY <2>1, <1>9 DEF Canceled, RowRecords
  <1> HIDE DEF l, ends, maxSeconds
  <1>15. events'.created = IF Announced' THEN 1 ELSE 0
    BY <1>1, <1>7, <1>8, <1>10 DEF OutcomeInv
  <1>16. events'.canceled = IF Heard("StreamCanceled")' THEN 1 ELSE 0
    BY <1>1, <1>5, <1>6, <1>10 DEF OutcomeInv
  <1>17. events'.paymentFailed = IF Heard("StreamCanceled")' /\ ran' >= maxSeconds' THEN 1 ELSE 0
    <2> DEFINE dry == ran >= maxSeconds
    <2>1. events.paymentFailed = IF Heard("StreamCanceled") /\ dry THEN 1 ELSE 0
      BY <1>1 DEF OutcomeInv
    <2>2. (ran' >= maxSeconds') <=> dry
      BY <1>3
    <2>3. ends => (CapReached(l) <=> dry)
      BY <1>4
    <2> HIDE DEF dry
    <2>4. QED
      BY <2>1, <2>2, <2>3, <1>5, <1>6, <1>10
  <1>18. row'.endedReason # "none" =>
           /\ status' = "Canceled"
           /\ row'.endedReason = IF ran' >= maxSeconds' THEN "cap_reached" ELSE "canceled"
    BY <1>1, <1>3, <1>4, <1>12, <1>14 DEF OutcomeInv
  <1>19. row'.status = "canceled" =>
           /\ status' = "Canceled"
           /\ row'.settledSeconds = settledSeconds' /\ row'.settledWei = settledAmount'
    BY <1>1, <1>3, <1>4, <1>13, <1>14 DEF OutcomeInv
  <1>20. QED
    BY <1>15, <1>16, <1>17, <1>18, <1>19 DEF OutcomeInv

-----------------------------------------------------------------------------
(* The steps of the indexer, of ingest and of reconcile: the stream and    *)
(* its logs stay.                                                          *)

(* A log reaches its subscription.                                         *)
LEMMA AppliesKeepsInv ==
  ASSUME PipelineInv, NEW n \in 1 .. Len(logs), n \notin stored, NEW seen \in Nat,
         Applies(logs[n], seen), UNCHANGED <<startMode, chain, logs>>, DeliveryInv'
  PROVE  PipelineInv'
  <1>1. IInv'
    BY NextIInv, Zenon DEF PipelineInv, chain
  <1>2. /\ logs[n] \in LogRecords
        /\ logs[n].event = "Settled" => logs[n].fee <= logs[n].amount
        /\ DbTypeOK
    BY ElementOfSeq DEF PipelineInv, LogInv
  <1>3. DbTypeOK'
    BY <1>2, AppliesKeepsTypes
  <1>4. LogInv'
    BY DEF PipelineInv, LogInv, PotFull, chain, vars, lifecycle, settled
  <1>5. BooksInv' /\ OutcomeInv'
    BY AppliesKeepsBooks, AppliesKeepsOutcome
  <1>6. QED
    BY <1>1, <1>3, <1>4, <1>5 DEF PipelineInv

(* Nothing the books or the merchant see changes.                          *)
LEMMA DeliveryKeepsInv ==
  ASSUME PipelineInv,
         UNCHANGED <<chain, logs, startMode, stored, ledger, invoiced, events>>,
         row' = row \/ \E tx \in Nat : row' = [row EXCEPT !.pendingTx = tx],
         DeliveryInv'
  PROVE  PipelineInv'
  <1>1. IInv'
    BY NextIInv, Zenon DEF PipelineInv, chain
  <1>2. UNCHANGED <<status, deposited, startedAt, settledSeconds, settledAmount, ran,
                    toMerchant, toTreasury, toSubscriber>>
    BY DEF chain, vars, lifecycle, settled, payouts, observed
  <1>3. row \in RowRecords
    BY DEF PipelineInv, DbTypeOK
  <1>4. /\ row' \in RowRecords
        /\ row'.status = row.status /\ row'.endedReason = row.endedReason
        /\ row'.settledSeconds = row.settledSeconds /\ row'.settledWei = row.settledWei
        /\ row'.settledFeeWei = row.settledFeeWei
    BY <1>3 DEF RowRecords
  <1>5. DbTypeOK'
    BY <1>4 DEF PipelineInv, DbTypeOK
  <1>6. LogInv'
    BY <1>2 DEF PipelineInv, LogInv, PotFull
  <1>7. BooksInv'
    <2>1. \A k \in Kinds : Moved(k)' = Moved(k) /\ Shown(k)' = Shown(k)
      BY <1>2 DEF Moved, Shown
    <2>2. \A k \in Kinds : Weights(k, logs)' = Weights(k, logs)
      BY DEF Weights, Worth
    <2>3. ASSUME NEW k \in Kinds
          PROVE  Pending(Len(logs'), Weights(k, logs'), stored', Moved(k)' - Shown(k)')
      <3>1. Pending(Len(logs), Weights(k, logs), stored, Moved(k) - Shown(k))
        BY DEF PipelineInv, BooksInv
      <3>2. QED
        BY <2>1, <3>1
    <2>4. QED
      BY <2>3, <1>4 DEF PipelineInv, BooksInv
  <1>8. OutcomeInv'
    <2>1. Heard("StreamCanceled")' <=> Heard("StreamCanceled")
      BY DEF Heard
    <2>2. Announced' <=> Announced
      BY DEF Announced, Announces
    <2>3. maxSeconds' = maxSeconds
      BY <1>2 DEF maxSeconds
    <2> HIDE DEF maxSeconds
    <2>4. QED
      BY <1>2, <1>4, <2>1, <2>2, <2>3 DEF PipelineInv, OutcomeInv
  <1>9. QED
    BY <1>1, <1>5, <1>6, <1>7, <1>8 DEF PipelineInv

LEMMA WritePendingTxKeepsInv ==
  ASSUME PipelineInv, WritePendingTx
  PROVE  PipelineInv'
  <1>1. /\ UNCHANGED <<chain, logs, startMode, stored, ignored, writing, ledger, invoiced, events,
                       taken, open, tries, replay>>
        /\ row' = [row EXCEPT !.pendingTx = logs[1].tx]
    BY DEF WritePendingTx, RecordPendingTx, delivery
  <1>2. logs[1].tx \in Nat
    <2>1. logs \in Seq(LogRecords) /\ logs # << >>
      BY DEF PipelineInv, LogInv, WritePendingTx
    <2>2. 1 \in 1 .. Len(logs)
      BY <2>1, EmptySeq, LenProperties
    <2>3. logs[1] \in LogRecords
      BY <2>1, <2>2, ElementOfSeq
    <2>4. QED
      BY <2>3 DEF LogRecords
  <1>3. DeliveryInv'
    BY <1>1 DEF PipelineInv, DeliveryInv
  <1>4. QED
    BY <1>1, <1>2, <1>3, DeliveryKeepsInv

LEMMA TakeBatchKeepsInv ==
  ASSUME PipelineInv, TakeBatch
  PROVE  PipelineInv'
  <1>1. /\ UNCHANGED <<chain, logs, startMode, row, stored, ignored, writing, ledger, invoiced,
                       events, replay>>
        /\ open' = Batch /\ taken' = Max(Batch) /\ DOMAIN tries' = Batch /\ Batch # {}
    BY DEF TakeBatch, db
  <1>2. Len(logs) \in Nat /\ taken \in 0 .. Len(logs) /\ Batch \subseteq taken + 1 .. Len(logs)
    BY LenProperties DEF PipelineInv, LogInv, DeliveryInv, Batch
  <1>3. Max(Batch) \in Batch /\ \A y \in Batch : Max(Batch) >= y
    <2>1. Batch \in SUBSET (0 .. Len(logs))
      BY <1>2
    <2>2. QED
      BY <1>1, <1>2, <2>1, GreatestOf
  <1>4. taken' \in 0 .. Len(logs) /\ Batch \subseteq 1 .. taken'
    BY <1>1, <1>2, <1>3
  <1>5. DeliveryInv'
    BY <1>1, <1>4 DEF PipelineInv, DeliveryInv
  <1>6. QED
    BY <1>1, <1>5, DeliveryKeepsInv

LEMMA PostKeepsInv ==
  ASSUME PipelineInv, NEW n \in open, LosePost(n) \/ RefusePost(n) \/ Post(n) \/ GiveUp(n)
  PROVE  PipelineInv'
  <1>1. /\ UNCHANGED <<chain, logs, startMode, row, stored, ignored, ledger, invoiced, events,
                       taken, replay>>
        /\ open' \subseteq open /\ DOMAIN tries' = DOMAIN tries
    BY DEF LosePost, RefusePost, Post, GiveUp, db, Counted
  <1>2. n \in 1 .. Len(logs) /\ logs[n].n = n /\ row.pausedAt \in Nat
    <2>1. n \in 1 .. taken /\ taken \in 0 .. Len(logs) /\ Len(logs) \in Nat
      BY LenProperties DEF PipelineInv, LogInv, DeliveryInv
    <2>2. n \in 1 .. Len(logs)
      BY <2>1
    <2>3. logs[n].n = n
      BY <2>2 DEF PipelineInv, LogInv
    <2>4. row.pausedAt \in Nat
      BY DEF PipelineInv, DbTypeOK, RowRecords
    <2>5. QED
      BY <2>2, <2>3, <2>4
  <1>3. \/ writing' = writing
        \/ /\ n \notin stored /\ n \notin ignored /\ ~IsWriting(logs[n])
           /\ writing' = writing \cup {[log |-> logs[n], found |-> FindsSubscription(logs[n]),
                                        pausedAt |-> row.pausedAt]}
    BY <1>2 DEF LosePost, RefusePost, Post, GiveUp, db, Begin, Known
  <1>4. /\ \A t \in writing' :
             /\ t.pausedAt \in Nat
             /\ t.log.n \in 1 .. Len(logs) /\ t.log = logs[t.log.n]
             /\ t.log.n \notin stored /\ t.log.n \notin ignored
        /\ \A t, u \in writing' : t.log = u.log => t = u
    BY <1>2, <1>3 DEF PipelineInv, DeliveryInv, IsWriting
  <1>5. DeliveryInv'
    BY <1>1, <1>4 DEF PipelineInv, DeliveryInv
  <1>6. QED
    BY <1>1, <1>5, DeliveryKeepsInv

(* What is left of the open transactions when one of them has ended.       *)
LEMMA OthersKeep ==
  ASSUME DeliveryInv, NEW t \in writing, UNCHANGED <<logs, taken, replay>>,
         writing' = writing \ {t}, open' \subseteq open, DOMAIN tries' \subseteq DOMAIN tries,
         \/ UNCHANGED <<stored, ignored>>
         \/ stored' = stored \cup {t.log.n} /\ UNCHANGED ignored
         \/ ignored' = ignored \cup {t.log.n} /\ UNCHANGED stored
  PROVE  DeliveryInv'
  <1>1. t.log.n \in 1 .. Len(logs) /\ t.log.n \notin stored /\ t.log.n \notin ignored
    BY DEF DeliveryInv
  <1>2. ASSUME NEW u \in writing \ {t}
        PROVE  u.log.n # t.log.n
    BY <1>2 DEF DeliveryInv
  <1>3. /\ stored' \subseteq 1 .. Len(logs) /\ ignored' \subseteq 1 .. Len(logs)
        /\ stored' \cap ignored' = {}
    BY <1>1 DEF DeliveryInv
  <1>4. \A u \in writing' :
          /\ u.pausedAt \in Nat
          /\ u.log.n \in 1 .. Len(logs) /\ u.log = logs[u.log.n]
          /\ u.log.n \notin stored' /\ u.log.n \notin ignored'
    BY <1>2 DEF DeliveryInv
  <1>5. QED
    BY <1>3, <1>4 DEF DeliveryInv

LEMMA CommitPostKeepsInv ==
  ASSUME PipelineInv, NEW t \in writing, CommitPost(t)
  PROVE  PipelineInv'
  <1>1. /\ UNCHANGED <<chain, logs, startMode, taken, tries, replay>>
        /\ writing' = writing \ {t} /\ open' \subseteq open
    BY DEF CommitPost, Commit
  <1>2. /\ t.pausedAt \in Nat /\ t.log.n \in 1 .. Len(logs) /\ t.log = logs[t.log.n]
        /\ t.log.n \notin stored
    BY DEF PipelineInv, DeliveryInv
  <1>3. CASE t.found
    <2>1. Applies(logs[t.log.n], t.pausedAt)
      BY <1>2, <1>3 DEF CommitPost, Commit
    <2>2. DeliveryInv'
      <3>1. stored' = stored \cup {t.log.n} /\ UNCHANGED ignored
        BY <1>3 DEF CommitPost, Commit, Applies
      <3>2. QED
        BY <3>1, <1>1, OthersKeep DEF PipelineInv
    <2>3. QED
      BY <1>1, <1>2, <2>1, <2>2, AppliesKeepsInv
  <1>4. CASE ~t.found
    <2>1. /\ ignored' = ignored \cup {t.log.n}
          /\ UNCHANGED <<stored, row, ledger, invoiced, events>>
      BY <1>4 DEF CommitPost, Commit, Ignores
    <2>2. DeliveryInv'
      BY <2>1, <1>1, OthersKeep DEF PipelineInv
    <2>3. QED
      BY <1>1, <2>1, <2>2, DeliveryKeepsInv
  <1>5. QED
    BY <1>3, <1>4

LEMMA AbortPostKeepsInv ==
  ASSUME PipelineInv, NEW t \in writing, AbortPost(t)
  PROVE  PipelineInv'
  <1>1. /\ UNCHANGED <<chain, logs, startMode, row, stored, ignored, ledger, invoiced, events,
                       taken, open, tries, replay>>
        /\ writing' = writing \ {t}
    BY DEF AbortPost, Abort, delivery
  <1>2. DeliveryInv'
    BY <1>1, OthersKeep DEF PipelineInv
  <1>3. QED
    BY <1>1, <1>2, DeliveryKeepsInv

LEMMA ReconcileKeepsInv ==
  ASSUME PipelineInv, StartReconcile \/ ReconcileLog \/ ReconcileFails
  PROVE  PipelineInv'
  <1>1. UNCHANGED <<chain, logs, startMode, taken, open, tries, writing>>
    BY DEF StartReconcile, ReconcileLog, ReconcileFails, delivery, db
  <1>2. DOMAIN logs = 1 .. Len(logs) /\ Len(logs) \in Nat
    BY LenProperties DEF PipelineInv, LogInv
  <1>3. CASE UNCHANGED db /\ replay' \subseteq 1 .. Len(logs)
    <2>1. UNCHANGED <<row, stored, ignored, ledger, invoiced, events>>
      BY <1>3 DEF db
    <2>2. DeliveryInv'
      BY <1>1, <1>3, <2>1 DEF PipelineInv, DeliveryInv
    <2>3. QED
      BY <1>1, <2>1, <2>2, DeliveryKeepsInv
  <1>4. CASE ReconcileLog /\ ~UNCHANGED db
    <2> DEFINE n == Min(replay)
    <2>1. n \in replay /\ n \in 1 .. Len(logs)
      <3>1. replay \in SUBSET Nat /\ replay # {} /\ replay \subseteq 1 .. Len(logs)
        BY <1>2, <1>4 DEF PipelineInv, DeliveryInv, ReconcileLog
      <3>2. QED
        BY <3>1, LeastOf
    <2>2. logs[n].n = n
      BY <2>1 DEF PipelineInv, LogInv
    <2>3. /\ ~IsWriting(logs[n]) /\ ~Known(logs[n]) /\ Applies(logs[n], row.pausedAt)
          /\ replay' \subseteq replay
      BY <1>4 DEF ReconcileLog
    <2> HIDE DEF n
    <2>4. n \notin stored /\ n \notin ignored /\ stored' = stored \cup {n} /\ UNCHANGED ignored
      BY <2>2, <2>3 DEF Known, Applies
    <2>5. \A t \in writing : t.log.n # n
      BY <2>3 DEF PipelineInv, DeliveryInv, IsWriting
    <2>6. DeliveryInv'
      BY <1>1, <2>1, <2>3, <2>4, <2>5 DEF PipelineInv, DeliveryInv
    <2>7. row.pausedAt \in Nat
      BY DEF PipelineInv, DbTypeOK, RowRecords
    <2>8. QED
      BY <1>1, <2>1, <2>3, <2>4, <2>6, <2>7, AppliesKeepsInv
  <1>5. CASE ReconcileLog /\ UNCHANGED db
    <2>1. replay' \subseteq replay
      BY <1>5 DEF ReconcileLog
    <2>2. QED
      BY <1>3, <1>5, <2>1 DEF PipelineInv, DeliveryInv
  <1>6. CASE StartReconcile
    BY <1>2, <1>3, <1>6 DEF StartReconcile
  <1>7. CASE ReconcileFails
    BY <1>3, <1>7 DEF ReconcileFails
  <1>8. QED
    BY <1>4, <1>5, <1>6, <1>7

LEMMA NextPipelineInv == PipelineInv /\ [PipelineNext]_allVars => PipelineInv'
  <1> SUFFICES ASSUME PipelineInv, [PipelineNext]_allVars PROVE PipelineInv'
    OBVIOUS
  <1>1. CASE StartSession \/ UseStream \/ PassTime
    <2>1. ChainStep /\ Emit
      BY <1>1 DEF StartSession, UseStream, PassTime, ChainStep
    <2>2. QED
      BY <2>1, EmitKeepsInv
  <1>2. CASE WritePendingTx
    BY <1>2, WritePendingTxKeepsInv
  <1>3. CASE TakeBatch
    BY <1>3, TakeBatchKeepsInv
  <1>4. CASE \E n \in open : LosePost(n) \/ RefusePost(n) \/ Post(n) \/ GiveUp(n)
    BY <1>4, PostKeepsInv
  <1>5. CASE \E t \in writing : CommitPost(t)
    BY <1>5, CommitPostKeepsInv
  <1>6. CASE \E t \in writing : AbortPost(t)
    BY <1>6, AbortPostKeepsInv
  <1>7. CASE StartReconcile \/ ReconcileLog \/ ReconcileFails
    BY <1>7, ReconcileKeepsInv
  <1>8. CASE UNCHANGED allVars
    <2>1. UNCHANGED <<chain, logs, startMode, row, stored, ignored, writing, ledger, invoiced,
                      events, taken, open, tries, replay>>
      BY <1>8 DEF allVars, db, delivery
    <2>2. DeliveryInv'
      BY <2>1 DEF PipelineInv, DeliveryInv
    <2>3. QED
      BY <2>1, <2>2, DeliveryKeepsInv
  <1>9. QED
    BY <1>1, <1>2, <1>3, <1>4, <1>5, <1>6, <1>7, <1>8, Zenon DEF PipelineNext

(* Only a log that is being stored becomes the newest turn.                *)
LEMMA HistoryKept == HistoryInv /\ [PipelineNext]_allVars => HistoryInv'
  <1> SUFFICES ASSUME HistoryInv, [PipelineNext]_allVars PROVE HistoryInv'
    OBVIOUS
  <1>1. ASSUME NEW l, NEW seen, Applies(l, seen), Observe(l, seen) PROVE HistoryInv'
    BY <1>1 DEF Applies, Observe, HistoryInv
  <1>2. CASE UNCHANGED <<latest, misread, stored>>
    BY <1>2 DEF HistoryInv
  <1>3. ASSUME NEW t \in writing, CommitPost(t) PROVE HistoryInv'
    <2>1. CASE t.found
      BY <1>1, <1>3, <2>1 DEF CommitPost, Commit
    <2>2. CASE ~t.found
      BY <1>2, <1>3, <2>2 DEF CommitPost, Commit, Ignores, history
    <2>3. QED
      BY <2>1, <2>2
  <1>4. CASE ReconcileLog
    <2> DEFINE l == logs[Min(replay)]
    <2>1. UNCHANGED <<db, history>> \/ (Applies(l, row.pausedAt) /\ Observe(l, row.pausedAt))
      BY <1>4 DEF ReconcileLog
    <2> HIDE DEF l
    <2>2. QED
      BY <1>1, <1>2, <2>1 DEF db, history
  <1>5. CASE StartSession \/ UseStream \/ PassTime \/ WritePendingTx \/ TakeBatch
    BY <1>2, <1>5 DEF StartSession, UseStream, PassTime, WritePendingTx, RecordPendingTx,
       TakeBatch, Emit, db, history
  <1>6. ASSUME NEW n \in open, LosePost(n) \/ RefusePost(n) \/ Post(n) \/ GiveUp(n)
        PROVE  HistoryInv'
    BY <1>2, <1>6 DEF LosePost, RefusePost, Post, GiveUp, db, history
  <1>7. ASSUME NEW t \in writing, AbortPost(t) PROVE HistoryInv'
    BY <1>2, <1>7 DEF AbortPost, Abort, history
  <1>8. CASE StartReconcile \/ ReconcileFails
    BY <1>2, <1>8 DEF StartReconcile, ReconcileFails, db, history
  <1>9. CASE UNCHANGED allVars
    BY <1>2, <1>9 DEF allVars, db, history
  <1>10. QED
    BY <1>3, <1>4, <1>5, <1>6, <1>7, <1>8, <1>9 DEF PipelineNext

-----------------------------------------------------------------------------
(* The theorems.                                                           *)

(* Whatever the parties, the indexer, the database and the worker do, the  *)
(* inductive invariant holds: the contract's own (IInv), and that ties the *)
(* logs to the stream, the deliveries to the logs and the books to what    *)
(* was delivered.                                                          *)
THEOREM PipelineInvariance == PipelineSpec => []PipelineInv
  <1>1. PipelineInit => PipelineInv
    BY InitPipelineInv
  <1>2. PipelineInv /\ [PipelineNext]_allVars => PipelineInv'
    BY NextPipelineInv
  <1>3. QED
    BY <1>1, <1>2, PTL DEF PipelineSpec

(* Every variable of the platform side keeps its type, and a log is never  *)
(* both stored for its subscription and stored without one.                *)
THEOREM PipelineTypeCorrect == PipelineSpec => []PipelineTypeOK
  <1>1. PipelineInv /\ HistoryInv => PipelineTypeOK
    BY InvGivesType
  <1>2. PipelineInit => HistoryInv
    BY DEF PipelineInit, HistoryInv
  <1>3. HistoryInv /\ [PipelineNext]_allVars => HistoryInv'
    BY HistoryKept
  <1>4. QED
    BY <1>1, <1>2, <1>3, PipelineInvariance, PTL DEF PipelineSpec

(* Ledger, row and invoices never show a token the chain has not moved, in *)
(* any order of arrival, with any loss, retry or replay; with every log in *)
(* they show exactly what moved (api/src/db/ingest.ts).                    *)
THEOREM BooksAreTheChain == PipelineSpec => []BooksMatchChain
  <1>1. PipelineInv => BooksMatchChain
    BY InvGivesBooks
  <1>2. QED
    BY <1>1, PipelineInvariance, PTL

(* One created and one canceled event at most, and a failed payment if and *)
(* only if the stream ran its pot dry (applyStreamCanceled).               *)
THEOREM ToldOnce == PipelineSpec => []MerchantToldOnce
  <1>1. PipelineInv => MerchantToldOnce
    BY InvGivesTold
  <1>2. QED
    BY <1>1, PipelineInvariance, PTL

(* A canceled row carries the final totals of the chain, whichever of the  *)
(* last logs came first (applySettled, applyStreamCanceled).               *)
THEOREM TotalsAreFinal == PipelineSpec => []FinalTotalsExact
  <1>1. PipelineInv => FinalTotalsExact
    BY InvGivesTotals
  <1>2. QED
    BY <1>1, PipelineInvariance, PTL

(* Inside the pipeline the stream is the contract's own: what is proved of *)
(* the contract (its books, its end, the meter it implements) holds of the *)
(* stream the platform follows.                                            *)
THEOREM StreamIsTheContracts == PipelineSpec => Spec
  <1>1. PipelineInit => Init
    BY DEF PipelineInit
  <1>2. [PipelineNext]_allVars => [Next]_vars
    <2> SUFFICES ASSUME [PipelineNext]_allVars PROVE [Next]_vars
      OBVIOUS
    <2>1. CASE StartSession \/ UseStream \/ PassTime
      <3>1. Next
        BY <2>1 DEF StartSession, UseStream, PassTime, Next
      <3>2. QED
        BY <3>1, Zenon
    <2>2. CASE UNCHANGED chain
      BY <2>2, Zenon DEF chain
    <2>3. UNCHANGED chain \/ StartSession \/ UseStream \/ PassTime
      <3>1. CASE PipelineNext
        BY <3>1 DEF PipelineNext, WritePendingTx, TakeBatch, LosePost, RefusePost, Post, GiveUp,
             CommitPost,
             AbortPost, StartReconcile, ReconcileLog, ReconcileFails
      <3>2. CASE UNCHANGED allVars
        BY <3>2 DEF allVars
      <3>3. QED
        BY <3>1, <3>2
    <2>4. QED
      BY <2>1, <2>2, <2>3
  <1>3. QED
    BY <1>1, <1>2, PTL DEF PipelineSpec, Spec

=============================================================================
