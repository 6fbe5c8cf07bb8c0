----------------------------- MODULE K6RunProofs ----------------------------
(***************************************************************************)
(* The theorems of K6Run and of Report, for any scenarios, answers and     *)
(* durations: how often a script sends each request, the verdict it comes  *)
(* to, and what a percentile guarantees.  What the code sums up over lists *)
(* is the cardinality of a set here.                                       *)
(***************************************************************************)
EXTENDS K6Run, FunctionTheorems, FiniteSetTheorems, TLAPS

-----------------------------------------------------------------------------
(* Counting                                                                *)

\* How many of the numbers 1 to n are in S.
UpTo(S, n) == Cardinality((1 .. n) \cap S)

\* Lemma: counting up to the next number adds it, if it counts.
LEMMA UpToNext ==
  ASSUME NEW S, NEW n \in Nat
  PROVE  /\ UpTo(S, 0) = 0
         /\ UpTo(S, n) \in Nat
         /\ UpTo(S, n + 1) = UpTo(S, n) + (IF n + 1 \in S THEN 1 ELSE 0)
<1>1. UpTo(S, 0) = 0
  <2>1. (1 .. 0) \cap S = {}
    OBVIOUS
  <2>2. QED
    BY <2>1, FS_EmptySet DEF UpTo
<1> DEFINE A == (1 .. n) \cap S
<1>2. IsFiniteSet(A) /\ Cardinality(A) \in Nat
  <2>1. IsFiniteSet(1 .. n)
    BY FS_Interval
  <2>2. QED
    BY <2>1, FS_Intersection, FS_CardinalityType
<1>3. CASE n + 1 \in S
  <2>1. (1 .. n + 1) \cap S = A \cup {n + 1}
    BY <1>3
  <2>2. n + 1 \notin A
    OBVIOUS
  <2> HIDE DEF A
  <2>3. Cardinality(A \cup {n + 1}) = Cardinality(A) + 1
    BY <1>2, <2>2, FS_AddElement
  <2>4. QED
    BY <1>1, <1>2, <1>3, <2>1, <2>3 DEF UpTo, A
<1>4. CASE n + 1 \notin S
  <2>1. (1 .. n + 1) \cap S = A
    BY <1>4
  <2>2. QED
    BY <1>1, <1>2, <1>4, <2>1 DEF UpTo
<1>5. QED
  BY <1>3, <1>4

\* Lemma: two sets with a bijection between them have as many elements.
LEMMA SameSize ==
  ASSUME NEW S, NEW T, IsFiniteSet(S), NEW f \in [S -> T],
         \A a, b \in S : f[a] = f[b] => a = b,
         \A t \in T : \E s \in S : f[s] = t
  PROVE  IsFiniteSet(T) /\ Cardinality(T) = Cardinality(S)
<1>1. f \in Bijection(S, T)
  BY Fun_IsBij
<1>2. ExistsBijection(S, T)
  BY <1>1, Fun_ExistsBij
<1>3. QED
  BY <1>2, FS_Bijection

\* Every k has a counter N[k] that says how many elements of S it is the key of.
Counts(S, K, f, N) ==
  /\ IsFiniteSet(S) /\ f \in [S -> K] /\ N \in [K -> Nat]
  /\ \A k \in K : N[k] = Cardinality({s \in S : f[s] = k})

Listed(K, N, Q) == {e \in UNION {{k} \X (1 .. N[k]) : k \in K} : e[1] \in Q}

Keyed(S, f, Q) == {s \in S : f[s] \in Q}

\* Lemma: a list with as many entries of every key as its counter says has as
\* many entries, of any keys, as were counted.
LEMMA Regrouped ==
  ASSUME NEW S, NEW K, NEW f, NEW N, Counts(S, K, f, N), NEW Q \in SUBSET K
  PROVE  Cardinality(Listed(K, N, Q)) = Cardinality(Keyed(S, f, Q))
<1> USE DEF Counts
<1> DEFINE Of(k) == {s \in S : f[s] = k}
           D == {e \in UNION {{k} \X (1 .. N[k]) : k \in K} : e[1] \in Q}
           T == {s \in S : f[s] \in Q}
           b == [k \in K |-> CHOOSE g : g \in Bijection(1 .. N[k], Of(k))]
<1>1. ASSUME NEW k \in K
      PROVE  b[k] \in Bijection(1 .. N[k], Of(k))
  <2>1. IsFiniteSet(Of(k)) /\ N[k] = Cardinality(Of(k))
    BY FS_Subset
  <2> HIDE DEF Of
  <2>2. ExistsBijection(1 .. N[k], Of(k))
    BY <2>1, FS_CardinalityType
  <2>3. \E g : g \in Bijection(1 .. N[k], Of(k))
    BY <2>2, Fun_ExistsBij
  <2>4. QED
    BY <2>3
<1> HIDE DEF b
<1>2. ASSUME NEW k \in K
      PROVE  /\ b[k] \in [1 .. N[k] -> Of(k)]
             /\ \A i, j \in 1 .. N[k] : b[k][i] = b[k][j] => i = j
             /\ \A s \in Of(k) : \E i \in 1 .. N[k] : b[k][i] = s
  <2> HIDE DEF Of
  <2>1. /\ b[k] \in [1 .. N[k] -> Of(k)]
        /\ \A i, j \in 1 .. N[k] : b[k][i] = b[k][j] => i = j
    BY <1>1 DEF Bijection, Injection, IsInjective
  <2>2. \A s \in Of(k) : \E i \in 1 .. N[k] : b[k][i] = s
    BY <1>1 DEF Bijection, Surjection
  <2>3. QED
    BY <2>1, <2>2
<1>3. ASSUME NEW e \in D
      PROVE  /\ e[1] \in K /\ e[1] \in Q
             /\ e[2] \in 1 .. N[e[1]]
             /\ e = <<e[1], e[2]>>
  <2>1. PICK k \in K : e \in {k} \X (1 .. N[k])
    OBVIOUS
  <2>2. e[1] = k /\ e[2] \in 1 .. N[k] /\ e = <<e[1], e[2]>>
    BY <2>1
  <2>3. QED
    BY <2>2
<1>4. ASSUME NEW k \in Q, NEW i \in 1 .. N[k]
      PROVE  <<k, i>> \in D
  <2>1. <<k, i>> \in {k} \X (1 .. N[k]) /\ k \in K /\ <<k, i>>[1] = k
    OBVIOUS
  <2>2. QED
    BY <2>1
<1> HIDE DEF D
<1> DEFINE F == [e \in D |-> b[e[1]][e[2]]]
<1>5. ASSUME NEW e \in D
      PROVE  F[e] \in S /\ f[F[e]] = e[1]
  <2>1. b[e[1]] \in [1 .. N[e[1]] -> Of(e[1])]
    BY <1>2, <1>3
  <2>2. b[e[1]][e[2]] \in Of(e[1])
    BY <1>3, <2>1
  <2>3. QED
    BY <2>2
<1> HIDE DEF Of
<1>6. F \in [D -> T]
  <2>1. \A e \in D : F[e] \in T
    BY <1>3, <1>5
  <2>2. QED
    BY <2>1
<1>7. \A e, d \in D : F[e] = F[d] => e = d
  <2> SUFFICES ASSUME NEW e \in D, NEW d \in D, F[e] = F[d]
               PROVE  e = d
    OBVIOUS
  <2>1. e[1] = d[1]
    BY <1>5
  <2>2. b[e[1]][e[2]] = b[e[1]][d[2]]
    BY <2>1
  <2>3. e[2] = d[2]
    BY <1>2, <1>3, <2>1, <2>2
  <2>4. QED
    BY <1>3, <2>1, <2>3
<1>8. \A t \in T : \E e \in D : F[e] = t
  <2> SUFFICES ASSUME NEW t \in T
               PROVE  \E e \in D : F[e] = t
    OBVIOUS
  <2>1. f[t] \in K /\ f[t] \in Q /\ t \in Of(f[t])
    BY DEF Of
  <2>2. PICK i \in 1 .. N[f[t]] : b[f[t]][i] = t
    BY <1>2, <2>1
  <2>3. <<f[t], i>> \in D
    BY <1>4, <2>1
  <2>4. F[<<f[t], i>>] = t
    BY <2>2, <2>3
  <2>5. QED
    BY <2>3, <2>4
<1>9. IsFiniteSet(T)
  BY FS_Subset
<1> HIDE DEF F, T
<1>10. Cardinality(D) = Cardinality(T)
  <2>1. F \in Bijection(D, T)
    BY <1>6, <1>7, <1>8, Fun_IsBij
  <2>2. ExistsBijection(T, D)
    BY <2>1, Fun_ExistsBij, Fun_ExistsBijSymmetric
  <2>3. QED
    BY <1>9, <2>2, FS_Bijection
<1>11. QED
  BY <1>10 DEF D, T, Listed, Keyed

\* Lemma: a set of natural numbers has a least element.
LEMMA LeastNat ==
  ASSUME NEW T \in SUBSET Nat, T # {}
  PROVE  \E x \in T : \A y \in T : x <= y
<1>1. PICK x \in T : \A y \in T : ~ (<<y, x>> \in OpToRel(<, Nat))
  BY NatLessThanWellFounded, WFMin, Zenon
<1>2. \A y \in T : ~ (y < x)
  BY <1>1 DEF OpToRel
<1>3. QED
  BY <1>2

-----------------------------------------------------------------------------
(* Durations in order (report.go: Summarize, percentile)                   *)

\* A list of records with durations.
Timed(records) ==
  IsFiniteSet(DOMAIN records) /\ \A i \in DOMAIN records : records[i].ms \in Nat

\* Lemma: the number of records within a duration grows with the duration, by
\* more than none exactly where there are records.
LEMMA WithinGrows ==
  ASSUME NEW records, Timed(records), NEW m \in Int, NEW n \in Int, m <= n
  PROVE  /\ Total(records) \in Nat
         /\ Within(records, m) \in 0 .. Within(records, n)
         /\ Within(records, n) \in 0 .. Total(records)
         /\ \A i \in DOMAIN records :
              m < records[i].ms /\ records[i].ms <= n =>
                Within(records, m) < Within(records, n)
<1> DEFINE D == DOMAIN records
           A(k) == {i \in D : records[i].ms <= k}
<1>1. A(m) \in SUBSET A(n) /\ A(n) \in SUBSET D /\ IsFiniteSet(D)
  BY DEF Timed
<1>2. \A i \in D : m < records[i].ms /\ records[i].ms <= n => A(m) # A(n)
  BY DEF Timed
<1>3. /\ Total(records) = Cardinality(D)
      /\ Within(records, m) = Cardinality(A(m))
      /\ Within(records, n) = Cardinality(A(n))
  BY DEF Total, Within
<1> HIDE DEF D, A
<1>4. /\ IsFiniteSet(A(n))
      /\ Cardinality(A(n)) <= Cardinality(D)
  BY <1>1, FS_Subset
<1>5. /\ IsFiniteSet(A(m))
      /\ Cardinality(A(m)) <= Cardinality(A(n))
      /\ Cardinality(A(m)) = Cardinality(A(n)) => A(m) = A(n)
  BY <1>1, <1>4, FS_Subset
<1>6. /\ Cardinality(D) \in Nat
      /\ Cardinality(A(m)) \in Nat
      /\ Cardinality(A(n)) \in Nat
  BY <1>1, <1>4, <1>5, FS_CardinalityType
<1>7. QED
  BY <1>2, <1>3, <1>4, <1>5, <1>6 DEF D

\* Lemma: some duration is within all records.
LEMMA AllWithin ==
  ASSUME NEW records, Timed(records)
  PROVE  \E m \in Nat : Within(records, m) = Total(records)
<1> DEFINE Beyond(m) == Total(records) - Within(records, m)
<1>1. \A m \in Nat : Beyond(m) \in Nat
  BY WithinGrows
<1>2. PICK b \in {Beyond(m) : m \in Nat} : \A c \in {Beyond(m) : m \in Nat} :
        b <= c
  <2>1. {Beyond(m) : m \in Nat} \in SUBSET Nat
    BY <1>1
  <2>2. Beyond(0) \in {Beyond(m) : m \in Nat}
    OBVIOUS
  <2> HIDE DEF Beyond
  <2>3. QED
    BY <2>1, <2>2, LeastNat
<1>3. PICK m \in Nat : b = Beyond(m)
  BY <1>2
<1>4. \A k \in Nat : Within(records, k) <= Within(records, m)
  <2> SUFFICES ASSUME NEW k \in Nat
               PROVE  Within(records, k) <= Within(records, m)
    OBVIOUS
  <2>1. Beyond(m) <= Beyond(k)
    BY <1>2, <1>3
  <2>2. QED
    BY <2>1, WithinGrows
<1>5. \A i \in DOMAIN records : records[i].ms <= m
  <2> SUFFICES ASSUME NEW i \in DOMAIN records, m < records[i].ms
               PROVE  FALSE
    BY DEF Timed
  <2>1. records[i].ms \in Nat
    BY DEF Timed
  <2>2. Within(records, m) < Within(records, records[i].ms)
    BY <2>1, WithinGrows
  <2>3. Within(records, records[i].ms) <= Within(records, m)
    BY <1>4, <2>1
  <2>4. Within(records, m) \in Nat /\ Within(records, records[i].ms) \in Nat
    BY <2>1, WithinGrows
  <2>5. QED
    BY <2>2, <2>3, <2>4
<1>6. {i \in DOMAIN records : records[i].ms <= m} = DOMAIN records
  BY <1>5
<1>7. QED
  BY <1>6 DEF Within, Total

\* Lemma: sorted[n] is a duration, and it is within a limit exactly when more
\* than n of the records are.
LEMMA SortedAtRank ==
  ASSUME NEW records, Timed(records), NEW n \in Nat, n < Total(records)
  PROVE  /\ SortedAt(records, n) \in Nat
         /\ \A limit \in Nat :
              SortedAt(records, n) <= limit <=> n < Within(records, limit)
<1> DEFINE T == {m \in Nat : n < Within(records, m)}
           Fits(d) == Within(records, d - 1) <= n /\ n < Within(records, d)
           Ds == {records[i].ms : i \in DOMAIN records}
<1>1. PICK d \in T : \A m \in T : d <= m
  <2>1. T # {}
    BY AllWithin
  <2>2. QED
    BY <2>1, LeastNat
<1>2. Within(records, d - 1) <= n
  <2>1. CASE d = 0
    <3>1. {i \in DOMAIN records : records[i].ms <= -1} = {}
      BY DEF Timed
    <3>2. Within(records, -1) = 0
      BY <3>1, FS_EmptySet DEF Within
    <3>3. d - 1 = -1
      BY <2>1
    <3>4. QED
      BY <3>2, <3>3
  <2>2. CASE d > 0
    <3>1. d - 1 \in Nat /\ d - 1 \notin T
      BY <1>1, <2>2
    <3>2. Within(records, d - 1) \in Nat
      BY <3>1, WithinGrows
    <3>3. QED
      BY <3>1, <3>2
  <2>3. QED
    BY <2>1, <2>2
<1>3. d \in Ds
  <2>1. CASE \E i \in DOMAIN records : records[i].ms = d
    BY <2>1
  <2>2. CASE \A i \in DOMAIN records : records[i].ms # d
    <3>1. \A i \in DOMAIN records :
            records[i].ms <= d <=> records[i].ms <= d - 1
      BY <2>2 DEF Timed
    <3>2. {i \in DOMAIN records : records[i].ms <= d}
            = {i \in DOMAIN records : records[i].ms <= d - 1}
      BY <3>1
    <3>3. Within(records, d) = Within(records, d - 1)
      BY <3>2 DEF Within
    <3>4. Within(records, d) \in Nat /\ n < Within(records, d)
      BY WithinGrows
    <3>5. QED
      BY <1>2, <3>3, <3>4
  <2>3. QED
    BY <2>1, <2>2
<1>4. SortedAt(records, n) \in Ds /\ Fits(SortedAt(records, n))
  <2>1. Fits(d)
    BY <1>2
  <2>2. SortedAt(records, n) = CHOOSE e \in Ds : Fits(e)
    BY DEF SortedAt
  <2> HIDE DEF Fits, Ds
  <2>3. QED
    BY <1>3, <2>1, <2>2
<1>5. SortedAt(records, n) \in Nat
  BY <1>4 DEF Timed
<1> DEFINE s == SortedAt(records, n)
<1>6. ASSUME NEW limit \in Nat
      PROVE  s <= limit <=> n < Within(records, limit)
  <2> HIDE DEF s
  <2>1. s \in Nat /\ Within(records, s - 1) <= n /\ n < Within(records, s)
    BY <1>4, <1>5 DEF s
  <2>2. CASE s <= limit
    <3>1. Within(records, s) \in 0 .. Within(records, limit)
          /\ Within(records, limit) \in Int
      BY <2>1, <2>2, WithinGrows
    <3>2. QED
      BY <2>1, <2>2, <3>1
  <2>3. CASE limit < s
    <3>1. limit \in Int /\ s - 1 \in Int /\ limit <= s - 1
      BY <2>1, <2>3
    <3>2. Within(records, limit) \in 0 .. Within(records, s - 1)
          /\ Within(records, s - 1) \in Int
      BY <3>1, WithinGrows
    <3>3. QED
      BY <2>1, <2>3, <3>2
  <2>4. QED
    BY <2>1, <2>2, <2>3
<1>7. QED
  BY <1>5, <1>6

\* Lemma: the records with a longer rank take no less.
LEMMA SortedAtOrder ==
  ASSUME NEW records, Timed(records), NEW m \in Nat, NEW n \in Nat,
         m <= n, n < Total(records)
  PROVE  /\ SortedAt(records, m) \in Nat /\ SortedAt(records, n) \in Nat
         /\ SortedAt(records, m) <= SortedAt(records, n)
<1>1. Total(records) \in Nat
  BY WithinGrows
<1>2. /\ SortedAt(records, m) \in Nat /\ SortedAt(records, n) \in Nat
      /\ n < Within(records, SortedAt(records, n))
  BY <1>1, SortedAtRank
<1>3. Within(records, SortedAt(records, n)) \in Nat
  BY <1>2, WithinGrows
<1>4. m < Within(records, SortedAt(records, n))
  BY <1>2, <1>3
<1>5. QED
  BY <1>1, <1>2, <1>4, SortedAtRank

Mean(a, b, w) == a * (100 - w) + b * w

\* Lemma: a weighted mean in hundredths lies between its two parts, and grows
\* with the weight of the greater one.
LEMMA Between ==
  ASSUME NEW a \in Nat, NEW b \in Nat, NEW v \in 0 .. 100, NEW w \in 0 .. 100,
         a <= b, v <= w
  PROVE  /\ Mean(a, b, w) \in Nat
         /\ 100 * a <= Mean(a, b, w) /\ Mean(a, b, w) <= 100 * b
         /\ Mean(a, b, v) <= Mean(a, b, w)
<1>1. PICK k \in Nat : b = a + k
  <2>1. b - a \in Nat /\ b = a + (b - a)
    OBVIOUS
  <2>2. QED
    BY <2>1
<1>2. PICK u \in Nat : w = v + u
  <2>1. w - v \in Nat /\ w = v + (w - v)
    OBVIOUS
  <2>2. QED
    BY <2>1
<1>3. Mean(a, b, w) = 100 * a + k * w
  BY <1>1 DEF Mean
<1>4. Mean(a, b, v) = 100 * a + k * v
  BY <1>1 DEF Mean
<1>5. k * w = k * v + k * u /\ k * u \in Nat /\ k * v \in Nat
  BY <1>2
<1>6. k * w \in Nat /\ k * w + k * (100 - w) = 100 * k /\ k * (100 - w) \in Nat
  OBVIOUS
<1>7. k * w <= 100 * k
  BY <1>6
<1>8. QED
  BY <1>1, <1>3, <1>4, <1>5, <1>6, <1>7

\* percentile between the durations around pos hundredths of an index.
Around(records, pos) ==
  LET lower == pos \div 100
      weight == pos % 100
      upper == IF weight = 0 THEN lower ELSE lower + 1
  IN Mean(SortedAt(records, lower), SortedAt(records, upper), weight)

\* Lemma: the two indices around a position are indices of the list.
LEMMA Indices ==
  ASSUME NEW total \in Nat, NEW pos \in Nat, pos <= 100 * (total - 1)
  PROVE  LET lower == pos \div 100
             weight == pos % 100
             upper == IF weight = 0 THEN lower ELSE lower + 1
         IN /\ lower \in Nat /\ weight \in 0 .. 99 /\ upper \in Nat
            /\ pos = 100 * lower + weight
            /\ lower <= upper /\ upper < total
OBVIOUS

\* Lemma: a percentile within the limit has more records within it than its
\* position says, one beyond the limit has at most one more than that.
LEMMA AroundRank ==
  ASSUME NEW records, Timed(records),
         NEW pos \in Nat, pos <= 100 * (Total(records) - 1)
  PROVE  /\ Around(records, pos) \in Nat
         /\ \A limit \in Nat :
              IF Around(records, pos) <= 100 * limit
              THEN 100 * Within(records, limit) > pos
              ELSE 100 * (Within(records, limit) - 1) < pos
<1> DEFINE lower == pos \div 100
           weight == pos % 100
           upper == IF weight = 0 THEN lower ELSE lower + 1
           a == SortedAt(records, lower)
           b == SortedAt(records, upper)
<1>1. Total(records) \in Nat
  BY WithinGrows
<1>2. /\ lower \in Nat /\ weight \in 0 .. 99 /\ upper \in Nat
      /\ pos = 100 * lower + weight
      /\ lower <= upper /\ upper < Total(records)
  BY <1>1, Indices
<1>3. upper = IF weight = 0 THEN lower ELSE lower + 1
  OBVIOUS
<1>4. Around(records, pos) = Mean(a, b, weight)
  BY DEF Around
<1> HIDE DEF lower, weight, upper
<1>5. a \in Nat /\ b \in Nat /\ a <= b
  BY <1>1, <1>2, SortedAtOrder
<1>6. \A limit \in Nat : /\ a <= limit <=> lower < Within(records, limit)
                         /\ b <= limit <=> upper < Within(records, limit)
  BY <1>1, <1>2, SortedAtRank
<1> HIDE DEF a, b
<1>7. /\ Mean(a, b, weight) \in Nat
      /\ 100 * a <= Mean(a, b, weight) /\ Mean(a, b, weight) <= 100 * b
  <2>1. weight \in 0 .. 100 /\ weight <= weight
    BY <1>2
  <2>2. QED
    BY <1>5, <2>1, Between
<1>8. /\ Around(records, pos) \in Nat
      /\ 100 * a <= Around(records, pos) /\ Around(records, pos) <= 100 * b
  BY <1>4, <1>7
<1>9. ASSUME NEW limit \in Nat
      PROVE  IF Around(records, pos) <= 100 * limit
             THEN 100 * Within(records, limit) > pos
             ELSE 100 * (Within(records, limit) - 1) < pos
  <2>1. Within(records, limit) \in Nat
    BY WithinGrows
  <2>2. CASE Around(records, pos) <= 100 * limit
    <3>1. a <= limit
      BY <1>5, <1>8, <2>2
    <3>2. lower < Within(records, limit)
      BY <1>6, <3>1
    <3>3. QED
      BY <1>2, <2>1, <2>2, <3>2
  <2>3. CASE ~ (Around(records, pos) <= 100 * limit)
    <3>1. ~ (b <= limit)
      BY <1>5, <1>8, <2>3
    <3>2. ~ (upper < Within(records, limit))
      BY <1>6, <3>1
    <3>3. QED
      BY <1>2, <1>3, <2>1, <2>3, <3>2
  <2>4. QED
    BY <2>2, <2>3
<1>10. QED
  BY <1>8, <1>9

\* Lemma: percentiles are in the order of their positions, from the first
\* duration to the last.
LEMMA AroundOrder ==
  ASSUME NEW records, Timed(records), NEW pos \in Nat, NEW qos \in Nat,
         pos <= qos, qos <= 100 * (Total(records) - 1)
  PROVE  /\ 100 * SortedAt(records, 0) <= Around(records, pos)
         /\ Around(records, pos) <= Around(records, qos)
         /\ Around(records, qos) <= 100 * SortedAt(records, Total(records) - 1)
<1> DEFINE lower(p) == p \div 100
           weight(p) == p % 100
           upper(p) == IF weight(p) = 0 THEN lower(p) ELSE lower(p) + 1
           at(n) == SortedAt(records, n)
           total == Total(records)
<1>1. total \in Nat /\ 0 < total
  <2>1. total \in Nat
    BY WithinGrows
  <2>2. QED
    BY <2>1
<1>2. \A p \in {pos, qos} : /\ p \in Nat
                            /\ p <= 100 * (total - 1)
  BY <1>1
<1>3. ASSUME NEW p \in {pos, qos}
      PROVE  /\ lower(p) \in Nat /\ weight(p) \in 0 .. 99 /\ upper(p) \in Nat
             /\ p = 100 * lower(p) + weight(p)
             /\ lower(p) <= upper(p) /\ upper(p) < total
  BY <1>1, <1>2, Indices
<1>4. \A p \in {pos, qos} :
        upper(p) = IF weight(p) = 0 THEN lower(p) ELSE lower(p) + 1
  OBVIOUS
<1>5. \A p \in {pos, qos} :
        Around(records, p)
          = Mean(at(lower(p)), at(upper(p)), weight(p))
  BY DEF Around
<1> HIDE DEF lower, weight, upper
<1>6. \A m, n \in Nat : m <= n /\ n < total =>
        at(m) \in Nat /\ at(n) \in Nat /\ at(m) <= at(n)
  BY SortedAtOrder
<1> HIDE DEF at
<1>7. ASSUME NEW p \in {pos, qos}
      PROVE  /\ at(lower(p)) \in Nat /\ at(upper(p)) \in Nat
             /\ Around(records, p) \in Nat
             /\ 100 * at(lower(p)) <= Around(records, p)
             /\ Around(records, p) <= 100 * at(upper(p))
  <2>1. /\ at(lower(p)) \in Nat
        /\ at(upper(p)) \in Nat
        /\ at(lower(p)) <= at(upper(p))
    BY <1>3, <1>6
  <2>2. weight(p) \in 0 .. 100 /\ weight(p) <= weight(p)
    BY <1>3
  <2>3. /\ Mean(at(lower(p)), at(upper(p)), weight(p)) \in Nat
        /\ 100 * at(lower(p)) <= Mean(at(lower(p)), at(upper(p)), weight(p))
        /\ Mean(at(lower(p)), at(upper(p)), weight(p)) <= 100 * at(upper(p))
    BY <2>1, <2>2, Between
  <2>4. QED
    BY <1>5, <2>1, <2>3
<1>8. Around(records, pos) <= Around(records, qos)
  <2>1. CASE lower(pos) = lower(qos)
    <3>1. /\ weight(pos) <= weight(qos)
          /\ weight(pos) \in 0 .. 100
          /\ weight(qos) \in 0 .. 100
      BY <1>3, <2>1
    <3>2. CASE weight(pos) = 0
      <4>1. upper(pos) = lower(pos)
        BY <1>4, <3>2
      <4>2. QED
        BY <1>7, <2>1, <4>1
    <3>3. CASE weight(pos) # 0
      <4>1. upper(pos) = upper(qos)
        BY <1>3, <1>4, <2>1, <3>1, <3>3
      <4>2. at(lower(qos)) \in Nat /\ at(upper(qos)) \in Nat
            /\ at(lower(qos)) <= at(upper(qos))
        BY <1>3, <1>6
      <4>3. Mean(at(lower(qos)), at(upper(qos)), weight(pos))
              <= Mean(at(lower(qos)), at(upper(qos)), weight(qos))
        BY <3>1, <4>2, Between
      <4>4. QED
        BY <1>5, <2>1, <4>1, <4>3
    <3>4. QED
      BY <3>2, <3>3
  <2>2. CASE lower(pos) < lower(qos)
    <3>1. upper(pos) <= lower(qos)
      BY <1>3, <1>4, <2>2
    <3>2. upper(pos) \in Nat /\ lower(qos) \in Nat /\ lower(qos) < total
      BY <1>1, <1>3
    <3>3. at(upper(pos)) <= at(lower(qos))
      BY <1>6, <3>1, <3>2
    <3>4. QED
      BY <1>7, <3>3
  <2>3. lower(pos) <= lower(qos)
    BY <1>3
  <2>4. QED
    BY <1>3, <2>1, <2>2, <2>3
<1>9. 100 * at(0) <= Around(records, pos)
  <2>1. lower(pos) \in Nat /\ 0 <= lower(pos) /\ lower(pos) < total
    BY <1>1, <1>3
  <2>2. at(0) \in Nat /\ at(0) <= at(lower(pos))
    BY <1>6, <2>1
  <2>3. QED
    BY <1>7, <2>2
<1>10. Around(records, qos) <= 100 * at(total - 1)
  <2>1. upper(qos) <= total - 1 /\ total - 1 \in Nat /\ total - 1 < total
    BY <1>1, <1>3
  <2>2. at(total - 1) \in Nat /\ at(upper(qos)) <= at(total - 1)
    BY <1>3, <1>6, <2>1
  <2>3. QED
    BY <1>7, <2>2
<1>11. QED
  BY <1>8, <1>9, <1>10 DEF at

\* Lemma: RankGuaranteed, of any list of records that is not empty.
LEMMA Ranks ==
  ASSUME NEW records, Timed(records), DOMAIN records # {}
  PROVE  LET s == Summarize(records)
             last == s.total - 1
         IN /\ s.min <= s.p50 /\ s.p50 <= s.p95 /\ s.p95 <= s.p99
            /\ s.p99 <= s.max
            /\ \A p \in {50, 95, 99}, limit \in 0 .. (s.max \div 100) :
                 IF percentile(records, p) <= 100 * limit
                 THEN 100 * Within(records, limit) > p * last
                 ELSE 100 * (Within(records, limit) - 1) < p * last
<1> DEFINE total == Total(records)
           max == 100 * SortedAt(records, total - 1)
<1>1. total \in Nat /\ 0 < total
  BY FS_EmptySet, FS_CardinalityType DEF Timed, Total
<1>2. \A p \in {50, 95, 99} :
        /\ percentile(records, p) = Around(records, p * (total - 1))
        /\ p * (total - 1) \in Nat
        /\ p * (total - 1) <= 100 * (total - 1)
  <2>1. \A p \in {50, 95, 99} :
          percentile(records, p) = Around(records, p * (total - 1))
    BY DEF percentile, Around, Mean
  <2>2. QED
    BY <1>1, <2>1
<1>3. /\ 100 * SortedAt(records, 0) <= percentile(records, 50)
      /\ percentile(records, 50) <= percentile(records, 95)
      /\ percentile(records, 95) <= percentile(records, 99)
      /\ percentile(records, 99) <= max
  <2>1. /\ 50 * (total - 1) <= 95 * (total - 1)
        /\ 95 * (total - 1) <= 99 * (total - 1)
    BY <1>1
  <2> HIDE DEF total
  <2>2. total = Total(records)
    BY DEF total
  <2>3. /\ 100 * SortedAt(records, 0) <= Around(records, 50 * (total - 1))
        /\ Around(records, 50 * (total - 1))
             <= Around(records, 95 * (total - 1))
    BY <1>2, <2>1, <2>2, AroundOrder
  <2>4. /\ Around(records, 95 * (total - 1))
             <= Around(records, 99 * (total - 1))
        /\ Around(records, 99 * (total - 1)) <= max
    BY <1>2, <2>1, <2>2, AroundOrder
  <2>5. QED
    BY <1>2, <2>3, <2>4
<1>4. max \div 100 \in Nat
  <2>1. SortedAt(records, total - 1) \in Nat
    BY <1>1, SortedAtRank
  <2>2. QED
    BY <2>1
<1>5. ASSUME NEW p \in {50, 95, 99}, NEW limit \in 0 .. (max \div 100)
      PROVE  IF percentile(records, p) <= 100 * limit
             THEN 100 * Within(records, limit) > p * (total - 1)
             ELSE 100 * (Within(records, limit) - 1) < p * (total - 1)
  <2>1. limit \in Nat
    BY <1>4
  <2> HIDE DEF total, max
  <2>2. total = Total(records)
    BY DEF total
  <2>3. QED
    BY <1>2, <2>1, <2>2, AroundRank
<1>6. /\ Summarize(records).total = total
      /\ Summarize(records).min = 100 * SortedAt(records, 0)
      /\ Summarize(records).p50 = percentile(records, 50)
      /\ Summarize(records).p95 = percentile(records, 95)
      /\ Summarize(records).p99 = percentile(records, 99)
      /\ Summarize(records).max = max
  BY DEF Summarize
<1> HIDE DEF total, max
<1>7. QED
  BY <1>3, <1>5, <1>6

-----------------------------------------------------------------------------
(* Iterations (compiler.go)                                                *)

Request == [name : Names, expect : SUBSET Nat]

\* Lemma: what K6Assumption says of one scenario.
LEMMA ScenarioFacts ==
  ASSUME NEW s \in Scenarios
  PROVE  /\ s.concurrency \in Nat \ {0} /\ s.iterations \in Nat \ {0}
         /\ s.attempts \in Nat \ {0}
         /\ s.setup \in Seq(Request) /\ s.requests \in Seq(Request)
         /\ s.teardown \in Seq(Request)
         /\ Len(s.requests) \in Nat \ {0}
         /\ s.maxErrorRate \in Nat \cup {None} /\ s.p95 \in Nat \cup {None}
<1>1. /\ s.setup \in Seq(Request) /\ s.requests \in Seq(Request)
      /\ s.teardown \in Seq(Request) /\ s.requests # <<>>
  BY K6Assumption DEF Request
<1>2. Len(s.requests) \in Nat \ {0}
  BY <1>1
<1>3. QED
  BY <1>1, <1>2, K6Assumption

\* Lemma: multiplying is monotone, with a step between one and more.
LEMMA Times ==
  ASSUME NEW a \in Nat, NEW b \in Nat, NEW n \in Nat
  PROVE  /\ a * n \in Nat
         /\ (a + 1) * n = a * n + n
         /\ a < b => a * n + n <= b * n
<1>1. a * n \in Nat /\ (a + 1) * n = a * n + n
  OBVIOUS
<1>2. ASSUME a < b
      PROVE  a * n + n <= b * n
  <2>1. PICK k \in Nat : b = a + 1 + k
    <3>1. b - a - 1 \in Nat /\ b = a + 1 + (b - a - 1)
      BY <1>2
    <3>2. QED
      BY <3>1
  <2>2. b * n = a * n + n + k * n /\ k * n \in Nat
    BY <2>1
  <2>3. QED
    BY <1>1, <2>2
<1>3. QED
  BY <1>1, <1>2

\* Lemma: a position in a list that is gone through again and again is a round
\* and a place.
LEMMA RoundAndPlace ==
  ASSUME NEW len \in Nat \ {0}, NEW j \in Nat
  PROVE  /\ j \div len \in Nat /\ j % len \in 0 .. len - 1
         /\ (j % len) + 1 \in 1 .. len
         /\ j = (j \div len) * len + (j % len)
OBVIOUS

Position(len, a, i) == a * len + i

\* Lemma: no other round and place give that position.
LEMMA OneRoundAndPlace ==
  ASSUME NEW len \in Nat \ {0}, NEW a \in Nat, NEW b \in Nat,
         NEW i \in 1 .. len, NEW k \in 1 .. len,
         Position(len, a, i) = Position(len, b, k)
  PROVE  a = b /\ i = k
<1> USE DEF Position
<1>1. a * len \in Nat /\ b * len \in Nat
  BY Times
<1>2. CASE a < b
  <2>1. a * len + len <= b * len
    BY <1>2, Times
  <2>2. QED
    BY <1>1, <2>1
<1>3. CASE b < a
  <2>1. b * len + len <= a * len
    BY <1>3, Times
  <2>2. QED
    BY <1>1, <2>1
<1>4. CASE a = b
  BY <1>1, <1>4
<1>5. QED
  BY <1>2, <1>3, <1>4

\* Lemma: the place of a position that is given by its round and place.
LEMMA PlaceOf ==
  ASSUME NEW len \in Nat \ {0}, NEW a \in Nat, NEW i \in 1 .. len
  PROVE  ((a * len + i - 1) % len) + 1 = i
<1>1. a * len \in Nat
  BY Times
<1> DEFINE j == a * len + i
<1>2. j \in Nat /\ j >= 1 /\ j - 1 \in Nat
  BY <1>1
<1> HIDE DEF j
<1> DEFINE q == (j - 1) \div len
           r == ((j - 1) % len) + 1
<1>3. q \in Nat /\ r \in 1 .. len /\ j - 1 = q * len + (r - 1)
  <2>1. /\ q \in Nat /\ (j - 1) % len \in 0 .. len - 1
        /\ r \in 1 .. len
        /\ j - 1 = q * len + ((j - 1) % len)
    BY <1>2, RoundAndPlace
  <2>2. r - 1 = (j - 1) % len
    BY <2>1
  <2>3. QED
    BY <2>1, <2>2
<1> HIDE DEF q, r
<1>4. q * len \in Nat
  BY <1>3, Times
<1>5. Position(len, a, i) = Position(len, q, r)
  <2>1. j = q * len + r
    BY <1>2, <1>3, <1>4
  <2>2. QED
    BY <2>1 DEF j, Position
<1>6. r = i
  BY <1>3, <1>5, OneRoundAndPlace
<1>7. QED
  BY <1>6 DEF r, j

\* Lemma: an iteration is not empty, and sends requests of the scenario.
LEMMA IterationFacts ==
  ASSUME NEW s \in Scenarios
  PROVE  /\ Passes(s) \in Nat \ {0} /\ IterationLength(s) \in Nat \ {0}
         /\ k6Iterations(s) \in Nat
         /\ \A j \in 1 .. IterationLength(s) :
              /\ RequestAt(s, j) \in Request
              /\ \E i \in DOMAIN s.requests : RequestAt(s, j) = s.requests[i]
<1>1. Passes(s) \in Nat \ {0}
  BY ScenarioFacts DEF Passes
<1>2. IterationLength(s) \in Nat \ {0}
  <2>1. \A m, n \in Nat \ {0} : m * n \in Nat \ {0}
    OBVIOUS
  <2>2. QED
    BY <1>1, <2>1, ScenarioFacts DEF IterationLength
<1>3. k6Iterations(s) \in Nat
  <2>1. \A m, n \in Nat : m * n \in Nat
    OBVIOUS
  <2>2. QED
    BY <2>1, ScenarioFacts DEF k6Iterations
<1>4. ASSUME NEW j \in 1 .. IterationLength(s)
      PROVE  /\ RequestAt(s, j) \in Request
             /\ \E i \in DOMAIN s.requests : RequestAt(s, j) = s.requests[i]
  <2>1. /\ s.requests \in Seq(Request) /\ Len(s.requests) \in Nat \ {0}
        /\ j - 1 \in Nat
    BY <1>2, ScenarioFacts
  <2>2. ((j - 1) % Len(s.requests)) + 1 \in 1 .. Len(s.requests)
    BY <2>1, RoundAndPlace
  <2>3. QED
    BY <2>1, <2>2 DEF RequestAt
<1>5. QED
  BY <1>1, <1>2, <1>3, <1>4

\* The places in an iteration where a request of a name is sent.
Slots(s, x) == {j \in 1 .. IterationLength(s) : RequestAt(s, j).name = x}

\* Lemma: an iteration sends every request once per pass.
LEMMA SlotsSize ==
  ASSUME NEW s \in Scenarios, NEW x
  PROVE  UpTo(Slots(s, x), IterationLength(s))
           = Passes(s) * Cardinality(Named(s.requests, x))
<1> DEFINE len == Len(s.requests)
           passes == Passes(s)
           A == 0 .. passes - 1
           N == Named(s.requests, x)
           f == [e \in A \X N |-> e[1] * len + e[2]]
<1>1. /\ len \in Nat \ {0} /\ passes \in Nat \ {0}
      /\ DOMAIN s.requests = 1 .. len
      /\ IterationLength(s) = passes * len
      /\ N = {i \in 1 .. len : s.requests[i].name = x}
      /\ \A j \in 1 .. passes * len :
           RequestAt(s, j) = s.requests[((j - 1) % len) + 1]
  BY ScenarioFacts, IterationFacts DEF IterationLength, RequestAt, Named
<1> HIDE DEF len, passes, N
<1>2. IsFiniteSet(A \X N) /\ Cardinality(A \X N) = passes * Cardinality(N)
  <2>1. IsFiniteSet(A) /\ Cardinality(A) = passes
    <3>1. 0 \in Int /\ passes - 1 \in Int
      BY <1>1
    <3>2. QED
      BY <1>1, <3>1, FS_Interval
  <2>2. IsFiniteSet(N)
    <3>1. 1 \in Int /\ len \in Int
      BY <1>1
    <3>2. IsFiniteSet(1 .. len)
      BY <3>1, FS_Interval
    <3>3. QED
      BY <1>1, <3>2, FS_Subset
  <2> HIDE DEF A
  <2>3. QED
    BY <2>1, <2>2, FS_Product
<1>3. ASSUME NEW a \in A, NEW i \in 1 .. len
      PROVE  /\ a * len + i \in 1 .. passes * len
             /\ RequestAt(s, a * len + i) = s.requests[i]
  <2>1. a \in Nat /\ a < passes /\ passes \in Nat /\ len \in Nat \ {0}
    BY <1>1
  <2>2. a * len \in Nat /\ a * len + len <= passes * len /\ passes * len \in Nat
    BY <1>1, <2>1, Times
  <2>3. a * len + i \in 1 .. passes * len
    BY <2>1, <2>2
  <2>4. ((a * len + i - 1) % len) + 1 = i
    BY <2>1, PlaceOf
  <2>5. QED
    BY <1>1, <2>3, <2>4
<1>4. f \in [A \X N -> Slots(s, x)]
  <2> SUFFICES ASSUME NEW a \in A, NEW i \in N
               PROVE  a * len + i \in Slots(s, x)
    OBVIOUS
  <2>1. i \in 1 .. len /\ s.requests[i].name = x
    BY <1>1
  <2>2. QED
    BY <1>1, <1>3, <2>1 DEF Slots
<1>5. \A e, d \in A \X N : f[e] = f[d] => e = d
  <2> SUFFICES ASSUME NEW a \in A, NEW i \in N, NEW b \in A, NEW j \in N,
                      a * len + i = b * len + j
               PROVE  a = b /\ i = j
    OBVIOUS
  <2>1. /\ i \in 1 .. len /\ j \in 1 .. len /\ a \in Nat /\ b \in Nat
        /\ len \in Nat \ {0}
    BY <1>1
  <2>2. Position(len, a, i) = Position(len, b, j)
    BY DEF Position
  <2>3. QED
    BY <2>1, <2>2, OneRoundAndPlace
<1>6. \A j \in Slots(s, x) : \E e \in A \X N : f[e] = j
  <2> SUFFICES ASSUME NEW j \in Slots(s, x)
               PROVE  \E e \in A \X N : f[e] = j
    OBVIOUS
  <2> DEFINE a == (j - 1) \div len
             i == ((j - 1) % len) + 1
  <2>1. j \in 1 .. passes * len /\ s.requests[i].name = x
    BY <1>1 DEF Slots
  <2>2. passes * len \in Nat
    BY <1>1, Times
  <2>3. j - 1 \in Nat
    BY <2>1, <2>2
  <2>4. /\ a \in Nat /\ (j - 1) % len \in 0 .. len - 1 /\ i \in 1 .. len
        /\ j - 1 = a * len + ((j - 1) % len)
    BY <1>1, <2>3, RoundAndPlace
  <2> HIDE DEF a
  <2>5. a * len \in Nat
    BY <1>1, <2>4, Times
  <2>6. j = a * len + i
    BY <2>1, <2>2, <2>4, <2>5
  <2> HIDE DEF i
  <2>7. a < passes
    <3>1. CASE passes <= a
      <4>1. passes * len <= a * len
        <5>1. CASE passes = a
          BY <2>2, <5>1
        <5>2. CASE passes < a
          <6>1. passes * len + len <= a * len
            BY <1>1, <2>4, <5>2, Times
          <6>2. QED
            BY <1>1, <2>2, <2>5, <6>1
        <5>3. QED
          BY <1>1, <2>4, <3>1, <5>1, <5>2
      <4>2. QED
        BY <2>1, <2>2, <2>4, <2>5, <2>6, <4>1
    <3>2. QED
      BY <1>1, <2>4, <3>1
  <2>8. a \in A /\ i \in N
    BY <1>1, <2>1, <2>4, <2>7
  <2>9. <<a, i>> \in A \X N /\ f[<<a, i>>] = j
    BY <2>6, <2>8
  <2>10. QED
    BY <2>9
<1>7. Cardinality(Slots(s, x)) = passes * Cardinality(N)
  <2> HIDE DEF f, A
  <2>1. QED
    BY <1>2, <1>4, <1>5, <1>6, SameSize
<1>8. (1 .. IterationLength(s)) \cap Slots(s, x) = Slots(s, x)
  BY DEF Slots
<1>9. QED
  BY <1>7, <1>8 DEF UpTo, passes, N

\* What VUs have sent of the iterations they are in, f[v] requests each, at the
\* places S.
Underway(f, S) == {e \in (DOMAIN f) \X S : e[2] <= f[e[1]]}

\* VUs in an iteration.
Busy(f) == {v \in DOMAIN f : f[v] > 0}

\* A VU is elsewhere in its iterations, the others are not.
Elsewhere(V, f, g, v, S) ==
  /\ IsFiniteSet(V) /\ v \in V
  /\ f \in [V -> Nat] /\ g \in [V -> Nat]
  /\ \A w \in V \ {v} : g[w] = f[w]
  /\ IsFiniteSet(S) /\ S \subseteq Nat \ {0}

\* Lemma: what the VU had sent of its iteration no longer counts and what it has
\* sent does.
LEMMA UnderwayStep ==
  ASSUME NEW V, NEW f, NEW g, NEW v, NEW S, Elsewhere(V, f, g, v, S)
  PROVE  /\ Cardinality(Underway(f, S)) \in Nat
         /\ Cardinality(Underway(g, S)) \in Nat
         /\ Cardinality(Underway(g, S)) + UpTo(S, f[v])
              = Cardinality(Underway(f, S)) + UpTo(S, g[v])
<1> USE DEF Elsewhere
<1> DEFINE Rest == {e \in V \X S : e[1] # v /\ e[2] <= f[e[1]]}
           Own(k) == {v} \X ((1 .. k) \cap S)
<1>1. IsFiniteSet(Rest)
  <2>1. IsFiniteSet(V \X S) /\ Rest \in SUBSET (V \X S)
    BY FS_Product
  <2> HIDE DEF Rest
  <2>2. QED
    BY <2>1, FS_Subset
<1>2. ASSUME NEW k \in Nat
      PROVE  /\ IsFiniteSet(Own(k)) /\ Cardinality(Own(k)) = UpTo(S, k)
             /\ UpTo(S, k) \in Nat
  <2>1. IsFiniteSet((1 .. k) \cap S)
    BY FS_Intersection
  <2>2. IsFiniteSet({v}) /\ Cardinality({v}) = 1
    BY FS_Singleton
  <2>3. /\ IsFiniteSet(Own(k))
        /\ Cardinality(Own(k)) = 1 * Cardinality((1 .. k) \cap S)
    BY <2>1, <2>2, FS_Product
  <2>4. UpTo(S, k) \in Nat
    BY UpToNext
  <2>5. QED
    BY <2>3, <2>4 DEF UpTo
<1>3. ASSUME NEW k \in Nat
      PROVE  Rest \cap Own(k) = {}
  OBVIOUS
<1>4. ASSUME NEW h \in [V -> Nat], \A w \in V \ {v} : h[w] = f[w]
      PROVE  Underway(h, S) = Rest \cup Own(h[v])
  <2>1. ASSUME NEW w \in V, NEW j \in S
        PROVE  <<w, j>> \in Underway(h, S) <=> <<w, j>> \in Rest \cup Own(h[v])
    <3>1. <<w, j>> \in Underway(h, S) <=> j <= h[w]
      BY DEF Underway
    <3>2. <<w, j>> \in Rest <=> w # v /\ j <= f[w]
      OBVIOUS
    <3>3. <<w, j>> \in Own(h[v]) <=> w = v /\ j <= h[v]
      OBVIOUS
    <3>4. QED
      BY <1>4, <3>1, <3>2, <3>3
  <2>2. Underway(h, S) \subseteq V \X S
    BY DEF Underway
  <2>3. Rest \cup Own(h[v]) \subseteq V \X S
    OBVIOUS
  <2> HIDE DEF Rest, Own
  <2>4. ASSUME NEW e \in V \X S
        PROVE  e \in Underway(h, S) <=> e \in Rest \cup Own(h[v])
    <3>1. e[1] \in V /\ e[2] \in S /\ e = <<e[1], e[2]>>
      OBVIOUS
    <3>2. QED
      BY <2>1, <3>1
  <2>5. QED
    BY <2>2, <2>3, <2>4
<1> HIDE DEF Rest, Own
<1>5. ASSUME NEW h \in [V -> Nat], \A w \in V \ {v} : h[w] = f[w]
      PROVE  Cardinality(Underway(h, S)) = Cardinality(Rest) + UpTo(S, h[v])
  <2>1. h[v] \in Nat
    OBVIOUS
  <2>2. Cardinality(Rest \cup Own(h[v]))
          = Cardinality(Rest) + Cardinality(Own(h[v]))
              - Cardinality(Rest \cap Own(h[v]))
    BY <1>1, <1>2, <2>1, FS_Union
  <2>3. Cardinality(Rest \cap Own(h[v])) = 0
    BY <1>3, <2>1, FS_EmptySet
  <2>4. Cardinality(Rest) \in Nat
    BY <1>1, FS_CardinalityType
  <2>5. Cardinality(Own(h[v])) = UpTo(S, h[v]) /\ UpTo(S, h[v]) \in Nat
    BY <1>2, <2>1
  <2>6. Underway(h, S) = Rest \cup Own(h[v])
    BY <1>4, <1>5
  <2>7. QED
    BY <2>2, <2>3, <2>4, <2>5, <2>6
<1>6. Cardinality(Underway(f, S)) = Cardinality(Rest) + UpTo(S, f[v])
  BY <1>5
<1>7. Cardinality(Underway(g, S)) = Cardinality(Rest) + UpTo(S, g[v])
  BY <1>5
<1>8. /\ Cardinality(Rest) \in Nat
      /\ UpTo(S, f[v]) \in Nat
      /\ UpTo(S, g[v]) \in Nat
  <2>1. f[v] \in Nat /\ g[v] \in Nat
    OBVIOUS
  <2>2. QED
    BY <1>1, <2>1, FS_CardinalityType, UpToNext
<1>9. QED
  BY <1>6, <1>7, <1>8

\* Lemma: the VU joins or leaves those in an iteration.
LEMMA BusyStep ==
  ASSUME NEW V, NEW f, NEW g, NEW v, NEW S, Elsewhere(V, f, g, v, S)
  PROVE  /\ Cardinality(Busy(f)) \in Nat
         /\ Cardinality(Busy(g))
              = Cardinality(Busy(f)) + (IF g[v] > 0 THEN 1 ELSE 0)
                                     - (IF f[v] > 0 THEN 1 ELSE 0)
<1> DEFINE Rest == {w \in V \ {v} : f[w] > 0}
<1>1. IsFiniteSet(Rest) /\ v \notin Rest
  BY FS_Subset DEF Elsewhere
<1>2. /\ Busy(f) = IF f[v] > 0 THEN Rest \cup {v} ELSE Rest
      /\ Busy(g) = IF g[v] > 0 THEN Rest \cup {v} ELSE Rest
  BY DEF Busy, Elsewhere
<1> HIDE DEF Rest
<1>3. /\ Cardinality(Rest \cup {v}) = Cardinality(Rest) + 1
      /\ Cardinality(Rest) \in Nat
  BY <1>1, FS_AddElement, FS_CardinalityType
<1>4. /\ Cardinality(Busy(f)) = Cardinality(Rest) + (IF f[v] > 0 THEN 1 ELSE 0)
      /\ Cardinality(Busy(g)) = Cardinality(Rest) + (IF g[v] > 0 THEN 1 ELSE 0)
  BY <1>2, <1>3
<1>5. QED
  BY <1>3, <1>4

\* Lemma: one more request, at place f[v] + 1 of an iteration, adds one to what
\* the iterations that are done and those underway have sent.
LEMMA OneMore ==
  ASSUME NEW V, NEW f, NEW g, NEW v, NEW S, Elsewhere(V, f, g, v, S),
         NEW len \in Nat, f[v] < len,
         g[v] = IF f[v] + 1 = len THEN 0 ELSE f[v] + 1,
         NEW all \in Nat, NEW l \in Nat, NEW k,
         k = IF f[v] = 0 THEN l - 1 ELSE l
  PROVE  (all - k - Cardinality(Busy(g))) * UpTo(S, len)
             + Cardinality(Underway(g, S))
           = (all - l - Cardinality(Busy(f))) * UpTo(S, len)
               + Cardinality(Underway(f, S)) + (IF f[v] + 1 \in S THEN 1 ELSE 0)
<1> DEFINE b == IF f[v] + 1 \in S THEN 1 ELSE 0
           done == all - l - Cardinality(Busy(f))
           u == Cardinality(Underway(f, S))
           w == Cardinality(Underway(g, S))
           P == UpTo(S, len)
<1>1. f[v] \in Nat /\ g[v] \in Nat /\ b \in {0, 1}
  BY DEF Elsewhere
<1>2. u \in Nat /\ w \in Nat /\ w + UpTo(S, f[v]) = u + UpTo(S, g[v])
  BY UnderwayStep
<1>3. /\ Cardinality(Busy(f)) \in Nat
      /\ Cardinality(Busy(g))
           = Cardinality(Busy(f)) + (IF g[v] > 0 THEN 1 ELSE 0)
                                  - (IF f[v] > 0 THEN 1 ELSE 0)
  BY BusyStep
<1>4. /\ UpTo(S, 0) = 0 /\ UpTo(S, f[v]) \in Nat /\ P \in Nat
      /\ UpTo(S, f[v] + 1) = UpTo(S, f[v]) + b
  BY <1>1, UpToNext
<1>5. done \in Int
  BY <1>3
<1>6. CASE f[v] + 1 = len
  <2>1. all - k - Cardinality(Busy(g)) = done + 1
    BY <1>1, <1>3, <1>6
  <2>2. w + UpTo(S, f[v]) = u /\ P = UpTo(S, f[v]) + b
    BY <1>2, <1>4, <1>6
  <2> HIDE DEF done, u, w, P, b
  <2>3. (done + 1) * P = done * P + P /\ done * P \in Int
    BY <1>4, <1>5
  <2>4. (done + 1) * P + w = done * P + u + b
    BY <1>1, <1>2, <1>4, <2>2, <2>3
  <2>5. QED
    BY <2>1, <2>4 DEF done, u, w, P, b
<1>7. CASE f[v] + 1 # len
  <2>1. g[v] = f[v] + 1 /\ g[v] > 0
    BY <1>1, <1>7
  <2>2. all - k - Cardinality(Busy(g)) = done
    BY <1>1, <1>3, <2>1
  <2>3. w = u + b
    BY <1>1, <1>2, <1>4, <2>1
  <2> HIDE DEF done, u, w, P, b
  <2>4. done * P \in Int
    BY <1>4, <1>5
  <2>5. done * P + w = done * P + u + b
    BY <1>1, <1>2, <2>3, <2>4
  <2>6. QED
    BY <2>2, <2>5 DEF done, u, w, P, b
<1>8. QED
  BY <1>6, <1>7

-----------------------------------------------------------------------------
(* Responses                                                               *)

Sections == {"setup", "requests", "teardown"}

Response == [name : Names, section : Sections, expect : SUBSET Nat,
             status : Statuses, ms : Durations]

\* No number is given twice to responses that look alike.
Recorded(R) ==
  /\ IsFiniteSet(R) /\ R \subseteq Response \X Nat
  /\ \A c \in R : c[2] <= Cardinality({d \in R : d[1] = c[1]})

Sent(R, section, x) ==
  Cardinality({c \in R : c[1].section = section /\ c[1].name = x})

Added(R, r) == R \cup {<<r, Cardinality({d \in R : d[1] = r}) + 1>>}

\* Lemma: one more response is one more request that was sent.
LEMMA OneMoreResponse ==
  ASSUME NEW R, Recorded(R), NEW r \in Response
  PROVE  /\ Recorded(Added(R, r))
         /\ \A section, x :
              /\ Sent(R, section, x) \in Nat
              /\ Sent(Added(R, r), section, x)
                   = Sent(R, section, x)
                       + (IF r.section = section /\ r.name = x THEN 1 ELSE 0)
<1> DEFINE like(q) == {d \in R : d[1] = q}
           n == Cardinality(like(r)) + 1
           c0 == <<r, n>>
           T == Added(R, r)
<1>1. /\ IsFiniteSet(R)
      /\ \A q : IsFiniteSet(like(q)) /\ Cardinality(like(q)) \in Nat
  <2>1. IsFiniteSet(R) /\ \A q : like(q) \in SUBSET R
    BY DEF Recorded
  <2> HIDE DEF like
  <2>2. QED
    BY <2>1, FS_Subset, FS_CardinalityType
<1>2. T = R \cup {c0}
  BY DEF Added
<1>3. c0 \notin R
  <2> SUFFICES ASSUME c0 \in R
               PROVE  FALSE
    OBVIOUS
  <2>1. c0[2] <= Cardinality({d \in R : d[1] = c0[1]})
    BY DEF Recorded
  <2>2. c0[1] = r /\ c0[2] = n
    OBVIOUS
  <2>3. n <= Cardinality(like(r))
    BY <2>1, <2>2
  <2> HIDE DEF like
  <2>4. QED
    BY <1>1, <2>3
<1>4. n \in Nat /\ c0 \in Response \X Nat
  <2>1. n \in Nat
    <3> HIDE DEF like
    <3>1. QED
      BY <1>1
  <2> HIDE DEF n
  <2>2. QED
    BY <2>1
<1> HIDE DEF T
<1>5. IsFiniteSet(T) /\ T \subseteq Response \X Nat
  <2> HIDE DEF c0
  <2>1. IsFiniteSet(R \cup {c0})
    BY <1>1, FS_AddElement
  <2>2. QED
    BY <1>2, <1>4, <2>1 DEF Recorded
<1>6. /\ {d \in T : d[1] = r} = like(r) \cup {c0}
      /\ \A q : q # r => {d \in T : d[1] = q} = like(q)
  <2>1. c0[1] = r
    OBVIOUS
  <2> HIDE DEF c0
  <2>2. QED
    BY <1>2, <2>1
<1>7. Cardinality({d \in T : d[1] = r}) = n
  <2>1. c0 \notin like(r)
    BY <1>3
  <2> HIDE DEF like, c0
  <2>2. Cardinality(like(r) \cup {c0}) = Cardinality(like(r)) + 1
    BY <1>1, <2>1, FS_AddElement
  <2>3. QED
    BY <1>6, <2>2
<1>8. ASSUME NEW c \in T
      PROVE  c[2] <= Cardinality({d \in T : d[1] = c[1]})
  <2>1. CASE c = c0
    <3>1. c[1] = r /\ c[2] = n
      BY <2>1
    <3> HIDE DEF n, c0
    <3>2. QED
      BY <1>4, <1>7, <3>1
  <2>2. CASE c # c0 /\ c[1] = r
    <3>1. c \in R
      BY <1>2, <2>2
    <3>2. c[2] <= Cardinality(like(r)) /\ c[2] \in Nat
      <4>1. c[2] <= Cardinality({d \in R : d[1] = c[1]})
        BY <3>1 DEF Recorded
      <4>2. c \in Response \X Nat
        BY <3>1 DEF Recorded
      <4>3. QED
        BY <2>2, <4>1, <4>2
    <3>3. Cardinality({d \in T : d[1] = c[1]}) = n
      BY <1>7, <2>2
    <3> HIDE DEF like
    <3>4. QED
      BY <1>1, <3>2, <3>3
  <2>3. CASE c[1] # r
    <3>1. c \in R
      BY <1>2, <2>3
    <3>2. c[2] <= Cardinality({d \in R : d[1] = c[1]})
      BY <3>1 DEF Recorded
    <3>3. {d \in T : d[1] = c[1]} = {d \in R : d[1] = c[1]}
      BY <1>6, <2>3
    <3>4. QED
      BY <3>2, <3>3
  <2>4. QED
    BY <2>1, <2>2, <2>3
<1>9. Recorded(T)
  BY <1>5, <1>8 DEF Recorded
<1>10. ASSUME NEW section, NEW x
       PROVE  /\ Sent(R, section, x) \in Nat
              /\ Sent(T, section, x)
                   = Sent(R, section, x)
                       + (IF r.section = section /\ r.name = x THEN 1 ELSE 0)
  <2> DEFINE A == {c \in R : c[1].section = section /\ c[1].name = x}
  <2>1. IsFiniteSet(A) /\ Cardinality(A) \in Nat /\ c0 \notin A
    <3>1. A \in SUBSET R /\ c0 \notin A
      BY <1>3
    <3> HIDE DEF A, c0
    <3>2. QED
      BY <1>1, <3>1, FS_Subset, FS_CardinalityType
  <2>2. c0[1] = r
    OBVIOUS
  <2> HIDE DEF c0
  <2>3. Cardinality(A \cup {c0}) = Cardinality(A) + 1
    <3> HIDE DEF A
    <3>1. QED
      BY <2>1, FS_AddElement
  <2>4. CASE r.section = section /\ r.name = x
    <3>1. {c \in T : c[1].section = section /\ c[1].name = x} = A \cup {c0}
      BY <1>2, <2>2, <2>4
    <3>2. /\ Sent(T, section, x) = Cardinality(A \cup {c0})
          /\ Sent(R, section, x) = Cardinality(A)
      BY <3>1 DEF Sent
    <3> HIDE DEF A
    <3>3. QED
      BY <2>1, <2>3, <2>4, <3>2
  <2>5. CASE ~ (r.section = section /\ r.name = x)
    <3>1. {c \in T : c[1].section = section /\ c[1].name = x} = A
      BY <1>2, <2>2, <2>5
    <3>2. /\ Sent(T, section, x) = Cardinality(A)
          /\ Sent(R, section, x) = Cardinality(A)
      BY <3>1 DEF Sent
    <3> HIDE DEF A
    <3>3. QED
      BY <2>1, <2>5, <3>2
  <2>6. QED
    BY <2>4, <2>5
<1>11. QED
  BY <1>9, <1>10 DEF T

-----------------------------------------------------------------------------
(* The inductive invariant                                                 *)

Section(s, name) ==
  IF name = "setup" THEN s.setup
  ELSE IF name = "requests" THEN s.requests ELSE s.teardown

\* Every response is to a request of the section it was sent in.
Asked(s, R) ==
  \A c \in R : \E i \in DOMAIN Section(s, c[1].section) :
    /\ Section(s, c[1].section)[i].name = c[1].name
    /\ Section(s, c[1].section)[i].expect = c[1].expect

Running == {"setup", "traffic", "teardown", "exit"}

TypeOK ==
  /\ sc \in Scenarios
  /\ phase \in Running \cup {"import", "returned"}
  /\ hook \in Nat /\ left \in Nat
  /\ vu \in [VUs -> 0 .. IterationLength(sc) - 1]
  /\ thrown \in BOOLEAN /\ cut \in BOOLEAN /\ exported \in BOOLEAN

\* How far each phase lets the counters get.
InPhase ==
  /\ phase = "setup" => hook <= Len(sc.setup)
  /\ phase = "traffic" => hook = 0
  /\ phase = "teardown" => hook <= Len(sc.teardown)
  /\ phase \in Running => ~exported
  /\ ~thrown /\ (phase \in {"teardown", "exit"} \/ exported) =>
       left = 0 /\ vu = [v \in VUs |-> 0]

\* What has been sent, in a script that nothing has gone wrong with.
SentSoFar ==
  ~thrown /\ ~cut /\ (phase \in Running \/ exported) =>
    \A x \in Names :
      /\ Sent(responses, "setup", x)
           = UpTo(Named(sc.setup, x),
                  IF phase = "setup" THEN hook ELSE Len(sc.setup))
      /\ Sent(responses, "requests", x)
           = (k6Iterations(sc) - left - Cardinality(Busy(vu)))
                 * UpTo(Slots(sc, x), IterationLength(sc))
               + Cardinality(Underway(vu, Slots(sc, x)))
      /\ Sent(responses, "teardown", x)
           = UpTo(Named(sc.teardown, x),
                  IF phase \in {"setup", "traffic"} THEN 0
                  ELSE IF phase = "teardown" THEN hook ELSE Len(sc.teardown))

\* reconstructRecords and the verdict, of any responses and average duration.
Counters(s, R) ==
  [k \in k6Thresholds(s) |->
     Cardinality({c \in R : c[1].name = k[1] /\ c[1].status = k[2]})]

Entries(s, R) ==
  UNION {{k} \X (1 .. Counters(s, R)[k]) : k \in k6Thresholds(s)}

Reconstructed(s, R, avg) ==
  [c \in Entries(s, R) |->
     [name |-> c[1][1], status |-> c[1][2], ms |-> avg,
      error |-> c[1][2] = 0 \/ c[1][2] >= 500]]

RatesOf(s, R) ==
  {ErrorRateWithin(Cardinality({c \in R : ~Checked(c[1])}),
                   Cardinality(R), rate)
     : rate \in {s.maxErrorRate} \ {None}}

LatenciesOf(s, R) ==
  {R = {} \/ percentile([c \in R |-> c[1]], 95) <= 100 * ms
     : ms \in {s.p95} \ {None}}

VerdictOf(s, p, R, avg) ==
  Build(Reconstructed(s, R, avg), RatesOf(s, R) \cup LatenciesOf(s, R),
        evaluateInvariants(s, Reconstructed(s, R, avg), p))

Judged ==
  phase = "returned" /\ exported =>
    \E avg : verdict = VerdictOf(sc, probe, responses, avg)

Inv ==
  /\ TypeOK
  /\ Recorded(responses) /\ Asked(sc, responses)
  /\ InPhase
  /\ SentSoFar
  /\ Judged

\* Lemma: the invariant holds before the script has started.
LEMMA InitInv ==
  Init => Inv
<1> SUFFICES ASSUME Init
             PROVE  Inv
  OBVIOUS
<1> USE DEF Init
<1>1. TypeOK
  <2>1. /\ sc \in Scenarios /\ k6Iterations(sc) \in Nat
        /\ IterationLength(sc) \in Nat \ {0}
    BY IterationFacts
  <2>2. vu \in [VUs -> 0 .. IterationLength(sc) - 1]
    BY <2>1
  <2>3. QED
    BY <2>1, <2>2 DEF TypeOK, Running
<1>2. Recorded(responses) /\ Asked(sc, responses)
  BY FS_EmptySet DEF Recorded, Asked
<1>3. InPhase /\ Judged
  BY ScenarioFacts DEF InPhase, Judged, Running
<1>4. SentSoFar
  <2> SUFFICES ASSUME NEW x \in Names
               PROVE  /\ Sent(responses, "setup", x)
                           = UpTo(Named(sc.setup, x), hook)
                      /\ Sent(responses, "requests", x)
                           = (k6Iterations(sc) - left - Cardinality(Busy(vu)))
                                 * UpTo(Slots(sc, x), IterationLength(sc))
                               + Cardinality(Underway(vu, Slots(sc, x)))
                      /\ Sent(responses, "teardown", x)
                           = UpTo(Named(sc.teardown, x), 0)
    BY DEF SentSoFar
  <2>1. \A section : Sent(responses, section, x) = 0
    BY FS_EmptySet DEF Sent
  <2>2. \A S : UpTo(S, 0) = 0
    BY UpToNext
  <2>3. Busy(vu) = {} /\ Underway(vu, Slots(sc, x)) = {}
    BY DEF Busy, Underway, Slots
  <2>4. Cardinality(Busy(vu)) = 0 /\ Cardinality(Underway(vu, Slots(sc, x))) = 0
    BY <2>3, FS_EmptySet
  <2>5. k6Iterations(sc) - left - Cardinality(Busy(vu)) = 0
    BY <2>4, IterationFacts
  <2>6. UpTo(Slots(sc, x), IterationLength(sc)) \in Nat
    BY IterationFacts, UpToNext
  <2>7. QED
    BY <2>1, <2>2, <2>4, <2>5, <2>6
<1>5. QED
  BY <1>1, <1>2, <1>3, <1>4 DEF Inv

\* Lemma: what runRequest adds to the responses.
LEMMA RunRequestAdds ==
  ASSUME Recorded(responses), NEW req \in Request, NEW section \in Sections,
         runRequest(req, section)
  PROVE  /\ Recorded(responses)'
         /\ \A other, x :
              /\ Sent(responses, other, x) \in Nat
              /\ Sent(responses, other, x)'
                   = Sent(responses, other, x)
                       + (IF section = other /\ req.name = x THEN 1 ELSE 0)
         /\ \A c \in responses' :
              c \in responses \/ /\ c[1].section = section
                                 /\ c[1].name = req.name
                                 /\ c[1].expect = req.expect
<1>1. PICK r \in Responses(req, section) :
        responses' = responses \cup {<<r, Cardinality(Alike(r)) + 1>>}
  BY DEF runRequest
<1>2. responses' = Added(responses, r)
  BY <1>1 DEF Added, Alike
<1>3. /\ r \in Response /\ r.section = section /\ r.name = req.name
      /\ r.expect = req.expect
  BY DEF Responses, Response, Request
<1>4. Recorded(responses)'
  BY <1>2, <1>3, OneMoreResponse
<1>5. ASSUME NEW other, NEW x
      PROVE  /\ Sent(responses, other, x) \in Nat
             /\ Sent(responses, other, x)'
                  = Sent(responses, other, x)
                      + (IF section = other /\ req.name = x THEN 1 ELSE 0)
  BY <1>2, <1>3, OneMoreResponse
<1>6. ASSUME NEW c \in responses', c \notin responses
      PROVE  /\ c[1].section = section
             /\ c[1].name = req.name
             /\ c[1].expect = req.expect
  <2>1. c[1] = r
    BY <1>1, <1>6
  <2>2. QED
    BY <1>3, <2>1
<1>7. QED
  BY <1>4, <1>5, <1>6

\* Lemma: a call of runRequest for a request of its section.
LEMMA AskedNext ==
  ASSUME Asked(sc, responses), sc' = sc, NEW section, NEW req,
         \E i \in DOMAIN Section(sc, section) : Section(sc, section)[i] = req,
         \A c \in responses' :
           c \in responses \/ /\ c[1].section = section
                              /\ c[1].name = req.name
                              /\ c[1].expect = req.expect
  PROVE  Asked(sc, responses)'
<1> SUFFICES ASSUME NEW c \in responses'
             PROVE  \E i \in DOMAIN Section(sc, c[1].section) :
                      /\ Section(sc, c[1].section)[i].name = c[1].name
                      /\ Section(sc, c[1].section)[i].expect = c[1].expect
  BY DEF Asked
<1>1. CASE c \in responses
  BY <1>1 DEF Asked
<1>2. CASE /\ c[1].section = section
           /\ c[1].name = req.name
           /\ c[1].expect = req.expect
  BY <1>2
<1>3. QED
  BY <1>1, <1>2

\* Lemma: counting the hooks up to the one just sent.
LEMMA HookCount ==
  ASSUME NEW requests \in Seq(Request), NEW n \in Nat, n < Len(requests), NEW x
  PROVE  /\ requests[n + 1] \in Request
         /\ n + 1 \in DOMAIN requests
         /\ UpTo(Named(requests, x), n) \in Nat
         /\ UpTo(Named(requests, x), n + 1)
              = UpTo(Named(requests, x), n)
                  + (IF requests[n + 1].name = x THEN 1 ELSE 0)
<1>1. requests[n + 1] \in Request /\ n + 1 \in DOMAIN requests
  OBVIOUS
<1>2. n + 1 \in Named(requests, x) <=> requests[n + 1].name = x
  BY <1>1 DEF Named
<1>3. QED
  BY <1>1, <1>2, UpToNext

\* Lemma: sending a hook, and going on after the last one.
LEMMA SetupInv ==
  Inv /\ Setup => Inv'
<1> SUFFICES ASSUME Inv, Setup
             PROVE  Inv'
  OBVIOUS
<1>1. /\ TypeOK /\ Recorded(responses) /\ Asked(sc, responses) /\ InPhase
      /\ SentSoFar
  BY DEF Inv
<1>2. /\ phase = "setup"
      /\ UNCHANGED <<left, vu, cut, sc, probe, exported, verdict>>
  BY DEF Setup, Lifecycle, RunUnchanged
<1>3. /\ sc \in Scenarios /\ sc.setup \in Seq(Request) /\ hook \in Nat
      /\ Len(sc.setup) \in Nat /\ ~exported
  BY <1>1, <1>2, ScenarioFacts DEF TypeOK, InPhase, Running
<1>4. ASSUME hook < Len(sc.setup), runRequest(sc.setup[hook + 1], "setup"),
             phase' = IF Throws(sc.setup[hook + 1]) THEN "exit" ELSE phase,
             hook' = hook + 1
      PROVE  Inv'
  <2> DEFINE req == sc.setup[hook + 1]
  <2>1. req \in Request /\ hook + 1 \in DOMAIN sc.setup
    BY <1>3, <1>4, HookCount
  <2>2. /\ Recorded(responses)'
        /\ \A other, x :
             /\ Sent(responses, other, x) \in Nat
             /\ Sent(responses, other, x)'
                  = Sent(responses, other, x)
                      + (IF "setup" = other /\ req.name = x THEN 1 ELSE 0)
        /\ \A c \in responses' :
             c \in responses \/ /\ c[1].section = "setup"
                                /\ c[1].name = req.name
                                /\ c[1].expect = req.expect
    <3>1. "setup" \in Sections
      BY DEF Sections
    <3> HIDE DEF req
    <3>2. runRequest(req, "setup")
      BY <1>4 DEF req
    <3>3. QED
      BY <1>1, <2>1, <3>1, <3>2, RunRequestAdds
  <2>3. Asked(sc, responses)'
    <3>1. \E i \in DOMAIN Section(sc, "setup") : Section(sc, "setup")[i] = req
      BY <2>1 DEF Section
    <3> HIDE DEF req
    <3>2. QED
      BY <1>1, <1>2, <2>2, <3>1, AskedNext
  <2>4. thrown' = (thrown \/ Throws(req)) /\ thrown \in BOOLEAN
    BY <1>1, <1>4 DEF runRequest, TypeOK
  <2>5. TypeOK' /\ InPhase' /\ Judged'
    <3>1. phase' = "setup" \/ (phase' = "exit" /\ thrown')
      <4>1. Throws(req) => thrown'
        BY <2>4, Zenon
      <4>2. QED
        BY <1>2, <1>4, <4>1
    <3>2. thrown' \in BOOLEAN
      BY <2>4, Zenon
    <3>3. TypeOK'
      BY <1>1, <1>2, <1>3, <1>4, <3>1, <3>2 DEF TypeOK, Running, VUs
    <3>4. InPhase'
      BY <1>1, <1>2, <1>3, <1>4, <2>4, <3>1 DEF InPhase, Running, VUs
    <3>5. Judged'
      BY <3>1 DEF Judged
    <3>6. QED
      BY <3>3, <3>4, <3>5
  <2>6. SentSoFar'
    <3> SUFFICES ASSUME ~thrown', ~cut', NEW x \in Names
                 PROVE  /\ Sent(responses, "setup", x)'
                             = UpTo(Named(sc.setup, x), hook + 1)
                        /\ Sent(responses, "requests", x)'
                             = (k6Iterations(sc) - left - Cardinality(Busy(vu)))
                                   * UpTo(Slots(sc, x), IterationLength(sc))
                                 + Cardinality(Underway(vu, Slots(sc, x)))
                        /\ Sent(responses, "teardown", x)'
                             = UpTo(Named(sc.teardown, x), 0)
      BY <1>2, <1>4, <2>4 DEF SentSoFar
    <3>1. ~thrown /\ ~cut
      BY <1>2, <2>4
    <3>2. /\ Sent(responses, "setup", x) = UpTo(Named(sc.setup, x), hook)
          /\ Sent(responses, "requests", x)
               = (k6Iterations(sc) - left - Cardinality(Busy(vu)))
                     * UpTo(Slots(sc, x), IterationLength(sc))
                   + Cardinality(Underway(vu, Slots(sc, x)))
          /\ Sent(responses, "teardown", x) = UpTo(Named(sc.teardown, x), 0)
      BY <1>1, <1>2, <3>1 DEF SentSoFar, Running
    <3>3. UpTo(Named(sc.setup, x), hook + 1)
            = UpTo(Named(sc.setup, x), hook) + (IF req.name = x THEN 1 ELSE 0)
      BY <1>3, <1>4, HookCount
    <3>4. /\ Sent(responses, "requests", x)' = Sent(responses, "requests", x)
          /\ Sent(responses, "teardown", x)' = Sent(responses, "teardown", x)
          /\ Sent(responses, "setup", x)'
               = Sent(responses, "setup", x) + (IF req.name = x THEN 1 ELSE 0)
      BY <2>2
    <3>5. QED
      BY <3>2, <3>3, <3>4
  <2>7. QED
    BY <2>2, <2>3, <2>5, <2>6 DEF Inv
<1>5. ASSUME hook = Len(sc.setup), phase' = "traffic", hook' = 0,
             UNCHANGED <<responses, thrown>>
      PROVE  Inv'
  <2>1. TypeOK' /\ InPhase' /\ Judged'
    BY <1>1, <1>2, <1>3, <1>5 DEF TypeOK, InPhase, Judged, Running, VUs
  <2>2. SentSoFar'
    BY <1>1, <1>2, <1>5 DEF SentSoFar, Running
  <2>3. Recorded(responses)' /\ Asked(sc, responses)'
    BY <1>1, <1>2, <1>5
  <2>4. QED
    BY <2>1, <2>2, <2>3 DEF Inv
<1>6. QED
  BY <1>4, <1>5 DEF Setup, Lifecycle

\* Lemma: the same of the hooks after the traffic.
LEMMA TeardownInv ==
  Inv /\ Teardown => Inv'
<1> SUFFICES ASSUME Inv, Teardown
             PROVE  Inv'
  OBVIOUS
<1>1. /\ TypeOK /\ Recorded(responses) /\ Asked(sc, responses) /\ InPhase
      /\ SentSoFar
  BY DEF Inv
<1>2. /\ phase = "teardown"
      /\ UNCHANGED <<left, vu, cut, sc, probe, exported, verdict>>
  BY DEF Teardown, Lifecycle, RunUnchanged
<1>3. /\ sc \in Scenarios /\ sc.teardown \in Seq(Request) /\ hook \in Nat
      /\ Len(sc.teardown) \in Nat /\ ~exported
  BY <1>1, <1>2, ScenarioFacts DEF TypeOK, InPhase, Running
<1>4. ASSUME hook < Len(sc.teardown),
             runRequest(sc.teardown[hook + 1], "teardown"),
             phase' = IF Throws(sc.teardown[hook + 1]) THEN "exit" ELSE phase,
             hook' = hook + 1
      PROVE  Inv'
  <2> DEFINE req == sc.teardown[hook + 1]
  <2>1. req \in Request /\ hook + 1 \in DOMAIN sc.teardown
    BY <1>3, <1>4, HookCount
  <2>2. /\ Recorded(responses)'
        /\ \A other, x :
             /\ Sent(responses, other, x) \in Nat
             /\ Sent(responses, other, x)'
                  = Sent(responses, other, x)
                      + (IF "teardown" = other /\ req.name = x THEN 1 ELSE 0)
        /\ \A c \in responses' :
             c \in responses \/ /\ c[1].section = "teardown"
                                /\ c[1].name = req.name
                                /\ c[1].expect = req.expect
    <3>1. "teardown" \in Sections
      BY DEF Sections
    <3> HIDE DEF req
    <3>2. runRequest(req, "teardown")
      BY <1>4 DEF req
    <3>3. QED
      BY <1>1, <2>1, <3>1, <3>2, RunRequestAdds
  <2>3. Asked(sc, responses)'
    <3>1. \E i \in DOMAIN Section(sc, "teardown") :
            Section(sc, "teardown")[i] = req
      BY <2>1 DEF Section
    <3> HIDE DEF req
    <3>2. QED
      BY <1>1, <1>2, <2>2, <3>1, AskedNext
  <2>4. thrown' = (thrown \/ Throws(req)) /\ thrown \in BOOLEAN
    BY <1>1, <1>4 DEF runRequest, TypeOK
  <2>5. TypeOK' /\ InPhase' /\ Judged'
    <3>1. phase' = "teardown" \/ (phase' = "exit" /\ thrown')
      <4>1. Throws(req) => thrown'
        BY <2>4, Zenon
      <4>2. QED
        BY <1>2, <1>4, <4>1
    <3>2. thrown' \in BOOLEAN
      BY <2>4, Zenon
    <3>3. TypeOK'
      BY <1>1, <1>2, <1>3, <1>4, <3>1, <3>2 DEF TypeOK, Running, VUs
    <3>4. InPhase'
      BY <1>1, <1>2, <1>3, <1>4, <2>4, <3>1 DEF InPhase, Running, VUs
    <3>5. Judged'
      BY <3>1 DEF Judged
    <3>6. QED
      BY <3>3, <3>4, <3>5
  <2>6. SentSoFar'
    <3> SUFFICES ASSUME ~thrown', ~cut', NEW x \in Names
                 PROVE  /\ Sent(responses, "setup", x)'
                             = UpTo(Named(sc.setup, x), Len(sc.setup))
                        /\ Sent(responses, "requests", x)'
                             = (k6Iterations(sc) - left - Cardinality(Busy(vu)))
                                   * UpTo(Slots(sc, x), IterationLength(sc))
                                 + Cardinality(Underway(vu, Slots(sc, x)))
                        /\ Sent(responses, "teardown", x)'
                             = UpTo(Named(sc.teardown, x), hook + 1)
      BY <1>2, <1>4, <2>4 DEF SentSoFar
    <3>1. ~thrown /\ ~cut
      BY <1>2, <2>4
    <3>2. /\ Sent(responses, "setup", x)
               = UpTo(Named(sc.setup, x), Len(sc.setup))
          /\ Sent(responses, "requests", x)
               = (k6Iterations(sc) - left - Cardinality(Busy(vu)))
                     * UpTo(Slots(sc, x), IterationLength(sc))
                   + Cardinality(Underway(vu, Slots(sc, x)))
          /\ Sent(responses, "teardown", x) = UpTo(Named(sc.teardown, x), hook)
      BY <1>1, <1>2, <3>1 DEF SentSoFar, Running
    <3>3. UpTo(Named(sc.teardown, x), hook + 1)
            = UpTo(Named(sc.teardown, x), hook)
                + (IF req.name = x THEN 1 ELSE 0)
      BY <1>3, <1>4, HookCount
    <3>4. /\ Sent(responses, "requests", x)' = Sent(responses, "requests", x)
          /\ Sent(responses, "setup", x)' = Sent(responses, "setup", x)
          /\ Sent(responses, "teardown", x)'
               = Sent(responses, "teardown", x)
                   + (IF req.name = x THEN 1 ELSE 0)
      BY <2>2
    <3>5. QED
      BY <3>2, <3>3, <3>4
  <2>7. QED
    BY <2>2, <2>3, <2>5, <2>6 DEF Inv
<1>5. ASSUME hook = Len(sc.teardown), phase' = "exit", hook' = 0,
             UNCHANGED <<responses, thrown>>
      PROVE  Inv'
  <2>1. TypeOK' /\ InPhase' /\ Judged'
    BY <1>1, <1>2, <1>3, <1>5 DEF TypeOK, InPhase, Judged, Running, VUs
  <2>2. SentSoFar'
    BY <1>1, <1>2, <1>5 DEF SentSoFar, Running
  <2>3. Recorded(responses)' /\ Asked(sc, responses)'
    BY <1>1, <1>2, <1>5
  <2>4. QED
    BY <2>1, <2>2, <2>3 DEF Inv
<1>6. QED
  BY <1>4, <1>5 DEF Teardown, Lifecycle

\* Lemma: a request of an iteration.
LEMMA VURequestInv ==
  ASSUME Inv, NEW v \in VUs, VURequest(v)
  PROVE  Inv'
<1> DEFINE req == RequestAt(sc, vu[v] + 1)
           len == IterationLength(sc)
<1>1. /\ TypeOK /\ Recorded(responses) /\ Asked(sc, responses) /\ InPhase
      /\ SentSoFar
  BY DEF Inv
<1>2. /\ phase = "traffic"
      /\ left' = IF vu[v] = 0 THEN left - 1 ELSE left
      /\ runRequest(req, "requests")
      /\ vu' = [vu EXCEPT ![v] =
           IF Throws(req) \/ vu[v] + 1 = len THEN 0 ELSE vu[v] + 1]
      /\ UNCHANGED <<phase, hook, cut, sc, probe, exported, verdict>>
  BY DEF VURequest, RunUnchanged
<1>3. /\ phase = "traffic"
      /\ sc \in Scenarios /\ len \in Nat \ {0} /\ left \in Nat /\ left' \in Nat
      /\ vu[v] \in Nat /\ vu[v] < len /\ vu \in [VUs -> 0 .. len - 1]
  <2>1. sc \in Scenarios /\ left \in Nat /\ vu \in [VUs -> 0 .. len - 1]
    BY <1>1 DEF TypeOK
  <2>2. len \in Nat \ {0}
    BY <2>1, IterationFacts
  <2>3. phase = "traffic" /\ (vu[v] > 0 \/ left > 0)
    BY DEF VURequest
  <2>4. vu[v] \in Nat /\ vu[v] < len
    BY <2>1, <2>2
  <2>5. left' \in Nat
    BY <1>2, <2>1, <2>3, <2>4
  <2>6. QED
    BY <2>1, <2>2, <2>3, <2>4, <2>5
<1>4. /\ req \in Request
      /\ \E i \in DOMAIN sc.requests : req = sc.requests[i]
  <2>1. vu[v] + 1 \in 1 .. IterationLength(sc)
    BY <1>3
  <2>2. QED
    BY <1>3, <2>1, IterationFacts
<1> HIDE DEF req, len
<1>5. /\ Recorded(responses)'
      /\ \A other, x :
           /\ Sent(responses, other, x) \in Nat
           /\ Sent(responses, other, x)'
                = Sent(responses, other, x)
                    + (IF "requests" = other /\ req.name = x THEN 1 ELSE 0)
      /\ \A c \in responses' :
           c \in responses \/ /\ c[1].section = "requests"
                              /\ c[1].name = req.name
                              /\ c[1].expect = req.expect
  <2>1. "requests" \in Sections
    BY DEF Sections
  <2>2. QED
    BY <1>1, <1>2, <1>4, <2>1, RunRequestAdds
<1>6. Asked(sc, responses)'
  <2>1. \E i \in DOMAIN Section(sc, "requests") :
          Section(sc, "requests")[i] = req
    BY <1>4 DEF Section
  <2>2. QED
    BY <1>1, <1>2, <1>5, <2>1, AskedNext
<1>7. thrown' = (thrown \/ Throws(req)) /\ thrown \in BOOLEAN
  BY <1>1, <1>2 DEF runRequest, TypeOK
<1>8. TypeOK'
  <2>1. thrown' \in BOOLEAN
    BY <1>7, Zenon
  <2>2. vu' \in [VUs -> 0 .. len - 1]
    BY <1>2, <1>3
  <2>3. QED
    BY <1>1, <1>2, <1>3, <2>1, <2>2 DEF TypeOK, VUs, len
<1>9. InPhase' /\ Judged'
  <2>1. phase' = "traffic" /\ hook' = hook /\ exported' = exported
    BY <1>2, <1>3
  <2>2. hook = 0 /\ ~exported
    BY <1>1, <1>3 DEF InPhase, Running
  <2>3. QED
    BY <2>1, <2>2 DEF InPhase, Judged, Running
<1>10. SentSoFar'
  <2> SUFFICES ASSUME ~thrown', ~cut', NEW x \in Names
               PROVE  /\ Sent(responses, "setup", x)'
                           = UpTo(Named(sc.setup, x), Len(sc.setup))
                      /\ Sent(responses, "requests", x)'
                           = (k6Iterations(sc) - left' - Cardinality(Busy(vu')))
                                 * UpTo(Slots(sc, x), IterationLength(sc))
                               + Cardinality(Underway(vu', Slots(sc, x)))
                      /\ Sent(responses, "teardown", x)'
                           = UpTo(Named(sc.teardown, x), 0)
    BY <1>2, <1>3 DEF SentSoFar
  <2>1. ~thrown /\ ~cut /\ ~Throws(req)
    <3>1. ~thrown /\ ~Throws(req)
      BY <1>7, Zenon
    <3>2. QED
      BY <1>2, <3>1
  <2>2. /\ Sent(responses, "setup", x) = UpTo(Named(sc.setup, x), Len(sc.setup))
        /\ Sent(responses, "requests", x)
             = (k6Iterations(sc) - left - Cardinality(Busy(vu)))
                   * UpTo(Slots(sc, x), IterationLength(sc))
                 + Cardinality(Underway(vu, Slots(sc, x)))
        /\ Sent(responses, "teardown", x) = UpTo(Named(sc.teardown, x), 0)
    BY <1>1, <1>3, <2>1 DEF SentSoFar, Running
  <2>3. /\ Sent(responses, "setup", x)' = Sent(responses, "setup", x)
        /\ Sent(responses, "teardown", x)' = Sent(responses, "teardown", x)
        /\ Sent(responses, "requests", x)'
             = Sent(responses, "requests", x) + (IF req.name = x THEN 1 ELSE 0)
    BY <1>5
  <2> DEFINE S == Slots(sc, x)
  <2>4. Elsewhere(VUs, vu, vu', v, S)
    <3>1. IsFiniteSet(VUs)
      <4>1. 1 \in Int /\ sc.concurrency \in Int
        BY <1>3, ScenarioFacts
      <4>2. QED
        BY <4>1, FS_Interval DEF VUs
    <3>2. S \subseteq 1 .. len
      BY DEF Slots, len
    <3>3. IsFiniteSet(S)
      <4>1. 1 \in Int /\ len \in Int
        BY <1>3
      <4>2. IsFiniteSet(1 .. len)
        BY <4>1, FS_Interval
      <4>3. QED
        BY <3>2, <4>2, FS_Subset
    <3>4. S \subseteq Nat \ {0}
      BY <1>3, <3>2
    <3>5. vu \in [VUs -> Nat] /\ vu' \in [VUs -> Nat]
      BY <1>2, <1>3
    <3>6. \A w \in VUs \ {v} : vu'[w] = vu[w]
      BY <1>2, <1>3
    <3> HIDE DEF S
    <3>7. QED
      BY <3>1, <3>3, <3>4, <3>5, <3>6 DEF Elsewhere
  <2>5. vu[v] + 1 \in S <=> req.name = x
    BY <1>3 DEF Slots, req, len
  <2>6. vu'[v] = IF vu[v] + 1 = len THEN 0 ELSE vu[v] + 1
    BY <1>2, <1>3, <2>1
  <2>7. /\ k6Iterations(sc) \in Nat /\ left \in Nat
        /\ len \in Nat /\ vu[v] < len
        /\ left' = IF vu[v] = 0 THEN left - 1 ELSE left
    BY <1>2, <1>3, IterationFacts
  <2> HIDE DEF S
  <2>8. (k6Iterations(sc) - left' - Cardinality(Busy(vu'))) * UpTo(S, len)
            + Cardinality(Underway(vu', S))
          = (k6Iterations(sc) - left - Cardinality(Busy(vu))) * UpTo(S, len)
              + Cardinality(Underway(vu, S))
              + (IF vu[v] + 1 \in S THEN 1 ELSE 0)
    BY <2>4, <2>6, <2>7, OneMore
  <2>9. QED
    BY <2>2, <2>3, <2>5, <2>8 DEF S, len
<1>11. QED
  BY <1>5, <1>6, <1>8, <1>9, <1>10 DEF Inv

\* Lemma: maxDuration, and the end of the traffic.
LEMMA TrafficInv ==
  Inv /\ (MaxDuration \/ TrafficEnds) => Inv'
<1> SUFFICES ASSUME Inv, MaxDuration \/ TrafficEnds
             PROVE  Inv'
  OBVIOUS
<1>1. /\ TypeOK /\ Recorded(responses) /\ Asked(sc, responses) /\ InPhase
      /\ SentSoFar /\ phase = "traffic"
      /\ UNCHANGED <<hook, responses, thrown, sc, probe, exported, verdict>>
  BY DEF Inv, MaxDuration, TrafficEnds, RunUnchanged
<1>2. Recorded(responses)' /\ Asked(sc, responses)'
  BY <1>1
<1>3. hook = 0 /\ ~exported
  BY <1>1 DEF InPhase, Running
<1>4. CASE MaxDuration
  <2>1. PICK slow \in SUBSET VUs :
          vu' = [w \in VUs |-> IF w \in slow THEN 0 ELSE vu[w]]
    BY <1>4 DEF MaxDuration
  <2>2. IterationLength(sc) \in Nat \ {0}
    BY <1>1, IterationFacts DEF TypeOK
  <2>3. vu' \in [VUs -> 0 .. IterationLength(sc) - 1]
    BY <1>1, <2>1, <2>2 DEF TypeOK
  <2>4. TypeOK'
    BY <1>1, <1>4, <2>3 DEF TypeOK, MaxDuration, VUs
  <2>5. InPhase' /\ SentSoFar' /\ Judged'
    BY <1>1, <1>3, <1>4 DEF InPhase, SentSoFar, Judged, MaxDuration, Running
  <2>6. QED
    BY <1>2, <2>4, <2>5 DEF Inv
<1>5. CASE TrafficEnds
  <2>1. /\ left = 0 /\ \A v \in VUs : vu[v] = 0
        /\ phase' = "teardown" /\ UNCHANGED <<left, vu, cut>>
    BY <1>5 DEF TrafficEnds
  <2>2. vu = [v \in VUs |-> 0]
    BY <1>1, <2>1 DEF TypeOK
  <2>3. TypeOK'
    BY <1>1, <2>1 DEF TypeOK, VUs, Running
  <2>4. Len(sc.teardown) \in Nat
    BY <1>1, ScenarioFacts DEF TypeOK
  <2>5. InPhase' /\ Judged'
    BY <1>1, <1>3, <2>1, <2>2, <2>4 DEF InPhase, Judged, Running, VUs
  <2>6. SentSoFar'
    BY <1>1, <1>3, <2>1 DEF SentSoFar, Running
  <2>7. QED
    BY <1>2, <2>3, <2>5, <2>6 DEF Inv
<1>6. QED
  BY <1>4, <1>5

\* Lemma: the end of the process.
LEMMA ExitInv ==
  Inv /\ (Exit \/ Killed) => Inv'
<1> SUFFICES ASSUME Inv, Exit \/ Killed
             PROVE  Inv'
  OBVIOUS
<1>1. /\ TypeOK /\ Recorded(responses) /\ Asked(sc, responses) /\ InPhase
      /\ SentSoFar
      /\ phase' = "import" /\ phase \in Running
      /\ exported' \in BOOLEAN /\ (Killed => exported' = exported)
      /\ UNCHANGED <<sc, probe, hook, left, vu, responses, thrown, cut,
                     verdict>>
  BY DEF Inv, Exit, Killed, Running, TypeOK
<1>2. Recorded(responses)' /\ Asked(sc, responses)'
  BY <1>1
<1>3. TypeOK' /\ Judged'
  BY <1>1 DEF TypeOK, Judged, VUs
<1>4. exported' => phase = "exit"
  BY <1>1 DEF InPhase, Exit, Killed
<1>5. InPhase'
  BY <1>1, <1>4 DEF InPhase, Running, VUs
<1>6. SentSoFar'
  BY <1>1, <1>4 DEF SentSoFar, Running
<1>7. QED
  BY <1>2, <1>3, <1>5, <1>6 DEF Inv

\* Lemma: the verdict is the one that the counters give.
LEMMA ImportInv ==
  Inv /\ Import => Inv'
<1> SUFFICES ASSUME Inv, Import
             PROVE  Inv'
  OBVIOUS
<1>1. /\ TypeOK /\ Recorded(responses) /\ Asked(sc, responses) /\ InPhase
      /\ SentSoFar
      /\ phase = "import" /\ phase' = "returned"
      /\ UNCHANGED <<sc, probe, hook, left, vu, responses, thrown, cut,
                     exported>>
  BY DEF Inv, Import
<1>2. TypeOK' /\ Recorded(responses)' /\ Asked(sc, responses)'
  BY <1>1 DEF TypeOK, VUs
<1>3. InPhase'
  BY <1>1 DEF InPhase, Running, VUs
<1>4. SentSoFar'
  BY <1>1 DEF SentSoFar, Running
<1>5. Judged'
  <2> SUFFICES ASSUME exported
               PROVE  verdict' = VerdictOf(sc, probe, responses, avgDuration)
    BY <1>1 DEF Judged
  <2>1. reconstructRecords = Reconstructed(sc, responses, avgDuration)
    <3>1. UNION {{k} \X (1 .. CountOf(k[1], k[2])) : k \in k6Thresholds(sc)}
            = Entries(sc, responses)
      <4>1. \A k \in k6Thresholds(sc) :
              CountOf(k[1], k[2]) = Counters(sc, responses)[k]
        BY DEF CountOf, Counters
      <4>2. QED
        BY <4>1 DEF Entries
    <3>2. QED
      BY <3>1 DEF reconstructRecords, Reconstructed
  <2>2. parseThresholds(sc)
          = RatesOf(sc, responses) \cup LatenciesOf(sc, responses)
    BY DEF parseThresholds, RatesOf, LatenciesOf, Samples
  <2>3. verdict' = Build(reconstructRecords, parseThresholds(sc),
                         evaluateInvariants(sc, reconstructRecords, probe))
    BY DEF Import
  <2>4. QED
    BY <2>1, <2>2, <2>3 DEF VerdictOf
<1>6. QED
  BY <1>2, <1>3, <1>4, <1>5 DEF Inv

\* Lemma: nothing that is not a step changes the invariant.
LEMMA StutterInv ==
  Inv /\ UNCHANGED vars => Inv'
BY DEF Inv, TypeOK, VUs, InPhase, SentSoFar, Judged, vars

\* Lemma: the invariant is one.
LEMMA K6Invariant ==
  Spec => []Inv
<1>1. Inv /\ [Next]_vars => Inv'
  <2> SUFFICES ASSUME Inv, [Next]_vars
               PROVE  Inv'
    OBVIOUS
  <2>1. CASE \E v \in VUs : VURequest(v)
    BY <2>1, VURequestInv
  <2>2. CASE Returned
    BY <2>2, StutterInv DEF Returned
  <2>3. QED
    BY <2>1, <2>2, SetupInv, TeardownInv, TrafficInv, ExitInv, ImportInv,
       StutterInv DEF Next
<1>2. QED
  BY <1>1, InitInv, PTL DEF Spec

-----------------------------------------------------------------------------
(* Theorems                                                                *)

\* Lemma: the hooks that are counted, all of them.
LEMMA AllHooks ==
  ASSUME NEW requests \in Seq(Request), NEW x
  PROVE  UpTo(Named(requests, x), Len(requests))
           = Cardinality(Named(requests, x))
<1>1. (1 .. Len(requests)) \cap Named(requests, x) = Named(requests, x)
  BY DEF Named
<1>2. QED
  BY <1>1 DEF UpTo

\* Lemma: the plan follows from what was sent, once nothing is underway.
LEMMA InvSendsPlan ==
  Inv => K6SendsPlan
<1> SUFFICES ASSUME Inv, Imported, ~thrown, NEW x \in Names
             PROVE  /\ SentOf("requests", x)
                         = GoSends * Cardinality(Named(sc.requests, x))
                    /\ SentOf("setup", x) = Cardinality(Named(sc.setup, x))
                    /\ SentOf("teardown", x)
                         = Cardinality(Named(sc.teardown, x))
  BY DEF K6SendsPlan
<1>1. /\ sc \in Scenarios /\ phase = "returned" /\ exported /\ ~cut
      /\ left = 0 /\ vu = [v \in VUs |-> 0]
  BY DEF Inv, TypeOK, InPhase, Imported
<1>2. /\ Sent(responses, "setup", x) = UpTo(Named(sc.setup, x), Len(sc.setup))
      /\ Sent(responses, "requests", x)
           = (k6Iterations(sc) - left - Cardinality(Busy(vu)))
                 * UpTo(Slots(sc, x), IterationLength(sc))
               + Cardinality(Underway(vu, Slots(sc, x)))
      /\ Sent(responses, "teardown", x)
           = UpTo(Named(sc.teardown, x), Len(sc.teardown))
  BY <1>1 DEF Inv, SentSoFar
<1>3. \A section : SentOf(section, x) = Sent(responses, section, x)
  BY DEF SentOf, Sent
<1>4. Cardinality(Busy(vu)) = 0 /\ Cardinality(Underway(vu, Slots(sc, x))) = 0
  <2>1. Busy(vu) = {} /\ Underway(vu, Slots(sc, x)) = {}
    BY <1>1 DEF Busy, Underway, Slots
  <2>2. QED
    BY <2>1, FS_EmptySet
<1> DEFINE n == Cardinality(Named(sc.requests, x))
<1>5. UpTo(Slots(sc, x), IterationLength(sc)) = Passes(sc) * n
  BY <1>1, SlotsSize
<1>6. n \in Nat
  <2>1. /\ 1 \in Int
        /\ Len(sc.requests) \in Int
        /\ DOMAIN sc.requests = 1 .. Len(sc.requests)
    BY <1>1, ScenarioFacts
  <2>2. IsFiniteSet(DOMAIN sc.requests)
    BY <2>1, FS_Interval
  <2>3. Named(sc.requests, x) \in SUBSET DOMAIN sc.requests
    BY DEF Named
  <2>4. QED
    BY <2>2, <2>3, FS_Subset, FS_CardinalityType
<1> HIDE DEF n
<1>7. k6Iterations(sc) * (Passes(sc) * n) = GoSends * n
  <2>1. /\ sc.concurrency \in Nat /\ sc.iterations \in Nat
        /\ sc.attempts \in Nat
    BY <1>1, ScenarioFacts
  <2>2. CASE sc.type = "race"
    BY <1>6, <2>1, <2>2 DEF k6Iterations, Passes, GoSends
  <2>3. CASE sc.type = "retry_storm"
    <3>1. k6Iterations(sc) = sc.iterations /\ Passes(sc) = sc.attempts
          /\ GoSends = sc.attempts * sc.iterations
      BY <2>3 DEF k6Iterations, Passes, GoSends
    <3>2. \A a, b, c \in Nat : a * (b * c) = (b * a) * c
      OBVIOUS
    <3>3. QED
      BY <1>6, <2>1, <3>1, <3>2
  <2>4. CASE sc.type \notin {"race", "retry_storm"}
    <3>1. k6Iterations(sc) = sc.iterations /\ Passes(sc) = 1
          /\ GoSends = sc.iterations
      BY <2>4 DEF k6Iterations, Passes, GoSends
    <3>2. QED
      BY <1>6, <2>1, <3>1
  <2>5. QED
    BY <2>2, <2>3, <2>4
<1>8. Sent(responses, "requests", x) = k6Iterations(sc) * (Passes(sc) * n)
  <2>1. k6Iterations(sc) \in Nat /\ Passes(sc) \in Nat
    BY <1>1, IterationFacts
  <2>2. Passes(sc) * n \in Nat
    BY <1>6, <2>1
  <2>3. \A a, b \in Nat : (a - 0 - 0) * b + 0 = a * b
    OBVIOUS
  <2>4. QED
    BY <1>1, <1>2, <1>4, <1>5, <2>1, <2>2, <2>3
<1>9. QED
  BY <1>1, <1>2, <1>3, <1>7, <1>8, AllHooks, ScenarioFacts DEF n

\* Theorem: a script that runs to its end has sent every request as often as
\* the Go engine would have, however its VUs shared the iterations
\* (compiler.go: k6Iterations and writeDefault; runner.go: runRace,
\* runParallel).
THEOREM SendsPlan ==
  Spec => []K6SendsPlan
BY K6Invariant, InvSendsPlan, PTL

\* Theorem: a percentile that is within a limit has more records within it than
\* p % of the last index, one that is beyond it has fewer than one more than
\* that, at every number of records and all durations, and the report's
\* percentiles are in order (report.go: percentile, Summarize).
THEOREM PercentilesRank ==
  Spec => []RankGuaranteed
<1>1. Inv => RankGuaranteed
  <2> SUFFICES ASSUME Inv, DOMAIN GoRecords # {}
               PROVE  RankGuaranteed
    BY DEF RankGuaranteed
  <2>1. Timed(GoRecords)
    <3> DEFINE D == {d \in responses : d[1].section = "requests"}
    <3>1. IsFiniteSet(D) /\ responses \subseteq Response \X Nat
      BY FS_Subset DEF Inv, Recorded
    <3>2. DOMAIN GoRecords = D /\ \A c \in D : GoRecords[c].ms = c[1].ms
      BY DEF GoRecords
    <3>3. \A c \in D : c[1].ms \in Nat
      BY <3>1, K6Assumption DEF Response
    <3>4. QED
      BY <3>1, <3>2, <3>3 DEF Timed
  <2>2. QED
    BY <2>1, Ranks DEF RankGuaranteed
<1>2. QED
  BY <1>1, K6Invariant, PTL

-----------------------------------------------------------------------------
(* The two engines (runner.go and k6_runner.go) on the same responses      *)

\* Comparable, of any scenario.
Comparables(s) ==
  /\ \A q \in AllRequests(s) :
       q.expect # {} /\ \A status \in q.expect : status \in 1 .. 499
  /\ s.setup \o s.teardown # <<>> =>
       /\ s.p95 = None
       /\ \A inv \in s.invariants : inv.type = "http_probe"

\* GoRecords and GoVerdict, of any responses.
Traffic(R) == {d \in R : d[1].section = "requests"}

GoRecordsOf(R) ==
  [c \in Traffic(R) |->
     [name |-> c[1].name, status |-> c[1].status, ms |-> c[1].ms,
      error |-> ErrorOf(c[1])]]

HookFailedIn(R) == \E c \in R : c[1].section # "requests" /\ ErrorOf(c[1])

GoVerdictOf(s, p, R) ==
  Build(GoRecordsOf(R),
        evaluateThresholds(s, GoRecordsOf(R)) \cup {~HookFailedIn(R)},
        evaluateInvariants(s, GoRecordsOf(R), p))

\* Responses that a script of a comparable scenario may have got.
Answers(s, R) ==
  s \in Scenarios /\ Recorded(R) /\ Asked(s, R) /\ Comparables(s)

\* Lemma: what is known of one answer.  Both engines find it wrong or neither,
\* and its name and status are counted unless the status is a rare one.
LEMMA AnswerFacts ==
  ASSUME NEW s, NEW R, Answers(s, R), NEW c \in R
  PROVE  /\ c[1] \in Response
         /\ ErrorOf(c[1]) <=> ~Checked(c[1])
         /\ Checked(c[1]) => /\ c[1].status \in 1 .. 499
                             /\ <<c[1].name, c[1].status>> \in k6Thresholds(s)
         /\ c[1].status \in {0, 500, 502, 503, 504} =>
              <<c[1].name, c[1].status>> \in k6Thresholds(s)
<1>1. c[1] \in Response
  BY DEF Answers, Recorded
<1>2. PICK q \in AllRequests(s) : q.name = c[1].name /\ q.expect = c[1].expect
  <2>1. PICK i \in DOMAIN Section(s, c[1].section) :
          /\ Section(s, c[1].section)[i].name = c[1].name
          /\ Section(s, c[1].section)[i].expect = c[1].expect
    BY DEF Answers, Asked
  <2>2. Section(s, c[1].section) \in {s.setup, s.requests, s.teardown}
    BY DEF Section
  <2>3. Section(s, c[1].section)[i] \in AllRequests(s)
    BY <2>1, <2>2 DEF AllRequests
  <2>4. QED
    BY <2>1, <2>3
<1>3. c[1].expect # {} /\ \A status \in c[1].expect : status \in 1 .. 499
  <2>1. q.expect # {} /\ \A status \in q.expect : status \in 1 .. 499
    BY DEF Answers, Comparables
  <2>2. QED
    BY <1>2, <2>1
<1>4. ASSUME NEW status \in statusCodesToTrack(q)
      PROVE  <<c[1].name, status>> \in k6Thresholds(s)
  <2>1. <<q.name, status>> \in {q.name} \X statusCodesToTrack(q)
    OBVIOUS
  <2>2. <<q.name, status>> \in k6Thresholds(s)
    BY <2>1 DEF k6Thresholds
  <2>3. QED
    BY <1>2, <2>2
<1>5. ErrorOf(c[1]) <=> ~Checked(c[1])
  <2>1. 0 \notin c[1].expect
    BY <1>3
  <2>2. c[1].expect # {}
    BY <1>3
  <2>3. ErrorOf(c[1]) <=>
          c[1].status = 0 \/ c[1].status \notin c[1].expect
    BY <2>2 DEF ErrorOf
  <2>4. c[1].status = 0 => c[1].status \notin c[1].expect
    BY <2>1, Zenon
  <2>5. QED
    BY <2>3, <2>4, Zenon DEF Checked
<1>6. Checked(c[1]) =>
        c[1].status \in 1 .. 499 /\ c[1].status \in statusCodesToTrack(q)
  BY <1>2, <1>3 DEF Checked, statusCodesToTrack
<1>7. c[1].status \in {0, 500, 502, 503, 504} =>
        c[1].status \in statusCodesToTrack(q)
  BY DEF statusCodesToTrack
<1>8. Checked(c[1]) => <<c[1].name, c[1].status>> \in k6Thresholds(s)
  BY <1>4, <1>6
<1>9. c[1].status \in {0, 500, 502, 503, 504} =>
        <<c[1].name, c[1].status>> \in k6Thresholds(s)
  BY <1>4, <1>7
<1>10. QED
  BY <1>1, <1>5, <1>6, <1>8, <1>9

\* Lemma: the counters count.
LEMMA CounterFacts ==
  ASSUME NEW s, NEW R, Answers(s, R), NEW k \in k6Thresholds(s)
  PROVE  /\ Counters(s, R)[k] \in Nat
         /\ Counters(s, R)[k] > 0 <=>
              \E c \in R : c[1].name = k[1] /\ c[1].status = k[2]
<1> DEFINE A == {c \in R : c[1].name = k[1] /\ c[1].status = k[2]}
<1>1. IsFiniteSet(A)
  BY FS_Subset DEF Answers, Recorded
<1>2. Counters(s, R)[k] = Cardinality(A)
  BY DEF Counters
<1>3. Cardinality(A) \in Nat /\ (Cardinality(A) = 0 <=> A = {})
  <2> HIDE DEF A
  <2>1. QED
    BY <1>1, FS_CardinalityType, FS_EmptySet
<1>4. A # {} <=> \E c \in R : c[1].name = k[1] /\ c[1].status = k[2]
  OBVIOUS
<1> HIDE DEF A
<1>5. QED
  BY <1>2, <1>3, <1>4

\* Lemma: there is a record of an entry of a counter and of nothing else.
LEMMA EntryFacts ==
  ASSUME NEW s, NEW R
  PROVE  /\ \A e \in Entries(s, R) :
              /\ e[1] \in k6Thresholds(s) /\ e[2] \in 1 .. Counters(s, R)[e[1]]
         /\ \A k \in k6Thresholds(s) : \A i \in 1 .. Counters(s, R)[k] :
              <<k, i>> \in Entries(s, R)
<1>1. ASSUME NEW e \in Entries(s, R)
      PROVE  e[1] \in k6Thresholds(s) /\ e[2] \in 1 .. Counters(s, R)[e[1]]
  <2>1. PICK k \in k6Thresholds(s) : e \in {k} \X (1 .. Counters(s, R)[k])
    BY DEF Entries
  <2>2. QED
    BY <2>1
<1>2. ASSUME NEW k \in k6Thresholds(s), NEW i \in 1 .. Counters(s, R)[k]
      PROVE  <<k, i>> \in Entries(s, R)
  <2>1. <<k, i>> \in {k} \X (1 .. Counters(s, R)[k])
    OBVIOUS
  <2>2. QED
    BY <2>1 DEF Entries
<1>3. QED
  BY <1>1, <1>2

\* Lemma: records with the same durations have the same percentiles.
LEMMA SamePercentile ==
  ASSUME NEW A, NEW B, DOMAIN A = DOMAIN B,
         \A i \in DOMAIN A : A[i].ms = B[i].ms, NEW p
  PROVE  percentile(A, p) = percentile(B, p)
<1>1. Total(A) = Total(B)
  BY DEF Total
<1>2. ASSUME NEW m
      PROVE  Within(A, m) = Within(B, m)
  <2>1. {i \in DOMAIN A : A[i].ms <= m} = {i \in DOMAIN B : B[i].ms <= m}
    OBVIOUS
  <2>2. QED
    BY <2>1 DEF Within
<1>3. ASSUME NEW n
      PROVE  SortedAt(A, n) = SortedAt(B, n)
  <2> DEFINE DA == {A[i].ms : i \in DOMAIN A}
             DB == {B[i].ms : i \in DOMAIN B}
  <2>1. DA = DB
    OBVIOUS
  <2>2. \A d : (Within(A, d - 1) <= n /\ n < Within(A, d))
                 <=> (Within(B, d - 1) <= n /\ n < Within(B, d))
    BY <1>2
  <2>3. SortedAt(A, n)
          = CHOOSE d \in DA : Within(A, d - 1) <= n /\ n < Within(A, d)
    BY DEF SortedAt
  <2>4. SortedAt(B, n)
          = CHOOSE d \in DB : Within(B, d - 1) <= n /\ n < Within(B, d)
    BY DEF SortedAt
  <2> HIDE DEF DA, DB
  <2>5. QED
    BY <1>2, <2>1, <2>3, <2>4
<1>4. QED
  BY <1>1, <1>3 DEF percentile

\* Lemma: Build fails exactly when a check does or a record has an error.
LEMMA BuildFacts ==
  ASSUME NEW records, NEW T, NEW I
  PROVE  /\ Build(records, T, I) \in {"passed", "failed"}
         /\ Build(records, T, I) = "failed" <=>
              \/ FALSE \in T \/ FALSE \in I
              \/ \E i \in DOMAIN records : records[i].error
BY DEF Build

\* Lemma: an unexpected answer fails the run in the Go engine; the k6 engine
\* passes it only as EnginesAgree says.
LEMMA OneUnexpected ==
  ASSUME NEW s, NEW R, Answers(s, R), NEW c \in R, ~Checked(c[1]),
         NEW p, NEW avg
  PROVE  /\ GoVerdictOf(s, p, R) = "failed"
         /\ \/ VerdictOf(s, p, R, avg) = "failed"
            \/ /\ VerdictOf(s, p, R, avg) = "passed" /\ s.maxErrorRate # 0
               /\ c[1].status \notin {0, 500, 502, 503, 504}
<1>1. ErrorOf(c[1])
  BY AnswerFacts
<1>2. GoVerdictOf(s, p, R) = "failed"
  <2>1. CASE c[1].section = "requests"
    <3>1. c \in DOMAIN GoRecordsOf(R) /\ GoRecordsOf(R)[c].error
      BY <1>1, <2>1 DEF GoRecordsOf, Traffic
    <3>2. QED
      BY <3>1, BuildFacts DEF GoVerdictOf
  <2>2. CASE c[1].section # "requests"
    <3>1. HookFailedIn(R)
      BY <1>1, <2>2 DEF HookFailedIn
    <3>2. FALSE \in {~HookFailedIn(R)}
      BY <3>1
    <3>3. QED
      BY <3>2, BuildFacts DEF GoVerdictOf
  <2>3. QED
    BY <2>1, <2>2
<1>3. ASSUME s.maxErrorRate = 0
      PROVE  VerdictOf(s, p, R, avg) = "failed"
  <2> DEFINE W == {d \in R : ~Checked(d[1])}
             n == Cardinality(W)
             t == Cardinality(R)
  <2>1. n \in Nat /\ n > 0 /\ t \in Nat
    <3>1. IsFiniteSet(R)
      BY DEF Answers, Recorded
    <3>2. IsFiniteSet(W) /\ c \in W
      BY <3>1, FS_Subset
    <3> HIDE DEF W
    <3>3. n # 0
      BY <3>2, FS_EmptySet
    <3>4. QED
      BY <3>1, <3>2, <3>3, FS_CardinalityType
  <2>2. 0 \in {s.maxErrorRate} \ {None}
    BY <1>3, K6Assumption
  <2>3. ErrorRateWithin(n, t, 0) \in RatesOf(s, R)
    BY <2>2 DEF RatesOf
  <2> HIDE DEF n, t
  <2>4. ErrorRateWithin(n, t, 0) = FALSE
    BY <2>1 DEF ErrorRateWithin
  <2>5. FALSE \in RatesOf(s, R) \cup LatenciesOf(s, R)
    BY <2>3, <2>4
  <2>6. QED
    BY <2>5, BuildFacts DEF VerdictOf
<1>4. ASSUME c[1].status \in {0, 500, 502, 503, 504}
      PROVE  VerdictOf(s, p, R, avg) = "failed"
  <2> DEFINE k == <<c[1].name, c[1].status>>
  <2>1. k \in k6Thresholds(s) /\ k[1] = c[1].name /\ k[2] = c[1].status
    BY <1>4, AnswerFacts
  <2> HIDE DEF k
  <2>2. Counters(s, R)[k] \in Nat /\ Counters(s, R)[k] > 0
    BY <2>1, CounterFacts
  <2>3. 1 \in 1 .. Counters(s, R)[k]
    BY <2>2
  <2>4. <<k, 1>> \in Entries(s, R)
    BY <2>1, <2>3, EntryFacts
  <2>5. /\ <<k, 1>> \in DOMAIN Reconstructed(s, R, avg)
        /\ Reconstructed(s, R, avg)[<<k, 1>>].error
    <3> DEFINE e == <<k, 1>>
    <3>1. e[1] = k /\ (k[2] = 0 \/ k[2] >= 500)
      BY <1>4, <2>1
    <3>2. e \in Entries(s, R)
      BY <2>4
    <3> HIDE DEF e
    <3>3. /\ e \in DOMAIN Reconstructed(s, R, avg)
          /\ Reconstructed(s, R, avg)[e].error
      BY <3>1, <3>2 DEF Reconstructed
    <3>4. QED
      BY <3>3 DEF e
  <2>6. QED
    BY <2>5, BuildFacts DEF VerdictOf
<1>5. VerdictOf(s, p, R, avg) \in {"passed", "failed"}
  BY BuildFacts DEF VerdictOf
<1>6. QED
  BY <1>2, <1>3, <1>4, <1>5

\* Lemma: without hooks every response is to traffic.
LEMMA NoHooks ==
  ASSUME NEW s, NEW R, Answers(s, R), s.setup \o s.teardown = <<>>
  PROVE  Traffic(R) = R
<1>1. s.setup = <<>> /\ s.teardown = <<>>
  BY ScenarioFacts DEF Answers
<1>2. ASSUME NEW c \in R
      PROVE  c[1].section = "requests"
  <2>1. c[1].section \in Sections
    BY DEF Answers, Recorded, Response
  <2>2. DOMAIN Section(s, c[1].section) # {}
    BY DEF Answers, Asked
  <2>3. QED
    BY <1>1, <2>1, <2>2 DEF Section, Sections
<1>3. QED
  BY <1>2 DEF Traffic

\* Lemma: with all answers as expected, no record has an error, and the error
\* rate is within any limit.
LEMMA NoErrors ==
  ASSUME NEW s, NEW R, Answers(s, R), \A c \in R : Checked(c[1]), NEW avg
  PROVE  /\ \A i \in DOMAIN GoRecordsOf(R) : ~GoRecordsOf(R)[i].error
         /\ \A i \in DOMAIN Reconstructed(s, R, avg) :
              ~Reconstructed(s, R, avg)[i].error
         /\ ~HookFailedIn(R)
         /\ FALSE \notin RatesOf(s, R)
         /\ \A rate \in {s.maxErrorRate} \ {None} :
              ErrorRateWithin(Summarize(GoRecordsOf(R)).failed,
                              Summarize(GoRecordsOf(R)).total, rate)
<1>1. \A c \in R : ~ErrorOf(c[1])
  BY AnswerFacts
<1>2. \A i \in DOMAIN GoRecordsOf(R) : ~GoRecordsOf(R)[i].error
  BY <1>1 DEF GoRecordsOf, Traffic
<1>3. ~HookFailedIn(R)
  BY <1>1 DEF HookFailedIn
<1>4. ASSUME NEW e \in Entries(s, R)
      PROVE  ~ (e[1][2] = 0 \/ e[1][2] >= 500)
  <2>1. e[1] \in k6Thresholds(s) /\ e[2] \in 1 .. Counters(s, R)[e[1]]
    BY EntryFacts
  <2>2. Counters(s, R)[e[1]] \in Nat
    BY <2>1, CounterFacts
  <2>3. Counters(s, R)[e[1]] > 0
    BY <2>1, <2>2
  <2>4. PICK c \in R : c[1].name = e[1][1] /\ c[1].status = e[1][2]
    BY <2>1, <2>3, CounterFacts
  <2>5. c[1].status \in 1 .. 499
    <3>1. Checked(c[1])
      OBVIOUS
    <3>2. QED
      BY <3>1, AnswerFacts
  <2>6. e[1][2] \in 1 .. 499
    BY <2>4, <2>5, Zenon
  <2>7. \A n \in 1 .. 499 : ~ (n = 0 \/ n >= 500)
    OBVIOUS
  <2>8. QED
    BY <2>6, <2>7, Zenon
<1>5. \A i \in DOMAIN Reconstructed(s, R, avg) :
        ~Reconstructed(s, R, avg)[i].error
  BY <1>4 DEF Reconstructed
<1>6. IsFiniteSet(R) /\ s \in Scenarios
  BY DEF Answers, Recorded
<1>7. \A rate \in {s.maxErrorRate} \ {None} : rate \in Nat
  BY <1>6, ScenarioFacts
<1>8. FALSE \notin RatesOf(s, R)
  <2>1. {c \in R : ~Checked(c[1])} = {}
    OBVIOUS
  <2>2. Cardinality({c \in R : ~Checked(c[1])}) = 0 /\ Cardinality(R) \in Nat
    BY <1>6, <2>1, FS_EmptySet, FS_CardinalityType
  <2>3. \A rate \in {s.maxErrorRate} \ {None} :
          ErrorRateWithin(Cardinality({c \in R : ~Checked(c[1])}),
                          Cardinality(R), rate)
    <3>1. \A rate, n \in Nat : 100 * 0 <= rate * n
      OBVIOUS
    <3>2. QED
      BY <1>7, <2>2, <3>1 DEF ErrorRateWithin
  <2>4. QED
    BY <2>3 DEF RatesOf
<1>9. ASSUME NEW rate \in {s.maxErrorRate} \ {None}
      PROVE  ErrorRateWithin(Summarize(GoRecordsOf(R)).failed,
                             Summarize(GoRecordsOf(R)).total, rate)
  <2>1. {i \in DOMAIN GoRecordsOf(R) : GoRecordsOf(R)[i].error} = {}
    BY <1>2
  <2>2. Summarize(GoRecordsOf(R)).failed = 0
    BY <2>1, FS_EmptySet DEF Summarize
  <2>3. DOMAIN GoRecordsOf(R) \in SUBSET R
    BY DEF GoRecordsOf, Traffic
  <2>4. IsFiniteSet(DOMAIN GoRecordsOf(R))
    BY <1>6, <2>3, FS_Subset
  <2>5. Summarize(GoRecordsOf(R)).total \in Nat
    BY <2>4, FS_CardinalityType DEF Summarize, Total
  <2>6. \A a, n \in Nat : 100 * 0 <= a * n
    OBVIOUS
  <2>7. QED
    BY <1>7, <2>2, <2>5, <2>6 DEF ErrorRateWithin
<1>10. QED
  BY <1>2, <1>3, <1>5, <1>8, <1>9

\* Lemma: the engines agree on the latency threshold.
LEMMA SameLatency ==
  ASSUME NEW s, NEW R, Answers(s, R), NEW ms \in {s.p95} \ {None}
  PROVE  (R = {} \/ percentile([c \in R |-> c[1]], 95) <= 100 * ms)
           <=> Summarize(GoRecordsOf(R)).p95 <= 100 * ms
<1>1. s.setup \o s.teardown = <<>>
  BY DEF Answers, Comparables
<1>2. Traffic(R) = R
  BY <1>1, NoHooks
<1> DEFINE samples == [c \in R |-> c[1]]
<1>3. /\ DOMAIN GoRecordsOf(R) = DOMAIN samples
      /\ \A i \in DOMAIN GoRecordsOf(R) : GoRecordsOf(R)[i].ms = samples[i].ms
  BY <1>2 DEF GoRecordsOf
<1>4. percentile(GoRecordsOf(R), 95) = percentile(samples, 95)
  <2> HIDE DEF samples
  <2>1. QED
    BY <1>3, SamePercentile
<1>5. Summarize(GoRecordsOf(R)).p95 = percentile(samples, 95)
  BY <1>4 DEF Summarize
<1>6. ms \in Nat
  BY ScenarioFacts DEF Answers
<1>7. R = {} => percentile(samples, 95) = 0
  BY DEF percentile
<1> HIDE DEF samples
<1>8. QED
  BY <1>5, <1>6, <1>7 DEF samples

\* Lemma: with all answers as expected, the counters hold as many answers of a
\* name and a status as there were.
LEMMA SameCounts ==
  ASSUME NEW s, NEW R, Answers(s, R), \A c \in R : Checked(c[1]), NEW avg,
         Traffic(R) = R, NEW inv
  PROVE  evaluateResponseCount(inv, Reconstructed(s, R, avg))
           = evaluateResponseCount(inv, GoRecordsOf(R))
<1> DEFINE K == k6Thresholds(s)
           f == [c \in R |-> <<c[1].name, c[1].status>>]
           N == Counters(s, R)
           Q == {k \in K : /\ inv.request # None => k[1] = inv.request
                           /\ inv.status # None => k[2] = inv.status}
           A == Reconstructed(s, R, avg)
           B == GoRecordsOf(R)
           SA == {i \in DOMAIN A :
                    /\ inv.request # None => A[i].name = inv.request
                    /\ inv.status # None => A[i].status = inv.status}
           SB == {i \in DOMAIN B :
                    /\ inv.request # None => B[i].name = inv.request
                    /\ inv.status # None => B[i].status = inv.status}
<1>1. IsFiniteSet(R)
  BY DEF Answers, Recorded
<1>2. f \in [R -> K]
  BY AnswerFacts
<1>3. Q \in SUBSET K
  OBVIOUS
<1>4. N \in [K -> Nat]
  <2>1. \A k \in K : N[k] \in Nat
    BY CounterFacts
  <2>2. QED
    BY <2>1 DEF Counters
<1>5. ASSUME NEW k \in K
      PROVE  N[k] = Cardinality({c \in R : f[c] = k})
  <2>1. k = <<k[1], k[2]>>
    BY DEF k6Thresholds
  <2>2. {c \in R : f[c] = k}
          = {c \in R : c[1].name = k[1] /\ c[1].status = k[2]}
    BY <2>1
  <2>3. QED
    BY <2>2 DEF Counters
<1>6. SA = Listed(K, N, Q)
  <2>1. DOMAIN A = UNION {{k} \X (1 .. N[k]) : k \in K}
    BY DEF Reconstructed, Entries
  <2>2. ASSUME NEW e \in DOMAIN A
        PROVE  A[e].name = e[1][1] /\ A[e].status = e[1][2] /\ e[1] \in K
    <3>1. DOMAIN A = Entries(s, R)
      BY DEF Reconstructed
    <3>2. e[1] \in K
      BY <3>1, EntryFacts
    <3>3. QED
      BY <3>1, <3>2 DEF Reconstructed
  <2> HIDE DEF A, K
  <2>3. QED
    BY <2>1, <2>2 DEF Listed
<1>7. SB = Keyed(R, f, Q)
  <2>1. /\ DOMAIN B = R
        /\ \A c \in R : B[c].name = c[1].name /\ B[c].status = c[1].status
    BY DEF GoRecordsOf
  <2>2. \A c \in R : f[c] \in K /\ f[c] = <<c[1].name, c[1].status>>
    BY <1>2
  <2> HIDE DEF B, K, f
  <2>3. QED
    BY <2>1, <2>2 DEF Keyed
<1>8. Cardinality(SA) = Cardinality(SB)
  <2> HIDE DEF SA, SB, K, N, Q, f
  <2>1. Counts(R, K, f, N)
    BY <1>1, <1>2, <1>4, <1>5 DEF Counts
  <2>2. QED
    BY <1>3, <1>6, <1>7, <2>1, Regrouped
<1> HIDE DEF A, B, K, N, Q, f
<1>9. QED
  BY <1>8 DEF evaluateResponseCount, SA, SB, A, B

\* Lemma: with all answers as expected, the engines come to one verdict.
LEMMA AllExpected ==
  ASSUME NEW s, NEW R, Answers(s, R), \A c \in R : Checked(c[1]), NEW avg, NEW p
  PROVE  VerdictOf(s, p, R, avg) = GoVerdictOf(s, p, R)
<1> DEFINE A == Reconstructed(s, R, avg)
           B == GoRecordsOf(R)
<1>1. FALSE \in LatenciesOf(s, R) <=> FALSE \in evaluateThresholds(s, B)
  <2>1. FALSE \in evaluateThresholds(s, B) <=>
          \E ms \in {s.p95} \ {None} : ~ (Summarize(B).p95 <= 100 * ms)
    <3>1. FALSE \notin {ErrorRateWithin(Summarize(B).failed,
                                       Summarize(B).total, rate)
                          : rate \in {s.maxErrorRate} \ {None}}
      BY NoErrors
    <3> HIDE DEF B
    <3>2. FALSE \in {Summarize(B).p95 <= 100 * ms : ms \in {s.p95} \ {None}} <=>
            \E ms \in {s.p95} \ {None} : ~ (Summarize(B).p95 <= 100 * ms)
      <4> DEFINE within(ms) == Summarize(B).p95 <= 100 * ms
      <4>1. \A ms : within(ms) \in BOOLEAN
        OBVIOUS
      <4> HIDE DEF within
      <4>2. FALSE \in {within(ms) : ms \in {s.p95} \ {None}} <=>
              \E ms \in {s.p95} \ {None} : ~within(ms)
        <5> DEFINE S == {s.p95} \ {None}
        <5> HIDE DEF S
        <5>1. ASSUME FALSE \in {within(ms) : ms \in S}
              PROVE  \E ms \in S : ~within(ms)
          <6>1. PICK ms \in S : FALSE = within(ms)
            BY <5>1
          <6>2. QED
            BY <6>1
        <5>2. ASSUME NEW ms \in S, ~within(ms)
              PROVE  FALSE \in {within(m) : m \in S}
          <6>1. within(ms) = FALSE
            BY <4>1, <5>2
          <6>2. within(ms) \in {within(m) : m \in S}
            OBVIOUS
          <6>3. QED
            BY <6>1, <6>2
        <5>3. QED
          BY <5>1, <5>2 DEF S
      <4>3. QED
        BY <4>2 DEF within
    <3>3. QED
      BY <3>1, <3>2 DEF evaluateThresholds
  <2>2. FALSE \in LatenciesOf(s, R) <=>
          \E ms \in {s.p95} \ {None} :
            ~ (R = {} \/ percentile([c \in R |-> c[1]], 95) <= 100 * ms)
    BY DEF LatenciesOf
  <2>3. QED
    BY <2>1, <2>2, SameLatency
<1>2. evaluateInvariants(s, A, p) = evaluateInvariants(s, B, p)
  <2>1. ASSUME NEW inv \in s.invariants, inv.type # "http_probe"
        PROVE  evaluateResponseCount(inv, A) = evaluateResponseCount(inv, B)
    <3>1. Traffic(R) = R
      BY <2>1, NoHooks DEF Answers, Comparables
    <3>2. QED
      BY <3>1, SameCounts
  <2> HIDE DEF A, B
  <2>2. QED
    BY <2>1 DEF evaluateInvariants
<1>3. /\ \A i \in DOMAIN B : ~B[i].error
      /\ \A i \in DOMAIN A : ~A[i].error
      /\ ~HookFailedIn(R) /\ FALSE \notin RatesOf(s, R)
  BY NoErrors
<1>4. FALSE \notin {~HookFailedIn(R)}
  BY <1>3
<1> HIDE DEF A, B
<1>5. /\ VerdictOf(s, p, R, avg) \in {"passed", "failed"}
      /\ VerdictOf(s, p, R, avg) = "failed" <=>
           FALSE \in LatenciesOf(s, R) \/ FALSE \in evaluateInvariants(s, A, p)
  <2>1. VerdictOf(s, p, R, avg)
          = Build(A, RatesOf(s, R) \cup LatenciesOf(s, R),
                  evaluateInvariants(s, A, p))
    BY DEF VerdictOf, A
  <2> DEFINE T == RatesOf(s, R) \cup LatenciesOf(s, R)
  <2>2. FALSE \in T <=> FALSE \in LatenciesOf(s, R)
    BY <1>3
  <2> HIDE DEF T
  <2>3. VerdictOf(s, p, R, avg) = Build(A, T, evaluateInvariants(s, A, p))
    BY <2>1 DEF T
  <2>4. QED
    BY <1>3, <2>2, <2>3, BuildFacts
<1>6. /\ GoVerdictOf(s, p, R) \in {"passed", "failed"}
      /\ GoVerdictOf(s, p, R) = "failed" <=>
           \/ FALSE \in evaluateThresholds(s, B)
           \/ FALSE \in evaluateInvariants(s, B, p)
  <2>1. GoVerdictOf(s, p, R)
          = Build(B, evaluateThresholds(s, B) \cup {~HookFailedIn(R)},
                  evaluateInvariants(s, B, p))
    BY DEF GoVerdictOf, B
  <2> DEFINE T == evaluateThresholds(s, B) \cup {~HookFailedIn(R)}
  <2>2. FALSE \in T <=> FALSE \in evaluateThresholds(s, B)
    BY <1>4
  <2> HIDE DEF T
  <2>3. GoVerdictOf(s, p, R) = Build(B, T, evaluateInvariants(s, B, p))
    BY <2>1 DEF T
  <2>4. QED
    BY <1>3, <2>2, <2>3, BuildFacts
<1>7. FALSE \in evaluateInvariants(s, A, p)
        <=> FALSE \in evaluateInvariants(s, B, p)
  BY <1>2, Zenon
<1>8. VerdictOf(s, p, R, avg) = "failed" <=> GoVerdictOf(s, p, R) = "failed"
  BY <1>1, <1>5, <1>6, <1>7, Zenon
<1>9. QED
  BY <1>5, <1>6, <1>8

\* Theorem: on the same responses the k6 engine comes to the verdict of the Go
\* engine, but for the answers that only the Go engine finds wrong
\* (k6_runner.go: reconstructRecords, parseThresholds; runner.go:
\* evaluateThresholds, evaluateInvariants).
THEOREM VerdictsAgree ==
  Spec => []EnginesAgree
<1>1. Inv => EnginesAgree
  <2> SUFFICES ASSUME Inv, Imported, Comparable
               PROVE  EnginesAgree
    BY DEF EnginesAgree
  <2>1. Answers(sc, responses)
    BY DEF Inv, TypeOK, Answers, Comparable, Comparables
  <2>2. PICK avg : verdict = VerdictOf(sc, probe, responses, avg)
    BY DEF Inv, Judged, Imported
  <2>3. GoVerdict = GoVerdictOf(sc, probe, responses)
    <3>1. /\ GoRecords = GoRecordsOf(responses)
          /\ HookFailed = HookFailedIn(responses)
      BY DEF GoRecords, GoRecordsOf, Traffic, HookFailed, HookFailedIn
    <3>2. QED
      BY <3>1 DEF GoVerdict, GoVerdictOf
  <2>4. CASE \A c \in responses : Checked(c[1])
    BY <2>1, <2>2, <2>3, <2>4, AllExpected DEF EnginesAgree
  <2>5. CASE \E c \in responses : ~Checked(c[1])
    <3>1. PICK c \in responses : ~Checked(c[1])
      BY <2>5
    <3>2. QED
      BY <2>1, <2>2, <2>3, <3>1, OneUnexpected DEF EnginesAgree
  <2>6. QED
    BY <2>4, <2>5
<1>2. QED
  BY <1>1, K6Invariant, PTL
=============================================================================
