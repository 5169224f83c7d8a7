---------------------------- MODULE ConsolesProofs ----------------------------
(***************************************************************************)
(* What the two admin pages keep, for any number of edits, zones, points,  *)
(* requests, failures and repairs: the curve editor and the Control Center *)
(* page of t6-webd, its health page, and the panel's page (MCConsoles, one *)
(* page per scene).                                                        *)
(*                                                                         *)
(* Each page has its inductive invariant, kept by each of its steps:       *)
(* CurvesInv, with Known, what the page knows of the curves; DashInv,      *)
(* with NightOk; HealthOk; and WebInv.  ConsolesInv is that of the page    *)
(* at work.                                                                *)
(***************************************************************************)
EXTENDS MCConsoles, SequenceTheorems, FiniteSetTheorems, TLAPS

-----------------------------------------------------------------------------
\* The curves (CurveEditor).

\* What t6-webd accepts.
Rising == {c \in Seq(C!Temps) : Len(c) >= 2 /\ C!Ascending(c)}
Points == [Zones -> Rising]

LEMMA RisingFacts ==
  ASSUME NEW c \in Rising
  PROVE  /\ c \in Seq(C!Temps) /\ Len(c) \in Nat /\ Len(c) >= 2 /\ DOMAIN c = 1..Len(c)
         /\ \A i \in 1..Len(c) : c[i] \in C!Temps /\ c[i] \in Int
         /\ \A i, j \in 1..Len(c) : i < j => c[i] < c[j]
         /\ C!Ascending(c) /\ C!ToSet(c) \subseteq C!Temps
<1>1. c \in Seq(C!Temps) /\ Len(c) >= 2 /\ C!Ascending(c)
  BY DEF Rising
<1>2. DOMAIN c = 1..Len(c) /\ Len(c) \in Nat
  BY <1>1, LenProperties
<1>3. \A i \in 1..Len(c) : c[i] \in C!Temps
  BY <1>1, ElementOfSeq
<1>4. C!Temps \subseteq Int
  BY ConsolesParameters DEF C!Temps, C!CurveAssumption
<1>5. C!ToSet(c) \subseteq C!Temps
  BY <1>2, <1>3 DEF C!ToSet
<1> QED
  BY <1>1, <1>2, <1>3, <1>4, <1>5 DEF C!Ascending

LEMMA IsRising ==
  ASSUME NEW c \in Seq(C!Temps), Len(c) >= 2,
         \A i, j \in 1..Len(c) : i < j => c[i] < c[j]
  PROVE  c \in Rising
<1>1. DOMAIN c = 1..Len(c)
  BY LenProperties
<1> QED
  BY <1>1 DEF Rising, C!Ascending

LEMMA SmallestRises == C!SmallestCurve \in Rising
<1> DEFINE c == C!SmallestCurve
<1>1. MaxTemp \in Nat /\ MaxTemp > 0
  BY ConsolesParameters DEF C!CurveAssumption
<1>2. c \in Seq(C!Temps) /\ Len(c) = 2 /\ c[1] = 0 /\ c[2] = MaxTemp
  BY <1>1 DEF C!SmallestCurve, C!Temps
<1> HIDE DEF c
<1>3. \A i, j \in 1..2 : i < j => i = 1 /\ j = 2
  OBVIOUS
<1>4. \A i, j \in 1..Len(c) : i < j => c[i] < c[j]
  BY <1>1, <1>2, <1>3
<1>5. c \in Rising
  BY <1>2, <1>4, IsRising
<1> QED
  BY <1>5 DEF c

\* Where a new point belongs: behind those at lower temperatures.
LEMMA PlaceFacts ==
  ASSUME NEW c \in Rising, NEW t \in C!Temps \ C!ToSet(c),
         NEW k, k = Cardinality({j \in DOMAIN c : c[j] < t})
  PROVE  /\ k \in 0..Len(c)
         /\ \A j \in 1..Len(c) : (j <= k => c[j] < t) /\ (j > k => t < c[j])
<1> DEFINE n == Len(c)
           Below == {j \in DOMAIN c : c[j] < t}
<1>0. C!Temps \subseteq Int
  BY ConsolesParameters DEF C!Temps, C!CurveAssumption
<1>1. n \in Nat /\ DOMAIN c = 1..n /\ t \in Int
  BY <1>0, RisingFacts
<1>2. Below \subseteq 1..n /\ IsFiniteSet(1..n) /\ Cardinality(1..n) = n
  <2>1. Below \subseteq 1..n
    BY <1>1
  <2>2. \A m \in Nat : IsFiniteSet(1..m) /\ Cardinality(1..m) = m
    BY FS_Interval
  <2>3. IsFiniteSet(1..n) /\ Cardinality(1..n) = n
    BY <1>1, <2>2
  <2> QED
    BY <2>1, <2>3
<1>3. k \in Nat /\ k <= n
  BY <1>2, FS_Subset, FS_CardinalityType
<1>4. \A j \in 1..n : j \in Below <=> c[j] < t
  BY <1>1
<1>5. \A i, j \in 1..n : i < j => c[i] < c[j]
  BY RisingFacts
<1>6. \A j \in 1..n : c[j] \in Int /\ c[j] # t
  BY <1>1, RisingFacts DEF C!ToSet
<1>8. k = Cardinality(Below) /\ IsFiniteSet(Below)
  BY <1>2, FS_Subset
<1> HIDE DEF n, Below
<1>9. ASSUME NEW j \in 1..n, j <= k PROVE c[j] < t
  <2> SUFFICES ASSUME t < c[j] PROVE FALSE
    BY <1>1, <1>6
  <2>1. Below \subseteq 1..(j - 1)
    <3> SUFFICES ASSUME NEW i \in Below PROVE i \in 1..(j - 1)
      OBVIOUS
    <3>1. i \in 1..n /\ c[i] < t
      BY <1>2, <1>4
    <3>2. ~(j < i) /\ i # j
      BY <1>1, <1>5, <1>6, <3>1
    <3> QED
      BY <1>1, <3>1, <3>2
  <2>2. IsFiniteSet(1..(j - 1)) /\ Cardinality(1..(j - 1)) = j - 1
    BY <1>1, FS_Interval
  <2>3. Cardinality(Below) <= j - 1
    BY <2>1, <2>2, FS_Subset
  <2> QED
    BY <1>1, <1>3, <1>8, <1>9, <2>3
<1>10. ASSUME NEW j \in 1..n, j > k PROVE t < c[j]
  <2> SUFFICES ASSUME c[j] < t PROVE FALSE
    BY <1>1, <1>6
  <2>1. 1..j \subseteq Below
    <3> SUFFICES ASSUME NEW i \in 1..j PROVE i \in Below
      OBVIOUS
    <3>1. i \in 1..n /\ (i < j \/ i = j)
      BY <1>1
    <3>2. c[i] < t
      BY <1>1, <1>5, <1>6, <3>1
    <3> QED
      BY <1>4, <3>1, <3>2
  <2>2. IsFiniteSet(1..j) /\ Cardinality(1..j) = j
    BY <1>1, FS_Interval
  <2>3. j <= Cardinality(Below)
    BY <1>8, <2>1, <2>2, FS_Subset
  <2> QED
    BY <1>1, <1>3, <1>8, <1>10, <2>3
<1> QED
  BY <1>1, <1>3, <1>9, <1>10 DEF n

LEMMA BetweenRises ==
  ASSUME NEW c \in Rising, NEW t \in C!Temps, NEW i \in 1..(Len(c) + 1),
         \A j \in 1..Len(c) : (j < i => c[j] < t) /\ (j >= i => t < c[j])
  PROVE  C!InsertAt(c, i, t) \in Rising /\ i \in DOMAIN C!InsertAt(c, i, t)
<1> DEFINE n == Len(c)
<1>1. n \in Nat /\ n >= 2 /\ c \in Seq(C!Temps)
  BY RisingFacts
<1>2. \A j \in 1..n : (j < i => c[j] < t) /\ (j >= i => t < c[j])
  OBVIOUS
<1>4. i \in 1..(n + 1)
  OBVIOUS
<1> HIDE DEF n
<1> DEFINE a == SubSeq(c, 1, i - 1)
           b == SubSeq(c, i, n)
           d == (a \o <<t>>) \o b
<1>5. \A j \in 1..n : c[j] \in C!Temps /\ c[j] \in Int
  BY RisingFacts DEF n
<1>6. /\ a \in Seq(C!Temps) /\ Len(a) = i - 1 /\ \A j \in 1..(i - 1) : a[j] = c[j]
  <2>1. \A j \in 1..(i - 1) : c[j] \in C!Temps
    BY <1>1, <1>4, <1>5
  <2>2. 1 \in Int /\ i - 1 \in Int
    BY <1>4
  <2>3. /\ a \in Seq(C!Temps) /\ Len(a) = IF 1 <= i - 1 THEN i - 1 - 1 + 1 ELSE 0
        /\ \A j \in 1..(i - 1 - 1 + 1) : a[j] = c[1 + j - 1]
    BY <2>1, <2>2, SubSeqProperties
  <2> HIDE DEF a
  <2> QED
    BY <1>4, <2>3
<1>7. /\ b \in Seq(C!Temps) /\ Len(b) = n - i + 1 /\ \A j \in 1..(n - i + 1) : b[j] = c[i + j - 1]
  <2>1. \A j \in i..n : c[j] \in C!Temps
    BY <1>1, <1>4, <1>5
  <2>2. i \in Int /\ n \in Int
    BY <1>1, <1>4
  <2>3. /\ b \in Seq(C!Temps) /\ Len(b) = IF i <= n THEN n - i + 1 ELSE 0
        /\ \A j \in 1..(n - i + 1) : b[j] = c[i + j - 1]
    BY <2>1, <2>2, SubSeqProperties
  <2> HIDE DEF b
  <2> QED
    BY <1>1, <1>4, <2>3
<1> HIDE DEF a, b
<1>8. /\ a \o <<t>> \in Seq(C!Temps) /\ Len(a \o <<t>>) = i
      /\ \A j \in 1..i : (a \o <<t>>)[j] = IF j < i THEN c[j] ELSE t
  <2>1. <<t>> \in Seq(C!Temps) /\ Len(<<t>>) = 1 /\ <<t>>[1] = t
    OBVIOUS
  <2>2. /\ a \o <<t>> \in Seq(C!Temps) /\ Len(a \o <<t>>) = Len(a) + Len(<<t>>)
        /\ \A j \in 1..(Len(a) + Len(<<t>>)) :
             (a \o <<t>>)[j] = IF j <= Len(a) THEN a[j] ELSE <<t>>[j - Len(a)]
    BY <1>6, <2>1, ConcatProperties
  <2>3. Len(a \o <<t>>) = i
    BY <1>4, <1>6, <2>1, <2>2
  <2>4. ASSUME NEW j \in 1..i PROVE (a \o <<t>>)[j] = IF j < i THEN c[j] ELSE t
    <3>1. j \in 1..(Len(a) + Len(<<t>>)) /\ Len(a) = i - 1
      BY <1>4, <1>6, <2>1
    <3>2. CASE j < i
      <4>1. j <= Len(a) /\ a[j] = c[j]
        BY <1>4, <1>6, <3>2
      <4>2. (a \o <<t>>)[j] = a[j]
        BY <2>2, <3>1, <4>1
      <4> QED
        BY <3>2, <4>1, <4>2
    <3>3. CASE j = i
      <4>1. ~(j <= Len(a)) /\ j - Len(a) = 1 /\ ~(j < i)
        BY <1>4, <1>6, <3>3
      <4>2. (a \o <<t>>)[j] = <<t>>[j - Len(a)]
        BY <2>2, <3>1, <4>1
      <4> QED
        BY <2>1, <4>1, <4>2
    <3>4. j < i \/ j = i
      BY <1>1, <1>4
    <3> QED
      BY <3>2, <3>3, <3>4
  <2> QED
    BY <2>2, <2>3, <2>4
<1>9. /\ d \in Seq(C!Temps) /\ Len(d) = n + 1
      /\ \A j \in 1..(n + 1) : d[j] = IF j < i THEN c[j] ELSE IF j = i THEN t ELSE c[j - 1]
  <2> DEFINE e == a \o <<t>>
  <2>0. e \in Seq(C!Temps) /\ Len(e) = i /\ \A j \in 1..i : e[j] = IF j < i THEN c[j] ELSE t
    BY <1>8
  <2>2. d = e \o b
    OBVIOUS
  <2> HIDE DEF d, e
  <2>1. /\ e \o b \in Seq(C!Temps) /\ Len(e \o b) = Len(e) + Len(b)
        /\ \A j \in 1..(Len(e) + Len(b)) : (e \o b)[j] = IF j <= Len(e) THEN e[j] ELSE b[j - Len(e)]
    BY <1>7, <2>0, ConcatProperties
  <2>3. Len(d) = n + 1
    BY <1>1, <1>4, <1>7, <2>0, <2>1, <2>2
  <2>4. ASSUME NEW j \in 1..(n + 1)
        PROVE  d[j] = IF j < i THEN c[j] ELSE IF j = i THEN t ELSE c[j - 1]
    <3>1. d[j] = IF j <= i THEN e[j] ELSE b[j - i]
      BY <1>1, <1>4, <1>7, <2>0, <2>1, <2>2
    <3>2. CASE j <= i
      BY <1>4, <2>0, <3>1, <3>2
    <3>3. CASE j > i
      <4>1. j - i \in 1..(n - i + 1) /\ i + (j - i) - 1 = j - 1
        BY <1>1, <1>4, <3>3
      <4> QED
        BY <1>4, <1>7, <3>1, <3>3, <4>1
    <3> QED
      BY <1>4, <3>2, <3>3
  <2> QED
    BY <2>1, <2>2, <2>3, <2>4
<1>10. C!InsertAt(c, i, t) = d
  BY DEF C!InsertAt, a, b, n
<1> HIDE DEF d
<1>11. \A j1, j2 \in 1..Len(d) : j1 < j2 => d[j1] < d[j2]
  <2> SUFFICES ASSUME NEW j1 \in 1..(n + 1), NEW j2 \in 1..(n + 1), j1 < j2
               PROVE  d[j1] < d[j2]
    BY <1>9
  <2>0. /\ d[j1] = IF j1 < i THEN c[j1] ELSE IF j1 = i THEN t ELSE c[j1 - 1]
        /\ d[j2] = IF j2 < i THEN c[j2] ELSE IF j2 = i THEN t ELSE c[j2 - 1]
    BY <1>9
  <2>1. \A x, y \in 1..n : x < y => c[x] < c[y]
    BY RisingFacts DEF n
  <2>2. CASE j2 < i
    <3>1. j1 \in 1..n /\ j2 \in 1..n /\ j1 < i
      BY <1>1, <1>4, <2>2
    <3> QED
      BY <2>0, <2>1, <2>2, <3>1
  <2>3. CASE j2 = i
    <3>1. j1 \in 1..n /\ j1 < i /\ ~(j2 < i)
      BY <1>1, <1>4, <2>3
    <3> QED
      BY <1>2, <2>0, <2>3, <3>1
  <2>4. CASE j2 > i /\ j1 < i
    <3>1. j1 \in 1..n /\ j2 - 1 \in 1..n /\ j1 < j2 - 1 /\ ~(j2 < i) /\ j2 # i
      BY <1>1, <1>4, <2>4
    <3> QED
      BY <2>0, <2>1, <2>4, <3>1
  <2>5. CASE j2 > i /\ j1 = i
    <3>1. j2 - 1 \in 1..n /\ j2 - 1 >= i /\ ~(j2 < i) /\ j2 # i /\ ~(j1 < i)
      BY <1>1, <1>4, <2>5
    <3>2. d[j1] = t /\ d[j2] = c[j2 - 1]
      BY <2>0, <2>5, <3>1
    <3> QED
      BY <1>2, <3>1, <3>2
  <2>6. CASE j1 > i
    <3>1. /\ j1 - 1 \in 1..n /\ j2 - 1 \in 1..n /\ j1 - 1 < j2 - 1
          /\ ~(j1 < i) /\ j1 # i /\ ~(j2 < i) /\ j2 # i
      BY <1>1, <1>4, <2>6
    <3> QED
      BY <2>0, <2>1, <3>1
  <2> QED
    BY <1>4, <2>2, <2>3, <2>4, <2>5, <2>6
<1>12. d \in Rising
  BY <1>1, <1>9, <1>11, IsRising
<1> QED
  BY <1>4, <1>9, <1>10, <1>12, LenProperties

LEMMA InsertRises ==
  ASSUME NEW c \in Rising, NEW t \in C!Temps \ C!ToSet(c), NEW i,
         i = Cardinality({j \in DOMAIN c : c[j] < t}) + 1
  PROVE  C!InsertAt(c, i, t) \in Rising /\ i \in DOMAIN C!InsertAt(c, i, t)
<1> DEFINE n == Len(c)
           k == Cardinality({j \in DOMAIN c : c[j] < t})
<1>1. n \in Nat
  BY RisingFacts
<1>2. k \in 0..n /\ \A j \in 1..n : (j <= k => c[j] < t) /\ (j > k => t < c[j])
  BY PlaceFacts
<1>3. i = k + 1
  OBVIOUS
<1> HIDE DEF k
<1>4. i \in 1..(n + 1) /\ \A j \in 1..n : (j < i <=> j <= k) /\ (j >= i <=> j > k)
  <2>1. k \in 0..n
    BY <1>2
  <2> HIDE DEF n
  <2> QED
    BY <1>1, <1>3, <2>1
<1>5. \A j \in 1..Len(c) : (j < i => c[j] < t) /\ (j >= i => t < c[j])
  BY <1>2, <1>4
<1> QED
  BY <1>4, <1>5, BetweenRises

LEMMA RemoveRises ==
  ASSUME NEW c \in Rising, Len(c) > 2, NEW i \in DOMAIN c
  PROVE  C!RemoveAt(c, i) \in Rising
<1> DEFINE n == Len(c)
           a == SubSeq(c, 1, i - 1)
           b == SubSeq(c, i + 1, n)
           d == a \o b
<1>1. n \in Nat /\ n > 2 /\ i \in 1..n
  BY RisingFacts
<1>2. \A j \in 1..n : c[j] \in C!Temps
  BY RisingFacts
<1>3. \A x, y \in 1..n : x < y => c[x] < c[y]
  BY RisingFacts
<1> HIDE DEF n
<1>4. /\ a \in Seq(C!Temps) /\ Len(a) = i - 1 /\ \A j \in 1..(i - 1) : a[j] = c[j]
  <2>1. \A j \in 1..(i - 1) : c[j] \in C!Temps
    BY <1>1, <1>2
  <2>2. 1 \in Int /\ i - 1 \in Int
    BY <1>1
  <2>3. /\ a \in Seq(C!Temps) /\ Len(a) = IF 1 <= i - 1 THEN i - 1 - 1 + 1 ELSE 0
        /\ \A j \in 1..(i - 1 - 1 + 1) : a[j] = c[1 + j - 1]
    BY <2>1, <2>2, SubSeqProperties
  <2> HIDE DEF a
  <2> QED
    BY <1>1, <2>3
<1>5. /\ b \in Seq(C!Temps) /\ Len(b) = n - i /\ \A j \in 1..(n - i) : b[j] = c[i + j]
  <2>1. \A j \in (i + 1)..n : c[j] \in C!Temps
    BY <1>1, <1>2
  <2>2. i + 1 \in Int /\ n \in Int
    BY <1>1
  <2>3. /\ b \in Seq(C!Temps) /\ Len(b) = IF i + 1 <= n THEN n - (i + 1) + 1 ELSE 0
        /\ \A j \in 1..(n - (i + 1) + 1) : b[j] = c[i + 1 + j - 1]
    BY <2>1, <2>2, SubSeqProperties
  <2> HIDE DEF b
  <2> QED
    BY <1>1, <2>3
<1> HIDE DEF a, b
<1>6. /\ d \in Seq(C!Temps) /\ Len(d) = n - 1
      /\ \A j \in 1..(n - 1) : d[j] = IF j < i THEN c[j] ELSE c[j + 1]
  <2>1. /\ d \in Seq(C!Temps) /\ Len(d) = Len(a) + Len(b)
        /\ \A j \in 1..(Len(a) + Len(b)) : d[j] = IF j <= Len(a) THEN a[j] ELSE b[j - Len(a)]
    BY <1>4, <1>5, ConcatProperties
  <2> HIDE DEF d
  <2>2. Len(d) = n - 1
    BY <1>1, <1>4, <1>5, <2>1
  <2>3. ASSUME NEW j \in 1..(n - 1) PROVE d[j] = IF j < i THEN c[j] ELSE c[j + 1]
    <3>1. j \in 1..(Len(a) + Len(b))
      BY <1>1, <1>4, <1>5
    <3>2. CASE j < i
      <4>1. j <= Len(a) /\ a[j] = c[j]
        BY <1>1, <1>4, <3>2
      <4> QED
        BY <2>1, <3>1, <3>2, <4>1
    <3>3. CASE j >= i
      <4>1. ~(j <= Len(a)) /\ j - Len(a) \in 1..(n - i) /\ i + (j - Len(a)) = j + 1 /\ ~(j < i)
        BY <1>1, <1>4, <3>3
      <4>2. d[j] = b[j - Len(a)]
        BY <2>1, <3>1, <4>1
      <4> QED
        BY <1>5, <4>1, <4>2
    <3> QED
      BY <1>1, <3>2, <3>3
  <2> QED
    BY <2>1, <2>2, <2>3
<1>7. C!RemoveAt(c, i) = d
  BY DEF C!RemoveAt, a, b, n
<1> HIDE DEF d
<1>8. \A j1, j2 \in 1..Len(d) : j1 < j2 => d[j1] < d[j2]
  <2> SUFFICES ASSUME NEW j1 \in 1..(n - 1), NEW j2 \in 1..(n - 1), j1 < j2
               PROVE  d[j1] < d[j2]
    BY <1>6
  <2>1. /\ d[j1] = IF j1 < i THEN c[j1] ELSE c[j1 + 1]
        /\ d[j2] = IF j2 < i THEN c[j2] ELSE c[j2 + 1]
    BY <1>6
  <2>2. /\ j1 \in 1..n /\ j1 + 1 \in 1..n /\ j2 \in 1..n /\ j2 + 1 \in 1..n
        /\ j1 < j2 + 1 /\ j1 + 1 < j2 + 1 /\ (j2 < i => j1 < i)
    BY <1>1
  <2> QED
    BY <1>3, <2>1, <2>2
<1>9. d \in Seq(C!Temps) /\ Len(d) >= 2
  BY <1>1, <1>6
<1>10. d \in Rising
  BY <1>8, <1>9, IsRising
<1> QED
  BY <1>7, <1>10

LEMMA MoveRises ==
  ASSUME NEW c \in Rising, NEW i \in DOMAIN c, NEW t \in C!clampPoint(c, i)
  PROVE  [c EXCEPT ![i] = t] \in Rising /\ i \in DOMAIN [c EXCEPT ![i] = t]
<1> DEFINE n == Len(c)
           d == [c EXCEPT ![i] = t]
<1>1. n \in Nat /\ i \in 1..n /\ n >= 2 /\ c \in Seq(C!Temps)
  BY RisingFacts
<1>2. t \in C!Temps /\ t \in Int /\ (i > 1 => t > c[i - 1]) /\ (i < n => t < c[i + 1])
  BY ConsolesParameters DEF C!clampPoint, C!Temps, C!CurveAssumption
<1>3. \A x, y \in 1..n : x < y => c[x] < c[y]
  BY RisingFacts
<1>4. d \in Seq(C!Temps) /\ Len(d) = n /\ \A j \in 1..n : d[j] = IF j = i THEN t ELSE c[j]
  BY <1>1, <1>2, ExceptSeq
<1>5. \A j \in 1..n : c[j] \in Int
  BY RisingFacts
<1> HIDE DEF n, d
<1>6. \A j1, j2 \in 1..Len(d) : j1 < j2 => d[j1] < d[j2]
  <2> SUFFICES ASSUME NEW j1 \in 1..n, NEW j2 \in 1..n, j1 < j2
               PROVE  d[j1] < d[j2]
    BY <1>4
  <2>1. CASE j1 # i /\ j2 # i
    BY <1>3, <1>4, <2>1
  <2>2. CASE j1 = i
    <3>1. i + 1 \in 1..n /\ i < n /\ j2 # i /\ (i + 1 < j2 \/ j2 = i + 1)
      BY <1>1, <2>2
    <3>2. t < c[i + 1] /\ (c[i + 1] < c[j2] \/ j2 = i + 1)
      BY <1>2, <1>3, <3>1
    <3>3. t < c[j2]
      BY <1>2, <1>5, <3>1, <3>2
    <3> QED
      BY <1>4, <2>2, <3>1, <3>3
  <2>3. CASE j2 = i
    <3>1. i - 1 \in 1..n /\ i > 1 /\ j1 # i /\ (j1 < i - 1 \/ j1 = i - 1)
      BY <1>1, <2>3
    <3>2. t > c[i - 1] /\ (c[j1] < c[i - 1] \/ j1 = i - 1)
      BY <1>2, <1>3, <3>1
    <3>3. c[j1] < t
      BY <1>2, <1>5, <3>1, <3>2
    <3> QED
      BY <1>4, <2>3, <3>1, <3>3
  <2> QED
    BY <2>1, <2>2, <2>3
<1>7. d \in Rising
  BY <1>1, <1>4, <1>6, IsRising
<1> QED
  BY <1>1, <1>4, <1>7, LenProperties DEF d

Puts == [zone : Zones, points : Rising, done : BOOLEAN, edited : BOOLEAN]
Loads == [id : Nat, says : {None} \cup Points, since : SUBSET Zones]

CurvesTyped ==
  /\ stored \in Points /\ fanEdited \in Points /\ (config = None \/ config \in Points)
  /\ loads \subseteq Loads /\ loaded \in Nat
Held ==
  drag = None \/ (drag.zone \in Zones /\ drag.i \in DOMAIN fanEdited[drag.zone])
Sending ==
  /\ applying \subseteq Zones /\ (put # None <=> applying # {})
  /\ put # None => put \in Puts /\ put.zone \in applying /\ config \in Points
CurvesInv == CurvesTyped /\ Held /\ Sending

LEMMA PutIsNone == None \notin Puts
<1>1. Puts \subseteq [zone : Zones, points : Seq(0..MaxTemp), done : BOOLEAN, edited : BOOLEAN]
  BY DEF Puts, Rising, C!Temps
<1> QED
  BY <1>1, ConsolesParameters DEF C!CurveAssumption

LEMMA CurvesBegin == C!Init => CurvesInv
<1> SUFFICES ASSUME C!Init PROVE CurvesInv
  OBVIOUS
<1>1. stored \in Points /\ fanEdited \in Points
  BY SmallestRises DEF C!Init, Points
<1> QED
  BY <1>1 DEF C!Init, CurvesInv, CurvesTyped, Held, Sending

LEMMA SameSize == \A s : C!Cardinality(s) = Cardinality(s)
<1> SUFFICES ASSUME NEW s PROVE C!Cardinality(s) = Cardinality(s)
  OBVIOUS
<1> QED
  BY DEF C!Cardinality, Cardinality

\* What the PUT of the next zone is.
LEMMA NextIsSent ==
  ASSUME applying' \subseteq Zones, fanEdited \in Points, config' \in Points, C!sendNext
  PROVE  Sending'
<1>1. CASE applying' = {}
  BY <1>1 DEF C!sendNext, Sending
<1>2. CASE applying' # {}
  <2>1. PICK z \in applying' :
          put' = [zone |-> z, points |-> fanEdited[z], done |-> FALSE, edited |-> FALSE]
    BY <1>2 DEF C!sendNext
  <2>2. z \in Zones /\ fanEdited[z] \in Rising
    BY <2>1 DEF Points
  <2>3. put' \in Puts /\ put'.zone = z
    BY <2>1, <2>2 DEF Puts
  <2> QED
    BY <1>2, <2>1, <2>3, PutIsNone DEF Sending
<1> QED
  BY <1>1, <1>2

LEMMA LoadKeeps ==
  ASSUME CurvesInv, C!loadCurves \/ C!Read \/ C!LoadFails
  PROVE  CurvesInv'
<1> USE DEF CurvesInv
<1>0. UNCHANGED <<stored, config, fanEdited, drag, applying, put>>
  BY DEF C!loadCurves, C!Read, C!LoadFails, C!AsSent
<1>1. CASE C!loadCurves
  <2>1. [id |-> loaded', says |-> None, since |-> {}] \in Loads
    BY <1>1 DEF C!loadCurves, Loads, CurvesTyped
  <2>2. CurvesTyped'
    BY <1>0, <1>1, <2>1 DEF C!loadCurves, CurvesTyped
  <2> QED
    BY <1>0, <2>2 DEF Held, Sending
<1>2. CASE C!Read
  <2>1. PICK l \in loads : loads' = (loads \ {l}) \cup {[l EXCEPT !.says = stored]} /\ loaded' = loaded
    BY <1>2 DEF C!Read
  <2>2. [l EXCEPT !.says = stored] \in Loads
    BY <2>1 DEF Loads, CurvesTyped
  <2>3. CurvesTyped'
    BY <1>0, <2>1, <2>2 DEF CurvesTyped
  <2> QED
    BY <1>0, <2>3 DEF Held, Sending
<1>3. CASE C!LoadFails
  <2>1. loads' \subseteq loads /\ loaded' = loaded
    BY <1>3 DEF C!LoadFails
  <2>2. CurvesTyped'
    BY <1>0, <2>1 DEF CurvesTyped
  <2> QED
    BY <1>0, <2>2 DEF Held, Sending
<1> QED
  BY <1>1, <1>2, <1>3

\* A PUT whose flag is set or taken off is the same PUT.
Flagged == put' = put \/ (put # None /\ \E b \in BOOLEAN : put' = [put EXCEPT !.edited = b])

LEMMA FlaggedSends ==
  ASSUME Sending, Flagged, applying' = applying, config' = config \/ config' \in Points
  PROVE  Sending'
<1>1. CASE put' = put
  BY <1>1 DEF Sending
<1>2. CASE put # None /\ \E b \in BOOLEAN : put' = [put EXCEPT !.edited = b]
  <2>1. put \in Puts /\ put.zone \in applying /\ config' \in Points
    BY <1>2 DEF Sending
  <2>2. put' \in Puts /\ put'.zone = put.zone
    BY <1>2, <2>1 DEF Puts
  <2> QED
    BY <1>2, <2>1, <2>2, PutIsNone DEF Sending
<1> QED
  BY <1>1, <1>2 DEF Flagged

LEMMA TouchedFlags ==
  /\ \A z : C!Touched(z) => Flagged
  /\ C!AsSent => Flagged
BY DEF C!Touched, C!Under, C!AsSent, Flagged

LEMMA LoadedKeeps ==
  ASSUME CurvesInv, C!Loaded
  PROVE  CurvesInv'
<1>1. PICK l \in loads :
        /\ l.says # None /\ loads' = loads \ {l}
        /\ config' = l.says /\ fanEdited' = l.says /\ drag' = None
        /\ put' = IF put = None THEN None
                  ELSE [put EXCEPT !.edited = ~put.done \/ put.zone \in l.since]
  BY DEF C!Loaded
<1>2. l.says \in Points
  BY <1>1 DEF CurvesInv, CurvesTyped, Loads
<1>3. UNCHANGED <<stored, applying, loaded>>
  BY DEF C!Loaded
<1>4. CurvesTyped'
  BY <1>1, <1>2, <1>3 DEF CurvesInv, CurvesTyped
<1>5. Held'
  BY <1>1 DEF Held
<1>6. Sending'
  <2>1. CASE put = None
    BY <1>1, <1>3, <2>1 DEF CurvesInv, Sending
  <2>2. CASE put # None
    <3>1. put.done \in BOOLEAN
      BY <2>2 DEF CurvesInv, Sending, Puts
    <3>2. Flagged
      BY <1>1, <2>2, <3>1 DEF Flagged
    <3> QED
      BY <1>1, <1>2, <1>3, <3>2, FlaggedSends DEF CurvesInv
  <2> QED
    BY <2>1, <2>2
<1> QED
  BY <1>4, <1>5, <1>6 DEF CurvesInv

\* One zone's curve replaced by another.
LEMMA OneCurve ==
  ASSUME NEW f \in Points, NEW z \in Zones, NEW c \in Rising
  PROVE  [f EXCEPT ![z] = c] \in Points /\ [f EXCEPT ![z] = c][z] = c
BY DEF Points

LEMMA EditKeeps ==
  ASSUME CurvesInv, C!Steady, Flagged, fanEdited' \in Points, Held'
  PROVE  CurvesInv'
<1>1. UNCHANGED <<stored, config, applying, loads, loaded>>
  BY DEF C!Steady
<1>2. CurvesTyped'
  BY <1>1 DEF CurvesInv, CurvesTyped
<1>3. Sending'
  BY <1>1, FlaggedSends DEF CurvesInv
<1> QED
  BY <1>2, <1>3 DEF CurvesInv

LEMMA DownKeeps ==
  ASSUME CurvesInv, NEW z \in Zones, C!pointerdown(z)
  PROVE  CurvesInv'
<1>0. C!Steady /\ fanEdited \in Points /\ fanEdited[z] \in Rising /\ Flagged
  BY TouchedFlags DEF C!pointerdown, CurvesInv, CurvesTyped, Points
<1>1. CASE (\E i \in DOMAIN fanEdited[z] : drag' = [zone |-> z, i |-> i]) /\ UNCHANGED fanEdited
  <2>1. PICK i \in DOMAIN fanEdited[z] : drag' = [zone |-> z, i |-> i]
    BY <1>1
  <2>2. drag'.zone = z /\ drag'.i = i /\ fanEdited' = fanEdited
    BY <1>1, <2>1
  <2>3. Held'
    BY <2>1, <2>2 DEF Held
  <2> QED
    BY <1>0, <2>2, <2>3, EditKeeps
<1>2. CASE \E t \in C!Temps \ C!ToSet(fanEdited[z]) :
             LET c == fanEdited[z]
                 i == Cardinality({j \in DOMAIN c : c[j] < t}) + 1
             IN  /\ fanEdited' = [fanEdited EXCEPT ![z] = C!InsertAt(c, i, t)]
                 /\ drag' = [zone |-> z, i |-> i]
  <2> DEFINE c == fanEdited[z]
  <2>1. PICK t \in C!Temps \ C!ToSet(c) :
          LET i == Cardinality({j \in DOMAIN c : c[j] < t}) + 1
          IN  /\ fanEdited' = [fanEdited EXCEPT ![z] = C!InsertAt(c, i, t)]
              /\ drag' = [zone |-> z, i |-> i]
    BY <1>2
  <2> DEFINE p == Cardinality({j \in DOMAIN c : c[j] < t}) + 1
  <2>2. fanEdited' = [fanEdited EXCEPT ![z] = C!InsertAt(c, p, t)] /\ drag' = [zone |-> z, i |-> p]
    BY <2>1
  <2>3. C!InsertAt(c, p, t) \in Rising /\ p \in DOMAIN C!InsertAt(c, p, t)
    BY <1>0, InsertRises
  <2> DEFINE d == C!InsertAt(c, p, t)
  <2>7. fanEdited' = [fanEdited EXCEPT ![z] = d] /\ d \in Rising /\ p \in DOMAIN d
    BY <2>2, <2>3
  <2> HIDE DEF p, c, d
  <2>4. fanEdited' \in Points /\ fanEdited'[z] = d
    <3>1. [fanEdited EXCEPT ![z] = d] \in Points /\ [fanEdited EXCEPT ![z] = d][z] = d
      BY <1>0, <2>7, OneCurve
    <3> QED
      BY <2>7, <3>1
  <2>5. drag'.zone = z /\ drag'.i = p
    BY <2>2
  <2>6. Held'
    BY <2>7, <2>4, <2>5 DEF Held
  <2> QED
    BY <1>0, <2>4, <2>6, EditKeeps
<1> QED
  BY <1>1, <1>2, SameSize DEF C!pointerdown, C!Edit

LEMMA MoveKeeps ==
  ASSUME CurvesInv, C!pointermove
  PROVE  CurvesInv'
<1> DEFINE z == drag.zone
           p == drag.i
           c == fanEdited[z]
<1>1. /\ z \in Zones /\ p \in DOMAIN c /\ fanEdited \in Points /\ c \in Rising /\ C!Steady
      /\ drag' = drag /\ Flagged
  BY TouchedFlags DEF C!pointermove, CurvesInv, CurvesTyped, Held, Points
<1>2. PICK t \in C!clampPoint(c, p) : fanEdited' = [fanEdited EXCEPT ![z][p] = t]
  BY DEF C!pointermove
<1>3. [c EXCEPT ![p] = t] \in Rising /\ p \in DOMAIN [c EXCEPT ![p] = t]
  BY <1>1, MoveRises
<1>4. fanEdited' = [fanEdited EXCEPT ![z] = [c EXCEPT ![p] = t]]
  BY <1>1, <1>2
<1> DEFINE d == [c EXCEPT ![p] = t]
<1>5. z = drag.zone /\ p = drag.i /\ d \in Rising /\ p \in DOMAIN d
  BY <1>3
<1>8. fanEdited' = [fanEdited EXCEPT ![z] = d]
  BY <1>4
<1> HIDE DEF z, p, c, d
<1>6. fanEdited' \in Points /\ fanEdited'[z] = d
  <2>1. [fanEdited EXCEPT ![z] = d] \in Points /\ [fanEdited EXCEPT ![z] = d][z] = d
    BY <1>1, <1>5, OneCurve
  <2> QED
    BY <1>8, <2>1
<1>7. Held'
  BY <1>1, <1>5, <1>6 DEF Held
<1> QED
  BY <1>1, <1>6, <1>7, EditKeeps

LEMMA EndKeeps ==
  ASSUME CurvesInv, C!end
  PROVE  CurvesInv'
<1> DEFINE z == drag.zone
           p == drag.i
           c == fanEdited[z]
<1>1. /\ z \in Zones /\ p \in DOMAIN c /\ fanEdited \in Points /\ c \in Rising /\ C!Steady
      /\ drag' = None /\ Flagged
  BY TouchedFlags DEF C!end, CurvesInv, CurvesTyped, Held, Points
<1>2. Held'
  BY <1>1 DEF Held
<1>3. CASE UNCHANGED fanEdited
  BY <1>1, <1>2, <1>3, EditKeeps
<1>4. CASE Len(c) > 2 /\ fanEdited' = [fanEdited EXCEPT ![z] = C!RemoveAt(c, p)]
  <2>1. C!RemoveAt(c, p) \in Rising
    BY <1>1, <1>4, RemoveRises
  <2> HIDE DEF z, p, c
  <2>2. fanEdited' \in Points
    BY <1>1, <1>4, <2>1, OneCurve
  <2> QED
    BY <1>1, <1>2, <2>2, EditKeeps
<1> QED
  BY <1>1, <1>3, <1>4 DEF C!end

LEMMA ApplyKeeps ==
  ASSUME CurvesInv, C!applyAll
  PROVE  CurvesInv'
<1>1. /\ UNCHANGED <<stored, config, fanEdited, drag, loads, loaded>> /\ C!sendNext
      /\ applying' = C!dirtyZones /\ C!anyDirty
  BY DEF C!applyAll
<1>2. config # None /\ applying' \subseteq Zones
  BY <1>1 DEF C!anyDirty, C!dirtyZones, C!zoneDirty
<1>3. CurvesTyped' /\ config' \in Points /\ fanEdited \in Points
  BY <1>1, <1>2 DEF CurvesInv, CurvesTyped
<1>4. Sending'
  BY <1>1, <1>2, <1>3, NextIsSent
<1> QED
  BY <1>1, <1>3, <1>4 DEF CurvesInv, Held

LEMMA StoreKeeps ==
  ASSUME CurvesInv, C!Store
  PROVE  CurvesInv'
<1>1. /\ UNCHANGED <<config, fanEdited, drag, applying, loaded>> /\ put # None
      /\ put' = [put EXCEPT !.done = TRUE] /\ stored' = [stored EXCEPT ![put.zone] = put.points]
      /\ loads' = {IF l.says = None THEN l ELSE [l EXCEPT !.since = @ \cup {put.zone}] : l \in loads}
  BY DEF C!Store
<1>2. put \in Puts /\ put.zone \in applying /\ applying \subseteq Zones /\ config \in Points
  BY <1>1 DEF CurvesInv, Sending
<1>3. put' \in Puts /\ put'.zone = put.zone /\ put.points \in Rising /\ put.zone \in Zones
  BY <1>1, <1>2 DEF Puts
<1>4. stored' \in Points
  BY <1>1, <1>3, OneCurve DEF CurvesInv, CurvesTyped
<1>7. loads' \subseteq Loads
  BY <1>1, <1>3 DEF CurvesInv, CurvesTyped, Loads
<1>5. CurvesTyped'
  BY <1>1, <1>4, <1>7 DEF CurvesInv, CurvesTyped
<1>6. Sending'
  <2>1. put' # None /\ applying' # {} /\ applying' \subseteq Zones /\ config' \in Points
    BY <1>1, <1>2, <1>3, PutIsNone
  <2>2. put'.zone \in applying'
    BY <1>1, <1>2, <1>3
  <2> QED
    BY <1>3, <2>1, <2>2 DEF Sending
<1> QED
  BY <1>1, <1>5, <1>6 DEF CurvesInv, Held

LEMMA StoredKeeps ==
  ASSUME CurvesInv, C!Stored
  PROVE  CurvesInv'
<1>1. /\ UNCHANGED <<stored, fanEdited, drag, loads, loaded>> /\ put # None /\ C!sendNext
      /\ config' = [config EXCEPT ![put.zone] = fanEdited[put.zone]]
      /\ applying' = applying \ {put.zone}
  BY DEF C!Stored
<1>2. put.zone \in Zones /\ applying \subseteq Zones /\ config \in Points
  BY <1>1 DEF CurvesInv, Sending
<1>3. fanEdited \in Points /\ fanEdited[put.zone] \in Rising
  BY <1>2 DEF CurvesInv, CurvesTyped, Points
<1>4. config' \in Points
  BY <1>1, <1>2, <1>3, OneCurve
<1>5. CurvesTyped'
  BY <1>1, <1>4 DEF CurvesInv, CurvesTyped
<1>6. Sending'
  BY <1>1, <1>2, <1>3, <1>4, NextIsSent
<1> QED
  BY <1>1, <1>5, <1>6 DEF CurvesInv, Held

LEMMA OtherKeeps ==
  ASSUME CurvesInv, C!SelectProfile \/ C!StoreFails \/ C!revertAll \/ UNCHANGED C!vars
  PROVE  CurvesInv'
<1>1. CASE C!SelectProfile
  <2>1. UNCHANGED <<stored, config, fanEdited, drag, applying, put, loads, loaded>>
    BY <1>1 DEF C!SelectProfile, C!AsSent
  <2> QED
    BY <2>1 DEF CurvesInv, CurvesTyped, Held, Sending
<1>2. CASE C!StoreFails
  <2>1. UNCHANGED <<stored, config, fanEdited, drag, loads, loaded>> /\ applying' = {} /\ put' = None
    BY <1>2 DEF C!StoreFails
  <2> QED
    BY <2>1 DEF CurvesInv, CurvesTyped, Held, Sending
<1>3. CASE C!revertAll
  <2>1. /\ UNCHANGED <<stored, config, drag, applying, loads, loaded>> /\ fanEdited' = config
        /\ drag = None /\ config # None /\ Flagged
    BY <1>3, TouchedFlags DEF C!revertAll, C!anyDirty, C!dirtyZones, C!zoneDirty
  <2>2. Sending'
    BY <2>1, FlaggedSends DEF CurvesInv
  <2> QED
    BY <2>1, <2>2 DEF CurvesInv, CurvesTyped, Held
<1>4. CASE UNCHANGED C!vars
  <2>1. UNCHANGED <<stored, config, fanEdited, drag, applying, put, loads, loaded>>
    BY <1>4 DEF C!vars
  <2> QED
    BY <2>1 DEF CurvesInv, CurvesTyped, Held, Sending
<1> QED
  BY <1>1, <1>2, <1>3, <1>4

LEMMA CurvesKeep ==
  ASSUME CurvesInv, [C!Next]_(C!vars)
  PROVE  CurvesInv'
<1>1. CASE C!loadCurves \/ C!Read \/ C!LoadFails
  BY <1>1, LoadKeeps
<1>2. CASE C!Loaded
  BY <1>2, LoadedKeeps
<1>3. CASE \E z \in Zones : C!pointerdown(z)
  BY <1>3, DownKeeps
<1>4. CASE C!pointermove \/ C!end
  BY <1>4, MoveKeeps, EndKeeps
<1>5. CASE C!applyAll \/ C!Store \/ C!Stored
  BY <1>5, ApplyKeeps, StoreKeeps, StoredKeeps
<1>6. CASE C!SelectProfile \/ C!StoreFails \/ C!revertAll \/ UNCHANGED C!vars
  BY <1>6, OtherKeeps
<1> QED
  BY <1>1, <1>2, <1>3, <1>4, <1>5, <1>6 DEF C!Next

LEMMA CurvesSay == CurvesInv => C!CurvesSound
<1> SUFFICES ASSUME CurvesInv PROVE C!CurvesSound
  OBVIOUS
<1>1. ASSUME NEW z \in Zones
      PROVE  /\ Len(fanEdited[z]) >= 2 /\ C!Ascending(fanEdited[z])
             /\ C!ToSet(fanEdited[z]) \subseteq C!Temps /\ C!Ascending(stored[z])
  <2>1. fanEdited[z] \in Rising /\ stored[z] \in Rising
    BY DEF CurvesInv, CurvesTyped, Points
  <2> QED
    BY <2>1, RisingFacts
<1> QED
  BY <1>1 DEF CurvesInv, Held, Sending, C!CurvesSound

\* Of a zone the page is not to be unsure of, the curve as read is the one stored, or its PUT
\* was stored, waits for its answer and is what is shown.
Told(z) == put # None /\ put.done /\ ~put.edited /\ z = put.zone
Unread == config = None => drag = None /\ fanEdited = stored
Fresh == \A l \in loads : l.says # None => \A z \in Zones \ l.since : l.says[z] = stored[z]
AsShown ==
  /\ put # None /\ ~put.edited =>
       fanEdited[put.zone] = IF put.done THEN stored[put.zone] ELSE put.points
  /\ put # None /\ put.done /\ put.edited => put.zone \in unsure
AsStored == config # None => \A z \in Zones \ unsure : config[z] = stored[z] \/ Told(z)
Known == Unread /\ Fresh /\ AsShown /\ AsStored

LEMMA PointsAreNotNone == None \notin Points
<1>1. Points \subseteq [Zones -> Seq(0..MaxTemp)]
  BY DEF Points, Rising, C!Temps
<1> QED
  BY <1>1, ConsolesParameters DEF C!CurveAssumption

LEMMA KnownBegins == C!Init => Known
BY DEF C!Init, Known, Unread, Fresh, AsShown, AsStored

LEMMA KnownLoad ==
  ASSUME CurvesInv, Known, C!loadCurves \/ C!Read \/ C!LoadFails
  PROVE  Known'
<1>0. UNCHANGED <<stored, config, fanEdited, drag, applying, put, unsure>>
  BY DEF C!loadCurves, C!Read, C!LoadFails, C!AsSent
<1>1. \A z : Told(z)' <=> Told(z)
  BY <1>0 DEF Told
<1>2. Unread' /\ AsShown' /\ AsStored'
  BY <1>0, <1>1 DEF Known, Unread, AsShown, AsStored
<1>3. CASE C!loadCurves
  <2>1. loads' = loads \cup {[id |-> loaded', says |-> None, since |-> {}]}
    BY <1>3 DEF C!loadCurves
  <2>2. Fresh'
    BY <1>0, <2>1 DEF Known, Fresh
  <2> QED
    BY <1>2, <2>2 DEF Known
<1>4. CASE C!Read
  <2>1. PICK l \in loads : loads' = (loads \ {l}) \cup {[l EXCEPT !.says = stored]}
    BY <1>4 DEF C!Read
  <2>2. l \in Loads
    BY <2>1 DEF CurvesInv, CurvesTyped
  <2>3. [l EXCEPT !.says = stored].says = stored
    BY <2>2 DEF Loads
  <2>4. Fresh'
    BY <1>0, <2>1, <2>3 DEF Known, Fresh
  <2> QED
    BY <1>2, <2>4 DEF Known
<1>5. CASE C!LoadFails
  <2>1. loads' \subseteq loads
    BY <1>5 DEF C!LoadFails
  <2>2. Fresh'
    BY <1>0, <2>1 DEF Known, Fresh
  <2> QED
    BY <1>2, <2>2 DEF Known
<1> QED
  BY <1>3, <1>4, <1>5

LEMMA KnownLoaded ==
  ASSUME CurvesInv, Known, C!Loaded
  PROVE  Known'
<1>1. PICK l \in loads :
        /\ l.says # None /\ loads' = loads \ {l}
        /\ config' = l.says /\ fanEdited' = l.says /\ drag' = None
        /\ put' = IF put = None THEN None
                  ELSE [put EXCEPT !.edited = ~put.done \/ put.zone \in l.since]
        /\ unsure' = l.since /\ stored' = stored
  BY DEF C!Loaded
<1>2. \A z \in Zones \ l.since : l.says[z] = stored[z]
  BY <1>1 DEF Known, Fresh
<1>3. Unread' /\ Fresh'
  BY <1>1 DEF Known, Unread, Fresh
<1>4. AsStored'
  BY <1>1, <1>2 DEF AsStored
<1>5. AsShown'
  <2> SUFFICES ASSUME put' # None PROVE AsShown'
    BY DEF AsShown
  <2>1. put # None /\ put' = [put EXCEPT !.edited = ~put.done \/ put.zone \in l.since]
    BY <1>1
  <2>2. put \in Puts /\ put.zone \in Zones
    BY <2>1 DEF CurvesInv, Sending, Puts
  <2>3. /\ put'.zone = put.zone /\ put'.done = put.done
        /\ put'.edited = (~put.done \/ put.zone \in l.since)
    BY <2>1, <2>2 DEF Puts
  <2> QED
    BY <1>1, <1>2, <2>2, <2>3 DEF AsShown
<1> QED
  BY <1>3, <1>4, <1>5 DEF Known

\* The working copy of one zone is changed, and of the others it is not.
LEMMA KnownTouched ==
  ASSUME CurvesInv, Known, NEW z \in Zones, C!Touched(z), config # None,
         \A y \in Zones : y # z => fanEdited'[y] = fanEdited[y],
         UNCHANGED <<stored, config, loads>>
  PROVE  Known'
<1>1. Unread' /\ Fresh'
  BY DEF Known, Unread, Fresh
<1>2. CASE put # None /\ put.zone = z
  <2>1. put \in Puts
    BY <1>2 DEF CurvesInv, Sending
  <2>2. /\ put' = [put EXCEPT !.edited = TRUE] /\ unsure \subseteq unsure'
        /\ put.done => z \in unsure'
    BY <1>2 DEF C!Touched, C!Under
  <2>3. put'.edited /\ put'.zone = z /\ put'.done = put.done
    BY <1>2, <2>1, <2>2 DEF Puts
  <2>4. AsShown'
    BY <2>2, <2>3 DEF AsShown
  <2>5. AsStored'
    BY <1>2, <2>2 DEF Known, AsStored, Told
  <2> QED
    BY <1>1, <2>4, <2>5 DEF Known
<1>3. CASE ~(put # None /\ put.zone = z)
  <2>1. put' = put /\ unsure' = unsure
    BY <1>3 DEF C!Touched, C!Under
  <2>2. put # None => put.zone \in Zones
    BY DEF CurvesInv, Sending
  <2>3. AsShown'
    BY <1>3, <2>1, <2>2 DEF Known, AsShown
  <2>4. AsStored'
    BY <2>1 DEF Known, AsStored, Told
  <2> QED
    BY <1>1, <2>3, <2>4 DEF Known
<1> QED
  BY <1>2, <1>3

\* Nothing is changed but which point is held.
LEMMA KnownStays ==
  ASSUME Known, UNCHANGED <<stored, config, fanEdited, put, loads, unsure>>, config = None => drag' = None
  PROVE  Known'
<1>1. \A z : Told(z)' <=> Told(z)
  BY DEF Told
<1> QED
  BY <1>1 DEF Known, Unread, Fresh, AsShown, AsStored

LEMMA KnownEdit ==
  ASSUME CurvesInv, Known, C!pointermove \/ C!end \/ (\E z \in Zones : C!pointerdown(z))
  PROVE  Known'
<1>1. UNCHANGED <<stored, config, loads>>
  BY DEF C!pointermove, C!end, C!pointerdown, C!Steady
<1>2. config # None
  BY DEF C!pointermove, C!end, C!pointerdown, Known, Unread
<1>3. CASE fanEdited' = fanEdited /\ C!AsSent
  BY <1>1, <1>2, <1>3, KnownStays DEF C!AsSent
<1>4. ASSUME NEW z \in Zones, NEW c, fanEdited' = [fanEdited EXCEPT ![z] = c], C!Touched(z)
      PROVE  Known'
  <2>1. \A y \in Zones : y # z => fanEdited'[y] = fanEdited[y]
    BY <1>4 DEF CurvesInv, CurvesTyped, Points
  <2> QED
    BY <1>1, <1>2, <1>4, <2>1, KnownTouched
<1>5. drag # None => drag.zone \in Zones
  BY DEF CurvesInv, Held
<1>6. CASE C!pointermove
  <2>1. PICK t : fanEdited' = [fanEdited EXCEPT ![drag.zone][drag.i] = t]
    BY <1>6 DEF C!pointermove
  <2>2. fanEdited' = [fanEdited EXCEPT ![drag.zone] = [fanEdited[drag.zone] EXCEPT ![drag.i] = t]]
    BY <2>1
  <2>3. C!Touched(drag.zone) /\ drag.zone \in Zones
    BY <1>5, <1>6 DEF C!pointermove
  <2> QED
    BY <1>4, <2>2, <2>3
<1>7. CASE C!end
  BY <1>3, <1>4, <1>5, <1>7 DEF C!end
<1>8. CASE \E z \in Zones : C!pointerdown(z)
  <2>1. PICK z \in Zones : C!pointerdown(z)
    BY <1>8
  <2>2. CASE fanEdited' = fanEdited /\ C!AsSent
    BY <1>3, <2>2
  <2>3. CASE ~(fanEdited' = fanEdited /\ C!AsSent)
    <3>1. PICK c : fanEdited' = [fanEdited EXCEPT ![z] = c] /\ C!Touched(z)
      BY <2>1, <2>3 DEF C!pointerdown
    <3> QED
      BY <1>4, <3>1
  <2> QED
    BY <2>2, <2>3
<1> QED
  BY <1>6, <1>7, <1>8

LEMMA SentAsShown ==
  ASSUME applying' \subseteq Zones, C!sendNext, fanEdited' = fanEdited
  PROVE  AsShown' /\ \A z : ~Told(z)'
<1>1. CASE applying' = {}
  BY <1>1 DEF C!sendNext, AsShown, Told
<1>2. CASE applying' # {}
  <2>1. PICK z \in applying' :
          put' = [zone |-> z, points |-> fanEdited[z], done |-> FALSE, edited |-> FALSE]
    BY <1>2 DEF C!sendNext
  <2> QED
    BY <2>1 DEF AsShown, Told
<1> QED
  BY <1>1, <1>2

LEMMA KnownApply ==
  ASSUME CurvesInv, Known, C!applyAll
  PROVE  Known'
<1>1. /\ UNCHANGED <<stored, config, fanEdited, drag, loads, unsure>> /\ C!sendNext
      /\ applying' = C!dirtyZones /\ applying = {}
  BY DEF C!applyAll
<1>2. applying' \subseteq Zones
  BY <1>1 DEF C!dirtyZones
<1>3. AsShown'
  BY <1>1, <1>2, SentAsShown
<1>4. put = None
  BY <1>1 DEF CurvesInv, Sending
<1>5. AsStored'
  BY <1>1, <1>4 DEF Known, AsStored, Told
<1> QED
  BY <1>1, <1>3, <1>5 DEF Known, Unread, Fresh

LEMMA KnownStore ==
  ASSUME CurvesInv, Known, C!Store
  PROVE  Known'
<1>1. /\ UNCHANGED <<config, fanEdited, drag>> /\ put # None /\ ~put.done
      /\ put' = [put EXCEPT !.done = TRUE] /\ stored' = [stored EXCEPT ![put.zone] = put.points]
      /\ unsure' = IF put.edited THEN unsure \cup {put.zone} ELSE unsure
      /\ loads' = {IF l.says = None THEN l ELSE [l EXCEPT !.since = @ \cup {put.zone}] : l \in loads}
  BY DEF C!Store
<1>2. put \in Puts /\ put.zone \in Zones /\ stored \in Points /\ config # None
  BY <1>1, PointsAreNotNone DEF CurvesInv, CurvesTyped, Sending
<1>3. /\ put' # None /\ put'.done /\ put'.zone = put.zone /\ put'.points = put.points
      /\ put'.edited = put.edited
  <2>1. /\ put' \in Puts /\ put'.done /\ put'.zone = put.zone /\ put'.points = put.points
        /\ put'.edited = put.edited
    BY <1>1, <1>2 DEF Puts
  <2> QED
    BY <2>1, PutIsNone
<1>4. /\ stored'[put.zone] = put.points
      /\ \A z \in Zones : z # put.zone => stored'[z] = stored[z]
  BY <1>1, <1>2 DEF Points
<1>5. Unread'
  BY <1>1, <1>2 DEF Unread
<1>6. Fresh'
  <2> SUFFICES ASSUME NEW m \in loads', m.says # None, NEW z \in Zones \ m.since
               PROVE  m.says[z] = stored'[z]
    BY DEF Fresh
  <2>1. PICK l \in loads : m = IF l.says = None THEN l ELSE [l EXCEPT !.since = @ \cup {put.zone}]
    BY <1>1
  <2>2. l \in Loads
    BY DEF CurvesInv, CurvesTyped
  <2>3. l.says # None /\ m.says = l.says /\ m.since = l.since \cup {put.zone}
    BY <2>1, <2>2 DEF Loads
  <2> QED
    BY <1>4, <2>3 DEF Known, Fresh
<1>7. AsShown'
  BY <1>1, <1>3, <1>4 DEF Known, AsShown
<1>8. AsStored'
  BY <1>1, <1>2, <1>3, <1>4 DEF Known, AsStored, Told
<1> QED
  BY <1>5, <1>6, <1>7, <1>8 DEF Known

LEMMA KnownStored ==
  ASSUME CurvesInv, Known, C!Stored
  PROVE  Known'
<1>1. /\ UNCHANGED <<stored, fanEdited, drag, loads>> /\ put # None /\ put.done /\ C!sendNext
      /\ config' = [config EXCEPT ![put.zone] = fanEdited[put.zone]]
      /\ applying' = applying \ {put.zone}
      /\ unsure' = IF put.edited THEN unsure \cup {put.zone} ELSE unsure \ {put.zone}
  BY DEF C!Stored, C!Learned
<1>2. put.zone \in Zones /\ applying \subseteq Zones /\ config \in Points
  BY <1>1 DEF CurvesInv, Sending
<1>3. AsShown'
  BY <1>1, <1>2, SentAsShown
<1>4. /\ config'[put.zone] = fanEdited[put.zone]
      /\ \A z \in Zones : z # put.zone => config'[z] = config[z]
      /\ config # None /\ config' # None
  <2>1. config' \in Points
    BY <1>1, <1>2, OneCurve DEF CurvesInv, CurvesTyped, Points
  <2> QED
    BY <1>1, <1>2, <2>1, PointsAreNotNone DEF Points
<1>5. AsStored'
  <2> SUFFICES ASSUME NEW z \in Zones, z \notin unsure' PROVE config'[z] = stored[z]
    BY <1>1 DEF AsStored
  <2>1. CASE z = put.zone
    BY <1>1, <1>4, <2>1 DEF Known, AsShown
  <2>2. CASE z # put.zone
    <3>1. z \notin unsure /\ ~Told(z)
      BY <1>1, <2>2 DEF Told
    <3> QED
      BY <1>4, <2>2, <3>1 DEF Known, AsStored
  <2> QED
    BY <2>1, <2>2
<1> QED
  BY <1>1, <1>3, <1>4, <1>5 DEF Known, Unread, Fresh

LEMMA KnownOther ==
  ASSUME CurvesInv, Known, C!SelectProfile \/ C!StoreFails \/ C!revertAll \/ UNCHANGED C!vars
  PROVE  Known'
<1>1. CASE C!SelectProfile \/ UNCHANGED C!vars
  BY <1>1, KnownStays DEF C!SelectProfile, C!AsSent, C!vars, Known, Unread
<1>2. CASE C!StoreFails
  <2>1. /\ UNCHANGED <<stored, config, fanEdited, drag, loads>> /\ put' = None /\ put # None
        /\ unsure' = IF put.done THEN unsure \cup {put.zone} ELSE unsure
    BY <1>2 DEF C!StoreFails
  <2>2. AsStored'
    BY <2>1 DEF Known, AsStored, Told
  <2> QED
    BY <2>1, <2>2 DEF Known, Unread, Fresh, AsShown
<1>3. CASE C!revertAll
  <2>1. UNCHANGED <<stored, config, drag, loads>> /\ fanEdited' = config /\ config # None
    BY <1>3 DEF C!revertAll, C!anyDirty, C!dirtyZones, C!zoneDirty
  <2>2. Unread' /\ Fresh'
    BY <2>1 DEF Known, Unread, Fresh
  <2>3. CASE put # None /\ C!zoneDirty(put.zone)
    <3>1. C!Touched(put.zone) /\ put \in Puts
      BY <1>3, <2>3 DEF C!revertAll, CurvesInv, Sending
    <3>2. /\ put' = [put EXCEPT !.edited = TRUE] /\ unsure \subseteq unsure'
          /\ put.done => put.zone \in unsure'
      BY <2>3, <3>1 DEF C!Touched, C!Under
    <3>3. put'.edited /\ put'.zone = put.zone /\ put'.done = put.done
      BY <3>1, <3>2 DEF Puts
    <3>4. AsShown'
      BY <3>2, <3>3 DEF AsShown
    <3>5. AsStored'
      BY <2>1, <3>2 DEF Known, AsStored, Told
    <3> QED
      BY <2>2, <3>4, <3>5 DEF Known
  <2>4. CASE ~(put # None /\ C!zoneDirty(put.zone))
    <3>1. put' = put /\ unsure' = unsure
      BY <1>3, <2>4 DEF C!revertAll, C!AsSent
    <3>2. put # None => fanEdited'[put.zone] = fanEdited[put.zone]
      BY <2>1, <2>4 DEF C!zoneDirty
    <3>3. AsShown'
      BY <2>1, <3>1, <3>2 DEF Known, AsShown
    <3>4. AsStored'
      BY <2>1, <3>1 DEF Known, AsStored, Told
    <3> QED
      BY <2>2, <3>3, <3>4 DEF Known
  <2> QED
    BY <2>3, <2>4
<1> QED
  BY <1>1, <1>2, <1>3

LEMMA KnownKeeps ==
  ASSUME CurvesInv, Known, [C!Next]_(C!vars)
  PROVE  Known'
<1>1. CASE C!loadCurves \/ C!Read \/ C!LoadFails
  BY <1>1, KnownLoad
<1>2. CASE C!Loaded
  BY <1>2, KnownLoaded
<1>3. CASE C!pointermove \/ C!end \/ (\E z \in Zones : C!pointerdown(z))
  BY <1>3, KnownEdit
<1>4. CASE C!applyAll \/ C!Store \/ C!Stored
  BY <1>4, KnownApply, KnownStore, KnownStored
<1>5. CASE C!SelectProfile \/ C!StoreFails \/ C!revertAll \/ UNCHANGED C!vars
  BY <1>5, KnownOther
<1> QED
  BY <1>1, <1>2, <1>3, <1>4, <1>5 DEF C!Next

LEMMA KnownSays == Known => C!UnsavedStaysDirty
<1> SUFFICES ASSUME Known, NEW z \in Zones, fanEdited[z] # stored[z], z \notin unsure
             PROVE  C!zoneDirty(z)
  BY DEF C!UnsavedStaysDirty
<1>1. config # None
  BY DEF Known, Unread
<1>2. ~Told(z)
  BY DEF Known, AsShown, Told
<1>3. config[z] = stored[z]
  BY <1>1, <1>2 DEF Known, AsStored
<1> QED
  BY <1>1, <1>3 DEF C!zoneDirty

-----------------------------------------------------------------------------
\* The Control Center page (Dashboard).

Answers == [v : Values, fand : BOOLEAN]
Requests == [says : {None} \cup Answers]
Changes == [v : Values, done : BOOLEAN, kept : BOOLEAN]

CountsOk ==
  /\ card \in Cards /\ srv \in Values /\ fand \in BOOLEAN
  /\ edits \in 0..MaxEdits /\ others \in 0..MaxOthers /\ trouble \in 0..MaxMisses
LoopOk ==
  /\ pollTimer \in BOOLEAN /\ pollFails \in Nat
  /\ req = None \/ req \in Requests
  /\ last = None \/ last \in Answers
  /\ pollTimer <=> req = None
NoticesOk ==
  /\ banner \in {"none", "conn", "fandDown", "error"} /\ connErrorActive \in BOOLEAN
  /\ connErrorActive <=> banner = "conn"
  /\ banner = "conn" => pollFails >= 3
  /\ banner = "fandDown" => ~last.fand \/ renamed
  /\ worded \in BOOLEAN /\ renamed \in BOOLEAN /\ (worded \/ renamed)
FormOk ==
  /\ base \in Values \cup {None} /\ draft \in Values \cup {None} /\ pending \in Values \cup {None}
  /\ mode \in {"preset", "custom"} /\ dirty \in BOOLEAN
  /\ base = None <=> draft = None
  /\ dirty \/ mode = "custom" => base # None
  /\ pending # None => card = "profile" /\ draft = pending
PutsOk ==
  /\ puts \in Seq(Changes) /\ blTimer \in BOOLEAN /\ abandoned \in BOOLEAN
  /\ blTimer \/ puts # <<>> => base # None
  /\ blTimer => card = "brightness"
DashInv == CountsOk /\ LoopOk /\ NoticesOk /\ FormOk /\ PutsOk

LEMMA DashConstants ==
  /\ None \notin Values /\ None \notin Requests /\ Presets \subseteq Values
  /\ MaxEdits \in Nat /\ MaxOthers \in Nat /\ MaxMisses \in Nat
BY ConsolesParameters DEF D!DashboardAssumption, Requests, Answers

LEMMA DashBegins == D!Init => DashInv
<1> SUFFICES ASSUME D!Init PROVE DashInv
  OBVIOUS
<1>1. CountsOk
  BY DashConstants DEF D!Init, CountsOk
<1>2. LoopOk
  BY DEF D!Init, LoopOk
<1>3. NoticesOk
  BY DEF D!Init, NoticesOk
<1>4. FormOk
  BY DEF D!Init, FormOk
<1>5. PutsOk
  BY EmptySeq DEF D!Init, PutsOk
<1> QED
  BY <1>1, <1>2, <1>3, <1>4, <1>5 DEF DashInv

\* What an answer leaves of the form.
LEMMA Rendered ==
  ASSUME DashInv, NEW v \in Values, D!renderAll(v), card' = card
  PROVE  FormOk' /\ base' # None
<1>0. v # None /\ base' = v /\ FormOk
  BY DashConstants DEF D!renderAll, DashInv
<1>1. CASE card = "profile"
  <2>1. D!renderProfiles(v)
    BY <1>1 DEF D!renderAll
  <2> QED
    BY <1>0, <1>1, <2>1 DEF FormOk, D!renderProfiles
<1>2. CASE card = "limits"
  <2>1. D!renderBattery(v)
    BY <1>2 DEF D!renderAll
  <2>2. draft' \in Values /\ draft' # None /\ pending = None
    BY <1>0, <1>2, <2>1, DashConstants DEF FormOk, D!renderBattery
  <2> QED
    BY <1>0, <1>2, <2>1, <2>2 DEF FormOk, D!renderBattery
<1>3. CASE card \notin {"profile", "limits"}
  <2>1. D!renderEdited(v)
    BY <1>3 DEF D!renderAll
  <2> QED
    BY <1>0, <1>3, <2>1, DashConstants DEF FormOk, D!renderEdited
<1> QED
  BY <1>1, <1>2, <1>3

LEMMA DashLoop ==
  ASSUME DashInv, D!pollLoop \/ D!Read \/ D!Missed
  PROVE  DashInv'
<1>0. UNCHANGED <<card, srv, fand, edits, others, last, puts, base, draft, mode, dirty, pending, blTimer,
                 abandoned>>
  BY DEF D!pollLoop, D!Read, D!Missed, D!device, D!count, D!form
<1>1. FormOk' /\ PutsOk'
  BY <1>0 DEF DashInv, FormOk, PutsOk
<1>2. CASE D!pollLoop
  <2>1. [says |-> None] \in Requests
    BY DEF Requests
  <2>2. LoopOk'
    BY <1>0, <1>2, <2>1, DashConstants DEF D!pollLoop, DashInv, LoopOk
  <2>3. CountsOk' /\ NoticesOk'
    BY <1>0, <1>2 DEF D!pollLoop, D!count, D!notices, DashInv, CountsOk, NoticesOk
  <2> QED
    BY <1>1, <2>2, <2>3 DEF DashInv
<1>3. CASE D!Read
  <2>1. [says |-> [v |-> srv, fand |-> fand]] \in Requests
    BY DEF Requests, Answers, DashInv, CountsOk
  <2>2. LoopOk'
    BY <1>0, <1>3, <2>1, DashConstants DEF D!Read, DashInv, LoopOk
  <2>3. CountsOk' /\ NoticesOk'
    BY <1>0, <1>3 DEF D!Read, D!count, D!notices, DashInv, CountsOk, NoticesOk
  <2> QED
    BY <1>1, <2>2, <2>3 DEF DashInv
<1>4. CASE D!Missed
  <2>1. /\ trouble < MaxMisses /\ trouble' = trouble + 1 /\ req' = None /\ pollTimer' = TRUE
        /\ pollFails' = pollFails + 1
        /\ IF pollFails' >= 3 THEN D!setConnError ELSE UNCHANGED D!notices
    BY <1>4 DEF D!Missed
  <2>2. LoopOk'
    BY <1>0, <2>1 DEF DashInv, LoopOk
  <2>3. CountsOk'
    BY <1>0, <2>1, DashConstants DEF DashInv, CountsOk
  <2>4. NoticesOk'
    <3>1. pollFails \in Nat
      BY DEF DashInv, LoopOk
    <3>2. CASE pollFails' >= 3
      BY <2>1, <3>2 DEF NoticesOk, D!setConnError, D!says
    <3>3. CASE ~(pollFails' >= 3)
      <4>1. UNCHANGED <<banner, connErrorActive, worded, renamed>>
        BY <2>1, <3>3 DEF D!notices
      <4>2. banner # "conn"
        BY <2>1, <3>1, <3>3 DEF DashInv, NoticesOk
      <4> QED
        BY <1>0, <4>1, <4>2 DEF DashInv, NoticesOk
    <3> QED
      BY <3>2, <3>3
  <2> QED
    BY <1>1, <2>2, <2>3, <2>4 DEF DashInv
<1> QED
  BY <1>2, <1>3, <1>4

LEMMA DashAnswered ==
  ASSUME DashInv, D!Answered
  PROVE  DashInv'
<1>1. /\ UNCHANGED <<card, srv, fand, edits, others, trouble, puts, blTimer, abandoned>>
      /\ req # None /\ req.says # None /\ req' = None /\ pollTimer' = TRUE
      /\ last' = req.says /\ pollFails' = 0 /\ D!answeredNotice(req.says) /\ D!renderAll(req.says.v)
  BY DEF D!Answered, D!device, D!count
<1>2. req.says \in Answers
  BY <1>1 DEF DashInv, LoopOk, Requests
<1>3. req.says.v \in Values
  BY <1>2 DEF Answers
<1>4. FormOk' /\ base' # None
  BY <1>1, <1>3, Rendered
<1>5. LoopOk'
  BY <1>1, <1>2 DEF LoopOk
<1>6. NoticesOk'
  BY <1>1 DEF DashInv, NoticesOk, D!answeredNotice, D!notice, D!says, D!notices
<1>7. CountsOk' /\ PutsOk'
  BY <1>1, <1>4 DEF DashInv, CountsOk, PutsOk
<1> QED
  BY <1>4, <1>5, <1>6, <1>7 DEF DashInv

LEMMA DashPreferences ==
  ASSUME DashInv, D!applyPreferences
  PROVE  DashInv'
<1>1. /\ UNCHANGED <<card, srv, fand, edits, others, trouble, puts, blTimer, req, pollTimer, last,
                     pollFails, banner, connErrorActive, abandoned>>
      /\ IF last # None THEN D!renderAll(last.v) ELSE UNCHANGED D!form
      /\ IF banner = "fandDown" THEN worded' = ~worded /\ renamed' = TRUE
         ELSE UNCHANGED <<worded, renamed>>
  BY DEF D!applyPreferences, D!device, D!count, D!loop
<1>2. FormOk' /\ (base # None => base' # None)
  <2>1. CASE last # None
    <3>1. last.v \in Values
      BY <2>1 DEF DashInv, LoopOk, Answers
    <3> QED
      BY <1>1, <2>1, <3>1, Rendered
  <2>2. CASE last = None
    <3>1. UNCHANGED <<card, base, draft, mode, dirty, pending>>
      BY <1>1, <2>2 DEF D!form
    <3> QED
      BY <3>1 DEF DashInv, FormOk
  <2> QED
    BY <2>1, <2>2
<1>3. NoticesOk'
  <2>1. CASE banner = "fandDown"
    BY <1>1, <2>1 DEF DashInv, NoticesOk
  <2>2. CASE banner # "fandDown"
    BY <1>1, <2>2 DEF DashInv, NoticesOk
  <2> QED
    BY <2>1, <2>2
<1>4. CountsOk' /\ LoopOk' /\ PutsOk'
  BY <1>1, <1>2 DEF DashInv, CountsOk, LoopOk, PutsOk
<1> QED
  BY <1>2, <1>3, <1>4 DEF DashInv

LEMMA SendKeeps ==
  ASSUME NEW v \in Values, puts \in Seq(Changes), D!send(v)
  PROVE  puts' \in Seq(Changes)
<1>1. [v |-> v, done |-> FALSE, kept |-> TRUE] \in Changes
  BY DEF Changes
<1> QED
  BY <1>1 DEF D!send

LEMMA RetypedKeeps ==
  ASSUME puts \in Seq(Changes), D!Retyped
  PROVE  /\ puts' \in Seq(Changes) /\ abandoned' = FALSE /\ (puts' # <<>> => puts # <<>>)
         /\ \A i \in 1..Len(puts') : ~puts'[i].kept
<1>1. puts' = [i \in DOMAIN puts |-> [puts[i] EXCEPT !.kept = FALSE]] /\ abandoned' = FALSE
  BY DEF D!Retyped
<1>2. DOMAIN puts = 1..Len(puts) /\ Len(puts) \in Nat
  BY LenProperties
<1>3. \A i \in 1..Len(puts) : puts[i] \in Changes
  BY ElementOfSeq
<1>4. \A i \in 1..Len(puts) : [puts[i] EXCEPT !.kept = FALSE] \in Changes
                                 /\ ~[puts[i] EXCEPT !.kept = FALSE].kept
  BY <1>3 DEF Changes
<1>5. puts' = [i \in 1..Len(puts) |-> [puts[i] EXCEPT !.kept = FALSE]]
  BY <1>1, <1>2
<1>6. puts' \in Seq(Changes)
  <2>1. puts' \in [1..Len(puts) -> Changes]
    BY <1>4, <1>5
  <2> QED
    BY <1>2, <2>1, SeqDef
<1>7. Len(puts') = Len(puts)
  BY <1>2, <1>5, <1>6, LenProperties
<1>8. \A i \in 1..Len(puts') : ~puts'[i].kept
  BY <1>4, <1>5, <1>7
<1>9. puts' # <<>> => puts # <<>>
  BY <1>6, <1>7, EmptySeq
<1> QED
  BY <1>1, <1>6, <1>8, <1>9

\* What an edit leaves alone.
LEMMA EditLeaves ==
  ASSUME DashInv, D!Edit, UNCHANGED D!notices
  PROVE  /\ CountsOk' /\ LoopOk' /\ NoticesOk' /\ card' = card /\ base # None /\ draft # None
         /\ draft \in Values /\ edits' = edits + 1
<1>1. /\ UNCHANGED <<card, srv, fand, others, trouble, req, pollTimer, last, pollFails, banner,
                     connErrorActive, worded, renamed>>
      /\ base # None /\ edits < MaxEdits /\ edits' = edits + 1
  BY DEF D!Edit, D!CanEdit, D!device, D!loop, D!notices
<1>2. CountsOk'
  BY <1>1, DashConstants DEF DashInv, CountsOk
<1>3. LoopOk' /\ NoticesOk'
  BY <1>1 DEF DashInv, LoopOk, NoticesOk
<1> QED
  BY <1>1, <1>2, <1>3 DEF DashInv, FormOk

LEMMA DashEdits ==
  ASSUME DashInv, NEW v \in Values,
         D!clickProfile(v) \/ D!stageFromSliders(v) \/ D!editNight(v) \/ D!press(v) \/ D!drag(v)
           \/ (v \in Presets /\ D!pickPreset(v))
  PROVE  DashInv'
<1>0. D!Edit /\ UNCHANGED D!notices /\ base' = base /\ draft' = v
  BY DEF D!clickProfile, D!stageFromSliders, D!editNight, D!press, D!drag, D!pickPreset, D!notices
<1>1. CountsOk' /\ LoopOk' /\ NoticesOk' /\ card' = card /\ base # None /\ v # None
  BY <1>0, EditLeaves, DashConstants
<1>2. CASE D!clickProfile(v)
  <2>1. puts' \in Seq(Changes)
    BY <1>2, SendKeeps DEF D!clickProfile, DashInv, PutsOk
  <2>2. FormOk' /\ PutsOk'
    BY <1>0, <1>1, <1>2, <2>1 DEF D!clickProfile, DashInv, FormOk, PutsOk
  <2> QED
    BY <1>1, <2>2 DEF DashInv
<1>3. CASE D!stageFromSliders(v) \/ D!editNight(v) \/ D!pickPreset(v)
  <2>1. blTimer' = blTimer /\ pending = None /\ pending' = None
    BY <1>3 DEF D!stageFromSliders, D!editNight, D!pickPreset, DashInv, FormOk
  <2>2. mode' \in {"preset", "custom"} /\ dirty' \in BOOLEAN
    BY <1>3 DEF D!stageFromSliders, D!editNight, D!pickPreset, DashInv, FormOk
  <2>3. FormOk'
    BY <1>0, <1>1, <2>1, <2>2 DEF DashInv, FormOk
  <2>4. UNCHANGED <<puts, abandoned>> \/ D!Retyped
    BY <1>3 DEF D!stageFromSliders, D!editNight, D!pickPreset
  <2>5. puts' \in Seq(Changes) /\ abandoned' \in BOOLEAN
    BY <2>4, RetypedKeeps DEF DashInv, PutsOk
  <2>6. PutsOk'
    BY <1>0, <1>1, <2>1, <2>5 DEF DashInv, PutsOk
  <2> QED
    BY <1>1, <2>3, <2>6 DEF DashInv
<1>4. CASE D!press(v)
  <2>1. puts' \in Seq(Changes)
    BY <1>4, SendKeeps DEF D!press, DashInv, PutsOk
  <2>2. FormOk' /\ PutsOk'
    BY <1>0, <1>1, <1>4, <2>1 DEF D!press, DashInv, FormOk, PutsOk
  <2> QED
    BY <1>1, <2>2 DEF DashInv
<1>5. CASE D!drag(v)
  <2>1. FormOk' /\ PutsOk'
    BY <1>0, <1>1, <1>5 DEF D!drag, DashInv, FormOk, PutsOk
  <2> QED
    BY <1>1, <2>1 DEF DashInv
<1> QED
  BY <1>2, <1>3, <1>4, <1>5

LEMMA DashButtons ==
  ASSUME DashInv, D!pickCustom \/ D!apply \/ D!revert
  PROVE  DashInv'
<1>0. D!Edit /\ UNCHANGED D!notices /\ base' = base
  BY DEF D!pickCustom, D!apply, D!revert, D!notices, D!form
<1>1. CountsOk' /\ LoopOk' /\ NoticesOk' /\ card' = card /\ base # None /\ draft \in Values
  BY <1>0, EditLeaves
<1>2. CASE D!pickCustom
  <2>1. FormOk' /\ PutsOk'
    BY <1>0, <1>1, <1>2 DEF D!pickCustom, DashInv, FormOk, PutsOk
  <2> QED
    BY <1>1, <2>1 DEF DashInv
<1>3. CASE D!apply
  <2>1. puts' \in Seq(Changes)
    BY <1>1, <1>3, SendKeeps DEF D!apply, DashInv, PutsOk
  <2>2. FormOk' /\ PutsOk'
    BY <1>0, <1>1, <1>3, <2>1 DEF D!apply, D!form, DashInv, FormOk, PutsOk
  <2> QED
    BY <1>1, <2>2 DEF DashInv
<1>4. CASE D!revert
  <2>1. FormOk'
    BY <1>0, <1>1, <1>4 DEF D!revert, DashInv, FormOk
  <2>2. (UNCHANGED <<puts, abandoned>> \/ D!Retyped) /\ blTimer' = blTimer
    BY <1>4 DEF D!revert
  <2>3. puts' \in Seq(Changes) /\ abandoned' \in BOOLEAN
    BY <2>2, RetypedKeeps DEF DashInv, PutsOk
  <2>4. PutsOk'
    BY <1>0, <1>1, <2>2, <2>3 DEF DashInv, PutsOk
  <2> QED
    BY <1>1, <2>1, <2>4 DEF DashInv
<1> QED
  BY <1>2, <1>3, <1>4

LEMMA DashHands ==
  ASSUME DashInv, D!blur \/ D!release \/ D!sendLive
  PROVE  DashInv'
<1>0. UNCHANGED <<card, srv, fand, edits, others, trouble, req, pollTimer, last, pollFails, banner,
                  connErrorActive, worded, renamed, base, draft, mode, pending, abandoned>>
  BY DEF D!blur, D!release, D!sendLive, D!device, D!count, D!loop, D!notices, D!form
<1>1. CountsOk' /\ LoopOk' /\ NoticesOk'
  BY <1>0 DEF DashInv, CountsOk, LoopOk, NoticesOk
<1>2. CASE D!blur
  <2>1. FormOk' /\ PutsOk'
    BY <1>0, <1>2 DEF D!blur, DashInv, FormOk, PutsOk
  <2> QED
    BY <1>1, <2>1 DEF DashInv
<1>3. CASE D!release
  <2>0. draft \in Values
    BY <1>3 DEF D!release, DashInv, FormOk
  <2>1. puts' \in Seq(Changes)
    BY <1>3, <2>0, SendKeeps DEF D!release, DashInv, PutsOk
  <2>2. FormOk' /\ PutsOk'
    BY <1>0, <1>3, <2>1 DEF D!release, DashInv, FormOk, PutsOk
  <2> QED
    BY <1>1, <2>2 DEF DashInv
<1>4. CASE D!sendLive
  <2>0. draft \in Values
    BY <1>4 DEF D!sendLive, DashInv, FormOk, PutsOk
  <2>1. puts' \in Seq(Changes)
    BY <1>4, <2>0, SendKeeps DEF D!sendLive, DashInv, PutsOk
  <2>2. FormOk' /\ PutsOk'
    BY <1>0, <1>4, <2>1 DEF D!sendLive, D!form, DashInv, FormOk, PutsOk
  <2> QED
    BY <1>1, <2>2 DEF DashInv
<1> QED
  BY <1>2, <1>3, <1>4

\* A change stored: the same changes, one of them done.
LEMMA StoreIs ==
  ASSUME DashInv, D!store
  PROVE  /\ puts' \in Seq(Changes) /\ Len(puts') = Len(puts) /\ srv' \in Values /\ puts # <<>>
         /\ \A i \in 1..Len(puts) : puts'[i].v = puts[i].v /\ puts'[i].kept = puts[i].kept
<1>1. PICK i \in DOMAIN puts : puts' = [puts EXCEPT ![i].done = TRUE] /\ srv' = puts[i].v
  BY DEF D!store
<1>2. puts \in Seq(Changes) /\ i \in 1..Len(puts) /\ puts[i] \in Changes
  BY LenProperties, ElementOfSeq DEF DashInv, PutsOk
<1> DEFINE p == [puts[i] EXCEPT !.done = TRUE]
<1>3. p \in Changes /\ p.v = puts[i].v /\ p.kept = puts[i].kept /\ puts[i].v \in Values
  BY <1>2 DEF Changes
<1>4. puts' = [puts EXCEPT ![i] = p]
  BY <1>1
<1> HIDE DEF p
<1>5. /\ [puts EXCEPT ![i] = p] \in Seq(Changes) /\ Len([puts EXCEPT ![i] = p]) = Len(puts)
      /\ \A j \in 1..Len(puts) : [puts EXCEPT ![i] = p][j] = IF j = i THEN p ELSE puts[j]
  BY <1>2, <1>3, ExceptSeq
<1>6. puts # <<>>
  BY <1>2, EmptySeq
<1> QED
  BY <1>1, <1>3, <1>4, <1>5, <1>6

LEMMA DashPuts ==
  ASSUME DashInv, D!store \/ D!putAnswered \/ D!putFails
  PROVE  DashInv'
<1>1. CASE D!store
  <2>1. UNCHANGED <<card, fand, edits, others, trouble, req, pollTimer, last, pollFails, banner,
                    connErrorActive, worded, renamed, base, draft, mode, dirty, pending, blTimer,
                    abandoned>>
    BY <1>1 DEF D!store, D!count, D!loop, D!notices, D!form
  <2>2. puts' \in Seq(Changes) /\ srv' \in Values /\ puts # <<>>
    BY <1>1, StoreIs
  <2>3. CountsOk' /\ LoopOk' /\ NoticesOk'
    BY <2>1, <2>2 DEF DashInv, CountsOk, LoopOk, NoticesOk
  <2>4. FormOk' /\ PutsOk'
    BY <2>1, <2>2 DEF DashInv, FormOk, PutsOk
  <2> QED
    BY <2>3, <2>4 DEF DashInv
<1>2. CASE D!putAnswered
  <2>1. /\ UNCHANGED <<card, srv, fand, edits, others, trouble, req, pollTimer, last, pollFails,
                       draft, pending, blTimer>>
        /\ puts # <<>> /\ puts' = Tail(puts)
        /\ base' = IF card \in {"limits", "night"} THEN puts[1].v ELSE base
        /\ mode' = IF card = "limits" THEN IF puts[1].v \in Presets THEN "preset" ELSE "custom" ELSE mode
        /\ dirty' = (dirty /\ card # "night")
        /\ abandoned' = (abandoned \/ (card = "night" /\ ~(dirty /\ puts[1].kept)))
        /\ IF card \in {"profile", "night", "chips"} THEN D!notice("none") ELSE UNCHANGED D!notices
    BY <1>2 DEF D!putAnswered, D!device, D!count, D!loop
  <2>2. puts \in Seq(Changes) /\ puts' \in Seq(Changes) /\ puts[1] \in Changes
    BY <2>1, HeadTailProperties, EmptySeq, ElementOfSeq DEF DashInv, PutsOk
  <2>3. puts[1].v \in Values
    BY <2>2 DEF Changes
  <2>4. CountsOk' /\ LoopOk'
    BY <2>1 DEF DashInv, CountsOk, LoopOk
  <2>5. NoticesOk'
    BY <2>1 DEF DashInv, NoticesOk, D!notice, D!says, D!notices
  <2>6. base # None /\ draft # None
    BY <2>1, <1>2 DEF DashInv, FormOk, PutsOk
  <2>7. FormOk' /\ PutsOk'
    BY <2>1, <2>2, <2>3, <2>6, DashConstants DEF DashInv, FormOk, PutsOk
  <2> QED
    BY <2>4, <2>5, <2>7 DEF DashInv
<1>3. CASE D!putFails
  <2>1. /\ UNCHANGED <<card, srv, fand, edits, others, req, pollTimer, last, pollFails, base, draft,
                       mode, dirty, blTimer, abandoned>>
        /\ puts # <<>> /\ puts' = Tail(puts) /\ trouble < MaxMisses /\ trouble' = trouble + 1
        /\ pending' = None /\ D!notice("error")
    BY <1>3 DEF D!putFails, D!device, D!loop
  <2>2. puts' \in Seq(Changes)
    BY <2>1, HeadTailProperties DEF DashInv, PutsOk
  <2>3. CountsOk' /\ LoopOk'
    BY <2>1, DashConstants DEF DashInv, CountsOk, LoopOk
  <2>4. NoticesOk'
    BY <2>1 DEF NoticesOk, D!notice, D!says
  <2>5. FormOk' /\ PutsOk'
    BY <2>1, <2>2 DEF DashInv, FormOk, PutsOk
  <2> QED
    BY <2>3, <2>4, <2>5 DEF DashInv
<1> QED
  BY <1>1, <1>2, <1>3

LEMMA DashElse ==
  ASSUME DashInv, D!ElsewhereChanged \/ UNCHANGED D!vars
  PROVE  DashInv'
<1>1. CASE D!ElsewhereChanged
  <2>1. UNCHANGED <<card, edits, trouble, req, pollTimer, last, pollFails, banner, abandoned,
                    connErrorActive, worded, renamed, puts, base, draft, mode, dirty, pending, blTimer>>
    BY <1>1 DEF D!ElsewhereChanged, D!loop, D!notices, D!form
  <2>4. others < MaxOthers /\ others' = others + 1
    BY <1>1 DEF D!ElsewhereChanged
  <2>5. srv' \in Values /\ fand' \in BOOLEAN
    BY <1>1 DEF D!ElsewhereChanged, DashInv, CountsOk
  <2>2. CountsOk'
    BY <2>1, <2>4, <2>5, DashConstants DEF DashInv, CountsOk
  <2>3. LoopOk' /\ NoticesOk' /\ FormOk' /\ PutsOk'
    BY <2>1 DEF DashInv, LoopOk, NoticesOk, FormOk, PutsOk
  <2> QED
    BY <2>2, <2>3 DEF DashInv
<1>2. CASE UNCHANGED D!vars
  <2>1. UNCHANGED <<card, srv, fand, edits, others, trouble, req, pollTimer, last, pollFails, banner,
                    connErrorActive, worded, renamed, puts, base, draft, mode, dirty, pending, blTimer,
                    abandoned>>
    BY <1>2 DEF D!vars, D!device, D!count, D!loop, D!notices, D!form
  <2> QED
    BY <2>1 DEF DashInv, CountsOk, LoopOk, NoticesOk, FormOk, PutsOk
<1> QED
  BY <1>1, <1>2

LEMMA DashKeeps ==
  ASSUME DashInv, [D!Next]_(D!vars)
  PROVE  DashInv'
<1>1. CASE D!pollLoop \/ D!Read \/ D!Missed
  BY <1>1, DashLoop
<1>2. CASE D!Answered \/ D!applyPreferences
  BY <1>2, DashAnswered, DashPreferences
<1>3. CASE \E v \in Values : D!clickProfile(v) \/ D!stageFromSliders(v) \/ D!editNight(v)
                                \/ D!press(v) \/ D!drag(v)
  BY <1>3, DashEdits
<1>4. CASE \E v \in Presets : D!pickPreset(v)
  BY <1>4, DashEdits, DashConstants
<1>5. CASE D!pickCustom \/ D!apply \/ D!revert \/ D!blur \/ D!release \/ D!sendLive
  BY <1>5, DashButtons, DashHands
<1>6. CASE D!store \/ D!putAnswered \/ D!putFails
  BY <1>6, DashPuts
<1>7. CASE D!ElsewhereChanged \/ UNCHANGED D!vars
  BY <1>7, DashElse
<1> QED
  BY <1>1, <1>2, <1>3, <1>4, <1>5, <1>6, <1>7 DEF D!Next

LEMMA DashSays == DashInv => D!FormSound
BY DEF DashInv, CountsOk, LoopOk, NoticesOk, FormOk, PutsOk, D!FormSound, D!TypeOK

\* The night schedule: what differs from the device's was edited here, or was left behind by
\* the answer to an Apply; and what an Apply that is out has sent is what is shown, unless the
\* fields were edited since.
NightOk ==
  card = "night" =>
    /\ dirty \/ abandoned \/ draft = base
    /\ dirty /\ ~abandoned => \A i \in 1..Len(puts) : puts[i].kept => puts[i].v = draft

LEMMA NightBegins == D!Init => NightOk
BY DEF D!Init, NightOk

LEMMA NightStays ==
  ASSUME NightOk, UNCHANGED <<card, draft, base, puts, dirty, abandoned>>
  PROVE  NightOk'
BY DEF NightOk

LEMMA NightRendered ==
  ASSUME DashInv, NightOk, NEW v \in Values, D!renderAll(v), UNCHANGED <<card, puts, abandoned>>
  PROVE  /\ NightOk'
         /\ card \in {"limits", "night"} /\ base # None /\ draft # base => draft' = draft \/ abandoned
<1>1. base' = v
  BY DEF D!renderAll
<1>2. CASE card = "night"
  <2>1. D!renderEdited(v)
    BY <1>2 DEF D!renderAll
  <2>2. dirty' = dirty /\ draft' = IF dirty THEN draft ELSE v
    BY <2>1 DEF D!renderEdited
  <2> QED
    BY <1>1, <1>2, <2>2 DEF NightOk
<1>3. CASE card = "limits"
  <2>1. draft' = IF mode = "preset" /\ draft \in {None, v} THEN v ELSE draft
    BY <1>3 DEF D!renderAll, D!renderBattery
  <2>2. base # None => draft # None
    BY DEF DashInv, FormOk
  <2> QED
    BY <1>3, <2>1, <2>2 DEF NightOk
<1>4. CASE card \notin {"night", "limits"}
  BY <1>4 DEF NightOk
<1> QED
  BY <1>2, <1>3, <1>4

\* What was staged and not applied stays, and so does the schedule's order.
Stays == NightOk' /\ D!EditsSurvive

LEMMA QuietNight ==
  ASSUME NightOk, UNCHANGED <<card, draft, base, puts, dirty, abandoned>>
  PROVE  Stays
BY NightStays DEF Stays, D!EditsSurvive

LEMMA NightLoop ==
  ASSUME DashInv, NightOk,
         D!pollLoop \/ D!Read \/ D!Missed \/ D!ElsewhereChanged \/ UNCHANGED D!vars
  PROVE  Stays
<1>1. UNCHANGED <<card, draft, base, puts, dirty, abandoned>>
  BY DEF D!pollLoop, D!Read, D!Missed, D!ElsewhereChanged, D!vars, D!form
<1> QED
  BY <1>1, QuietNight

LEMMA NightAnswered ==
  ASSUME DashInv, NightOk, D!Answered \/ D!applyPreferences
  PROVE  Stays
<1>1. UNCHANGED <<card, puts, abandoned>>
  BY DEF D!Answered, D!applyPreferences
<1>2. CASE D!Answered
  <2>1. req # None /\ req.says # None /\ D!renderAll(req.says.v)
    BY <1>2 DEF D!Answered
  <2>2. req.says.v \in Values
    BY <2>1 DEF DashInv, LoopOk, Requests, Answers
  <2> QED
    BY <1>1, <2>1, <2>2, NightRendered DEF Stays, D!EditsSurvive
<1>3. CASE D!applyPreferences /\ last # None
  <2>1. D!renderAll(last.v)
    BY <1>3 DEF D!applyPreferences
  <2>2. last.v \in Values
    BY <1>3 DEF DashInv, LoopOk, Answers
  <2> QED
    BY <1>1, <2>1, <2>2, NightRendered DEF Stays, D!EditsSurvive
<1>4. CASE D!applyPreferences /\ last = None
  <2>1. UNCHANGED <<draft, base, dirty>>
    BY <1>4 DEF D!applyPreferences, D!form
  <2> QED
    BY <1>1, <2>1, QuietNight
<1> QED
  BY <1>2, <1>3, <1>4

LEMMA NightEdits ==
  ASSUME DashInv, NightOk,
         \/ \E v \in Values : D!clickProfile(v) \/ D!stageFromSliders(v) \/ D!editNight(v)
                                \/ D!press(v) \/ D!drag(v)
         \/ \E v \in Presets : D!pickPreset(v)
         \/ D!pickCustom \/ D!apply \/ D!revert
  PROVE  Stays
<1>1. D!Edit /\ base' = base
  BY DEF D!clickProfile, D!stageFromSliders, D!editNight, D!press, D!drag, D!pickPreset,
         D!pickCustom, D!apply, D!revert, D!form
<1>2. edits' = edits + 1 /\ edits \in Nat /\ card' = card
  BY <1>1 DEF D!Edit, DashInv, CountsOk
<1>3. D!EditsSurvive
  BY <1>2 DEF D!EditsSurvive
<1>4. CASE card # "night"
  BY <1>2, <1>3, <1>4 DEF Stays, NightOk
<1>5. CASE card = "night"
  <2>0. puts \in Seq(Changes)
    BY DEF DashInv, PutsOk
  <2>1. ASSUME D!Retyped PROVE ~abandoned' /\ \A i \in 1..Len(puts') : ~puts'[i].kept
    BY <2>0, <2>1, RetypedKeeps
  <2>2. CASE \E v \in Values : D!editNight(v)
    <3>1. D!Retyped /\ dirty'
      BY <2>2 DEF D!editNight
    <3> QED
      BY <1>3, <2>1, <3>1 DEF Stays, NightOk
  <2>3. CASE D!apply
    <3>1. D!send(draft) /\ UNCHANGED <<draft, base, dirty, abandoned>>
      BY <2>3 DEF D!apply, D!form
    <3>2. puts' = Append(puts, [v |-> draft, done |-> FALSE, kept |-> TRUE])
      BY <3>1 DEF D!send
    <3>3. \A i \in 1..Len(puts') : puts'[i].v = draft \/ (i \in 1..Len(puts) /\ puts'[i] = puts[i])
      BY <2>0, <3>2
    <3> QED
      BY <1>2, <1>3, <1>5, <3>1, <3>3 DEF Stays, NightOk
  <2>4. CASE D!revert
    <3>1. D!Retyped /\ draft' = base' /\ ~dirty'
      BY <1>1, <1>5, <2>4 DEF D!revert
    <3> QED
      BY <1>3, <3>1 DEF Stays, NightOk
  <2>5. \/ \E v \in Values : D!editNight(v)
        \/ D!apply \/ D!revert
    BY <1>5 DEF D!clickProfile, D!stageFromSliders, D!press, D!drag, D!pickPreset, D!pickCustom
  <2> QED
    BY <2>2, <2>3, <2>4, <2>5
<1> QED
  BY <1>4, <1>5

LEMMA NightHands ==
  ASSUME DashInv, NightOk, D!blur \/ D!release \/ D!sendLive
  PROVE  Stays
<1>1. UNCHANGED <<card, draft, base>>
  BY DEF D!blur, D!release, D!sendLive, D!form
<1>2. card # "night"
  BY DEF D!blur, D!release, D!sendLive, DashInv, PutsOk
<1>3. D!EditsSurvive
  BY <1>1 DEF D!EditsSurvive
<1> QED
  BY <1>1, <1>2, <1>3 DEF Stays, NightOk

LEMMA NightPuts ==
  ASSUME DashInv, NightOk, D!store \/ D!putAnswered \/ D!putFails
  PROVE  Stays
<1>0. card' = card /\ draft' = draft
  BY DEF D!store, D!putAnswered, D!putFails, D!form
<1>1. D!EditsSurvive
  BY <1>0 DEF D!EditsSurvive
<1>2. puts \in Seq(Changes)
  BY DEF DashInv, PutsOk
<1>3. CASE D!store
  <2>1. UNCHANGED <<base, dirty, abandoned>>
    BY <1>3 DEF D!store, D!form
  <2>2. /\ puts' \in Seq(Changes) /\ Len(puts') = Len(puts) /\ puts # <<>>
        /\ \A i \in 1..Len(puts) : puts'[i].v = puts[i].v /\ puts'[i].kept = puts[i].kept
    BY <1>3, StoreIs
  <2> QED
    BY <1>0, <1>1, <2>1, <2>2 DEF Stays, NightOk
<1>4. CASE D!putAnswered \/ D!putFails
  <2>1. puts # <<>> /\ puts' = Tail(puts)
    BY <1>4 DEF D!putAnswered, D!putFails
  <2>2. Len(puts') = Len(puts) - 1 /\ Len(puts) \in Nat \ {0}
    BY <1>2, <2>1, HeadTailProperties, EmptySeq
  <2>3. \A i \in 1..Len(puts') : i + 1 \in 1..Len(puts) /\ puts'[i] = puts[i + 1]
    BY <1>2, <2>1, <2>2, HeadTailProperties
  <2>4. CASE D!putAnswered
    <3>1. card = "night" => /\ base' = puts[1].v /\ ~dirty'
                            /\ abandoned' = (abandoned \/ ~(dirty /\ puts[1].kept))
      BY <2>4 DEF D!putAnswered
    <3>2. 1 \in 1..Len(puts)
      BY <2>2
    <3> QED
      BY <1>0, <1>1, <3>1, <3>2 DEF Stays, NightOk
  <2>5. CASE D!putFails
    <3>1. UNCHANGED <<base, dirty, abandoned>>
      BY <2>5 DEF D!putFails
    <3> QED
      BY <1>0, <1>1, <2>3, <3>1 DEF Stays, NightOk
  <2> QED
    BY <1>4, <2>4, <2>5
<1> QED
  BY <1>3, <1>4

LEMMA NightKeeps ==
  ASSUME DashInv, NightOk, [D!Next]_(D!vars)
  PROVE  Stays
<1>1. CASE D!pollLoop \/ D!Read \/ D!Missed \/ D!ElsewhereChanged \/ UNCHANGED D!vars
  BY <1>1, NightLoop
<1>2. CASE D!Answered \/ D!applyPreferences
  BY <1>2, NightAnswered
<1>3. CASE \/ \E v \in Values : D!clickProfile(v) \/ D!stageFromSliders(v) \/ D!editNight(v)
                                  \/ D!press(v) \/ D!drag(v)
           \/ \E v \in Presets : D!pickPreset(v)
           \/ D!pickCustom \/ D!apply \/ D!revert
  BY <1>3, NightEdits
<1>4. CASE D!blur \/ D!release \/ D!sendLive
  BY <1>4, NightHands
<1>5. CASE D!store \/ D!putAnswered \/ D!putFails
  BY <1>5, NightPuts
<1> QED
  BY <1>1, <1>2, <1>3, <1>4, <1>5 DEF D!Next

-----------------------------------------------------------------------------
\* The repair of the drivers (Health).

\* A look that has seen the run begun last, and says that it is over, says how it ended;
\* the others are of a run before it.
Look(a) == [id |-> a.id, says |-> a.says]
Begun == IF unit = "queued" THEN run - 1 ELSE run
HealthOk ==
  /\ unit \in {"dead", "queued", "running"} /\ run \in Int
  /\ \A a \in asked : a = Look(a)
  /\ \A a \in asked : a.says # None => a.says.of \in Int /\ a.says.of <= Begun
  /\ \A a \in asked : a.says # None /\ ~a.says.running =>
       a.says.of < run \/ (unit = "dead" /\ a.says.last = ended)

LEMMA HealthBegins == H!Init => HealthOk
BY DEF H!Init, HealthOk

\* One more request, not yet read.
LEMMA AskKeeps ==
  ASSUME HealthOk, H!Ask, UNCHANGED <<unit, ended, run>>
  PROVE  HealthOk'
<1>1. CASE asked' = asked
  BY <1>1 DEF HealthOk, Begun
<1>2. CASE asked' # asked
  <2>1. PICK i : asked' = asked \cup {[id |-> i, says |-> None]}
    BY <1>2 DEF H!Ask
  <2> DEFINE a == [id |-> i, says |-> None]
  <2>2. asked' = asked \cup {a} /\ a = Look(a) /\ a.says = None
    BY <2>1 DEF Look
  <2> HIDE DEF a
  <2> QED
    BY <2>2 DEF HealthOk, Begun
<1> QED
  BY <1>1, <1>2

LEMMA HealthKeeps ==
  ASSUME HealthOk, [H!Next]_(H!vars)
  PROVE  HealthOk' /\ H!SaidAsItEnded
<1>1. CASE H!maybeLoadSystem \/ H!TimerDue \/ H!KickDue \/ H!Refused
  <2>1. H!Ask /\ UNCHANGED <<unit, ended, run, told, toldOf>>
    BY <1>1 DEF H!maybeLoadSystem, H!TimerDue, H!KickDue, H!Refused
  <2> QED
    BY <2>1, AskKeeps DEF H!SaidAsItEnded
<1>2. CASE H!Read
  <2> DEFINE h == [running |-> unit = "running", last |-> ended, bad |-> ended # "ok",
                   of |-> IF unit = "queued" THEN run - 1 ELSE run]
  <2>1. PICK a \in asked : asked' = (asked \ {a}) \cup {[a EXCEPT !.says = h]}
    BY <1>2 DEF H!Read
  <2>2. UNCHANGED <<unit, ended, run, told, toldOf>>
    BY <1>2 DEF H!Read
  <2> DEFINE b == [a EXCEPT !.says = h]
  <2>3. h.running = (unit = "running") /\ h.last = ended /\ h.of = Begun
    BY DEF Begun
  <2>4. asked' = (asked \ {a}) \cup {b}
    BY <2>1
  <2> HIDE DEF h
  <2>5. a = Look(a)
    BY DEF HealthOk
  <2>6. b = Look(b) /\ b.says = h
    BY <2>5 DEF Look
  <2> HIDE DEF b
  <2>7. Begun \in Int /\ (unit = "queued" => Begun < run)
    BY DEF HealthOk, Begun
  <2>8. b.says # None => b.says.of \in Int /\ b.says.of <= Begun
    BY <2>3, <2>6, <2>7
  <2>9. b.says # None /\ ~b.says.running => b.says.of < run \/ (unit = "dead" /\ b.says.last = ended)
    BY <2>3, <2>6, <2>7 DEF HealthOk
  <2>10. Begun' = Begun
    BY <2>2 DEF Begun
  <2> QED
    BY <2>2, <2>4, <2>6, <2>8, <2>9, <2>10 DEF HealthOk, H!SaidAsItEnded
<1>3. CASE H!loadHealth
  <2>1. PICK a \in asked :
          /\ a.says # None /\ asked' = asked \ {a} /\ H!spoken(a.says)
    BY <1>3 DEF H!loadHealth
  <2>2. UNCHANGED <<unit, ended, run>>
    BY <1>3 DEF H!loadHealth
  <2>3. a \in asked \ asked'
    BY <2>1
  <2>4. ~a.says.running => a.says.of < run \/ (unit = "dead" /\ a.says.last = ended)
    BY <2>1 DEF HealthOk
  <2>5. H!SaidAsItEnded
    BY <2>1, <2>3, <2>4 DEF H!SaidAsItEnded, H!spoken
  <2> QED
    BY <2>1, <2>2, <2>5 DEF HealthOk, Begun
<1>4. CASE H!HealthFails
  <2>1. asked' \subseteq asked /\ UNCHANGED <<unit, ended, run, told, toldOf>>
    BY <1>4 DEF H!HealthFails
  <2> QED
    BY <2>1 DEF HealthOk, H!SaidAsItEnded, Begun
<1>5. CASE H!click \/ H!Accepted \/ UNCHANGED H!vars
  <2>1. UNCHANGED <<unit, ended, run, asked, told, toldOf>>
    BY <1>5 DEF H!click, H!Accepted, H!vars
  <2> QED
    BY <2>1 DEF HealthOk, H!SaidAsItEnded, Begun
<1>6. CASE H!Queue \/ H!Begin \/ H!End
  <2>0. UNCHANGED <<asked, told, toldOf>>
    BY <1>6 DEF H!Queue, H!Begin, H!End
  <2>1. H!SaidAsItEnded
    BY <2>0 DEF H!SaidAsItEnded
  <2>2. CASE H!Queue /\ unit = "dead"
    <3>1. unit' = "queued" /\ run' = run + 1
      BY <2>2 DEF H!Queue
    <3> QED
      BY <2>0, <2>1, <2>2, <3>1 DEF HealthOk, Begun
  <2>3. CASE H!Queue /\ unit # "dead"
    <3>1. UNCHANGED <<unit, run, ended>>
      BY <2>3 DEF H!Queue
    <3> QED
      BY <2>0, <2>1, <3>1 DEF HealthOk, Begun
  <2>4. CASE H!Begin
    <3>1. unit = "queued" /\ unit' = "running" /\ UNCHANGED <<run, ended>>
      BY <2>4 DEF H!Begin
    <3> QED
      BY <2>0, <2>1, <3>1 DEF HealthOk, Begun
  <2>5. CASE H!End
    <3>1. unit = "running" /\ unit' = "dead" /\ run' = run
      BY <2>5 DEF H!End
    <3> QED
      BY <2>0, <2>1, <3>1 DEF HealthOk, Begun
  <2> QED
    BY <1>6, <2>2, <2>3, <2>4, <2>5
<1> QED
  BY <1>1, <1>2, <1>3, <1>4, <1>5, <1>6 DEF H!Next

-----------------------------------------------------------------------------
\* The panel's page (WebUi).

Units == {"idle", "running", "ok", "failed"}
Modals == {None, "off", "restart", "repair"}

BackendOk ==
  /\ on \in BOOLEAN /\ set \in Settings /\ unit \in Units /\ trouble \in 0..MaxTrouble
ShownOk ==
  /\ sw \in BOOLEAN /\ swDisabled \in BOOLEAN /\ repairDisabled \in BOOLEAN
  /\ sel \in Settings \cup {None}
StateSays(s) == s = None \/ (s.on \in BOOLEAN /\ s.set \in Settings)
AudioSays(s) == s = None \/ s.audio \in Units
LoadOk(l) ==
  /\ l = [id |-> l.id, step |-> l.step, says |-> l.says] /\ l.id \in 1..MaxLoads
  /\ \/ l.step = "status" /\ StateSays(l.says)
     \/ l.step = "audio" /\ AudioSays(l.says)
AnswersOk ==
  /\ StateSays(status) /\ audio \in Units \cup {None}
  /\ \A l \in loads : LoadOk(l)
AskedOk == focus \in BOOLEAN /\ modal \in Modals
ChangeOk(p) ==
  /\ p = [what |-> p.what, v |-> p.v, done |-> p.done] /\ p.done \in BOOLEAN
  /\ p.what = "set" => p.v \in Settings
ChangesOk == \A p \in puts : ChangeOk(p)
\* A repair is of its own question, and is asked after once it was started.
RepairOk(r) ==
  /\ r = [id |-> r.id, step |-> r.step, says |-> r.says] /\ r.id \in Nat
  /\ r.says \in {None, "running", "ok", "failed"}
  /\ r.step # "post" => unit # "idle"
  /\ r.id > plan.repair \/ (r.id = plan.repair /\ modal # "repair")
RepairsOk ==
  /\ IsFiniteSet(repairs) /\ \A r \in repairs : RepairOk(r)
  /\ \A r1, r2 \in repairs : r1.id = r2.id => r1 = r2
  /\ repairing \in BOOLEAN /\ told \in {"nothing", "repaired", "failed"}
PlanOk == plan \in [panel : Nat, restart : Nat, repair : Nat, list : Nat]
WebInv ==
  BackendOk /\ ShownOk /\ AnswersOk /\ AskedOk /\ ChangesOk /\ RepairsOk /\ PlanOk

LEMMA WebConstants ==
  /\ MaxLoads \in Nat \ {0} /\ MaxTrouble \in Nat /\ First \in Settings
  /\ Plans \subseteq [panel : Nat, restart : Nat, repair : Nat, list : Nat]
  /\ None \notin Settings \cup {"off", "restart", "repair"}
BY ConsolesParameters DEF W!WebUiAssumption

LEMMA SameCount == \A s : W!Cardinality(s) = Cardinality(s)
<1> SUFFICES ASSUME NEW s PROVE W!Cardinality(s) = Cardinality(s)
  OBVIOUS
<1> QED
  BY DEF W!Cardinality, Cardinality

LEMMA WebBegins == W!Init => WebInv
<1> SUFFICES ASSUME W!Init PROVE WebInv
  OBVIOUS
<1>4. BackendOk /\ PlanOk
  BY WebConstants DEF W!Init, BackendOk, PlanOk, Units
<1>5. ShownOk /\ AskedOk
  BY DEF W!Init, ShownOk, AskedOk, Modals
<1>6. ChangesOk
  BY DEF W!Init, ChangesOk
<1>1. BackendOk /\ ShownOk /\ AskedOk /\ ChangesOk /\ PlanOk
  BY <1>4, <1>5, <1>6
<1>2. AnswersOk
  <2> DEFINE l == [id |-> 1, step |-> "status", says |-> None]
  <2>1. loads = {l} /\ status = None /\ audio = None
    BY DEF W!Init
  <2>2. l.id = 1 /\ l.step = "status" /\ l.says = None
    OBVIOUS
  <2>3. LoadOk(l)
    BY <2>2, WebConstants DEF LoadOk, StateSays
  <2> HIDE DEF l
  <2> QED
    BY <2>1, <2>3 DEF AnswersOk, StateSays
<1>3. RepairsOk
  BY FS_EmptySet DEF W!Init, RepairsOk
<1> QED
  BY <1>1, <1>2, <1>3 DEF WebInv

\* The step that load() begins.
LEMMA LoadingOk ==
  ASSUME \A l \in loads : LoadOk(l), W!load
  PROVE  \A l \in loads' : LoadOk(l)
<1>1. CASE W!FreeLoads = {}
  BY <1>1 DEF W!load, W!Loading
<1>2. CASE W!FreeLoads # {}
  <2>1. PICK i \in W!FreeLoads : i = CHOOSE j \in W!FreeLoads : TRUE
    BY <1>2
  <2> DEFINE n == [id |-> i, step |-> "status", says |-> None]
  <2>2. loads' = loads \cup {n}
    BY <1>2, <2>1 DEF W!load, W!Loading
  <2>3. i \in 1..MaxLoads
    BY DEF W!FreeLoads
  <2>4. n = [id |-> n.id, step |-> n.step, says |-> n.says] /\ n.id = i /\ n.step = "status" /\ n.says = None
    OBVIOUS
  <2>5. LoadOk(n)
    BY <2>3, <2>4 DEF LoadOk, StateSays
  <2> HIDE DEF n
  <2> QED
    BY <2>2, <2>5
<1> QED
  BY <1>1, <1>2

\* What no step of these parts may do, and that they are kept.
WebStep == WebInv' /\ W!OffIsConfirmed /\ W!RepairedIsTrue

LEMMA NothingAsked ==
  ASSUME \A p \in puts' \ puts : p.what = "off" => p.done
  PROVE  W!OffIsConfirmed
BY DEF W!OffIsConfirmed

LEMMA NoneFewer ==
  ASSUME WebInv, IsFiniteSet(repairs'), Cardinality(repairs') >= Cardinality(repairs)
  PROVE  W!RepairedIsTrue
<1>1. Cardinality(repairs) \in Nat /\ Cardinality(repairs') \in Nat
  BY FS_CardinalityType DEF WebInv, RepairsOk
<1>2. W!Cardinality(repairs') = Cardinality(repairs') /\ W!Cardinality(repairs) = Cardinality(repairs)
  BY SameCount
<1>3. ~(W!Cardinality(repairs') < W!Cardinality(repairs))
  BY <1>1, <1>2
<1> QED
  BY <1>3 DEF W!RepairedIsTrue

LEMMA RepairsStay ==
  ASSUME WebInv, UNCHANGED <<repairs, repairing, told, unit, plan>>, modal' = modal \/ modal' # "repair"
  PROVE  RepairsOk' /\ W!RepairedIsTrue
<1>1. \A r \in repairs : RepairOk(r) => RepairOk(r)'
  BY DEF RepairOk
<1>2. RepairsOk'
  BY <1>1 DEF WebInv, RepairsOk
<1>3. Cardinality(repairs) \in Nat /\ repairs' = repairs
  BY FS_CardinalityType DEF WebInv, RepairsOk
<1>4. Cardinality(repairs') >= Cardinality(repairs)
  BY <1>3
<1> QED
  BY <1>2, <1>4, NoneFewer DEF RepairsOk

\* The loads.
LEMMA WebLoads ==
  ASSUME WebInv, W!Read \/ W!StatusAnswered \/ W!Interval
  PROVE  WebStep
<1>0. /\ UNCHANGED <<plan, on, set, unit, trouble, audio, sw, swDisabled, sel, repairDisabled, modal,
                     focus, puts, repairing, repairs, told>>
  BY DEF W!Read, W!StatusAnswered, W!Interval, W!backend, W!shown, W!asked, W!answers
<1>1. RepairsOk' /\ W!RepairedIsTrue
  BY <1>0, RepairsStay
<1>2. BackendOk' /\ ShownOk' /\ AskedOk' /\ ChangesOk' /\ PlanOk' /\ W!OffIsConfirmed
  BY <1>0, NothingAsked DEF WebInv, BackendOk, ShownOk, AskedOk, ChangesOk, PlanOk
<1>3. CASE W!Read
  <2>1. PICK l \in loads :
          /\ l.says = None
          /\ loads' = (loads \ {l}) \cup
              {[l EXCEPT !.says = IF l.step = "status" THEN [on |-> on, set |-> set, audio |-> None]
                                         ELSE [on |-> None, set |-> None, audio |-> unit]]}
    BY <1>3 DEF W!Read
  <2> DEFINE s == IF l.step = "status" THEN [on |-> on, set |-> set, audio |-> None]
                                       ELSE [on |-> None, set |-> None, audio |-> unit]
             n == [l EXCEPT !.says = s]
  <2>2. loads' = (loads \ {l}) \cup {n}
    BY <2>1
  <2>3. (l.step = "status" => s.on = on /\ s.set = set) /\ (l.step # "status" => s.audio = unit)
    OBVIOUS
  <2>4. LoadOk(l)
    BY DEF WebInv, AnswersOk
  <2> HIDE DEF s
  <2>5. n = [id |-> l.id, step |-> l.step, says |-> s]
    BY <2>4 DEF LoadOk
  <2> HIDE DEF n
  <2>6. LoadOk(n)
    BY <2>3, <2>4, <2>5 DEF LoadOk, StateSays, AudioSays, WebInv, BackendOk
  <2>7. status' = status
    BY <1>3 DEF W!Read, W!answers
  <2>8. AnswersOk'
    BY <1>0, <2>2, <2>6, <2>7 DEF WebInv, AnswersOk, StateSays
  <2> QED
    BY <1>1, <1>2, <2>8 DEF WebInv, WebStep
<1>4. CASE W!StatusAnswered
  <2>1. PICK l \in loads :
          /\ l.step = "status" /\ l.says # None /\ status' = l.says
          /\ loads' = (loads \ {l}) \cup {[id |-> l.id, step |-> "audio", says |-> None]}
    BY <1>4 DEF W!StatusAnswered
  <2> DEFINE n == [id |-> l.id, step |-> "audio", says |-> None]
  <2>2. loads' = (loads \ {l}) \cup {n}
    BY <2>1
  <2>4. LoadOk(l)
    BY DEF WebInv, AnswersOk
  <2>5. n = [id |-> l.id, step |-> "audio", says |-> None]
    OBVIOUS
  <2> HIDE DEF n
  <2>6. LoadOk(n)
    BY <2>4, <2>5 DEF LoadOk, AudioSays
  <2>7. StateSays(status')
    BY <2>1, <2>4 DEF LoadOk
  <2>8. AnswersOk'
    BY <1>0, <2>2, <2>6, <2>7 DEF WebInv, AnswersOk, StateSays
  <2> QED
    BY <1>1, <1>2, <2>8 DEF WebInv, WebStep
<1>5. CASE W!Interval
  <2>1. W!load /\ status' = status
    BY <1>5 DEF W!Interval, W!answers
  <2>2. \A l \in loads' : LoadOk(l)
    BY <2>1, LoadingOk DEF WebInv, AnswersOk
  <2>3. AnswersOk'
    BY <1>0, <2>1, <2>2 DEF WebInv, AnswersOk, StateSays
  <2> QED
    BY <1>1, <1>2, <2>3 DEF WebInv, WebStep
<1> QED
  BY <1>3, <1>4, <1>5

\* What is painted.
LEMMA RenderKeeps ==
  ASSUME ShownOk, NEW s, StateSays(s), NEW a, NEW b \in BOOLEAN, W!render(s, a, b)
  PROVE  ShownOk'
<1>1. CASE s = None
  BY <1>1 DEF W!render, W!shown, ShownOk
<1>2. CASE s # None
  <2>1. s.on \in BOOLEAN /\ s.set \in Settings
    BY <1>2 DEF StateSays
  <2>2. /\ sw' = s.on /\ swDisabled' = FALSE /\ sel' = IF focus THEN sel ELSE s.set
        /\ repairDisabled' = IF a = None THEN repairDisabled ELSE b \/ a = "running"
    BY <1>2 DEF W!render, W!renderAudio
  <2>3. repairDisabled' \in BOOLEAN
    BY <2>2 DEF ShownOk
  <2> QED
    BY <2>1, <2>2, <2>3 DEF ShownOk
<1> QED
  BY <1>1, <1>2

LEMMA WebPainted ==
  ASSUME WebInv, W!AudioAnswered \/ W!LoadFails
  PROVE  WebStep
<1>0. UNCHANGED <<plan, on, set, unit, modal, focus, puts, repairing, repairs, told>>
  BY DEF W!AudioAnswered, W!LoadFails, W!backend, W!asked
<1>1. RepairsOk' /\ W!RepairedIsTrue
  BY <1>0, RepairsStay
<1>2. AskedOk' /\ ChangesOk' /\ PlanOk' /\ W!OffIsConfirmed
  BY <1>0, NothingAsked DEF WebInv, AskedOk, ChangesOk, PlanOk
<1>4. repairing \in BOOLEAN /\ ShownOk /\ StateSays(status)
  BY DEF WebInv, RepairsOk, AnswersOk
<1>5. CASE W!AudioAnswered
  <2>1. PICK l \in loads :
          /\ l.step = "audio" /\ l.says # None /\ audio' = l.says.audio /\ loads' = loads \ {l}
          /\ status' = status /\ W!render(status, audio', repairing) /\ trouble' = trouble
    BY <1>5 DEF W!AudioAnswered
  <2>2. LoadOk(l)
    BY DEF WebInv, AnswersOk
  <2>3. audio' \in Units
    BY <2>1, <2>2 DEF LoadOk, AudioSays
  <2>4. AnswersOk'
    BY <2>1, <2>3 DEF WebInv, AnswersOk, StateSays
  <2>5. ShownOk'
    BY <1>4, <2>1, RenderKeeps
  <2>6. BackendOk'
    BY <1>0, <2>1 DEF WebInv, BackendOk
  <2> QED
    BY <1>1, <1>2, <2>4, <2>5, <2>6 DEF WebInv, WebStep
<1>6. CASE W!LoadFails
  <2>1. PICK l \in loads :
          /\ trouble < MaxTrouble /\ trouble' = trouble + 1
          /\ IF l.step = "status"
             THEN /\ status' = None /\ UNCHANGED <<audio, W!shown>>
                  /\ loads' = (loads \ {l}) \cup {[id |-> l.id, step |-> "audio", says |-> None]}
             ELSE /\ audio' = None /\ UNCHANGED status
                  /\ loads' = loads \ {l}
                  /\ W!render(status, None, repairing)
    BY <1>6 DEF W!LoadFails
  <2>2. BackendOk'
    BY <1>0, <2>1, WebConstants DEF WebInv, BackendOk
  <2>3. CASE l.step = "status"
    <3> DEFINE n == [id |-> l.id, step |-> "audio", says |-> None]
    <3>1. loads' = (loads \ {l}) \cup {n} /\ status' = None /\ audio' = audio /\ UNCHANGED W!shown
      BY <2>1, <2>3
    <3>2. LoadOk(l)
      BY DEF WebInv, AnswersOk
    <3>3. n = [id |-> l.id, step |-> "audio", says |-> None]
      OBVIOUS
    <3> HIDE DEF n
    <3>4. LoadOk(n)
      BY <3>2, <3>3 DEF LoadOk, AudioSays
    <3>5. AnswersOk'
      BY <3>1, <3>4 DEF WebInv, AnswersOk, StateSays
    <3>6. ShownOk'
      BY <3>1 DEF WebInv, ShownOk, W!shown
    <3> QED
      BY <1>1, <1>2, <2>2, <3>5, <3>6 DEF WebInv, WebStep
  <2>4. CASE l.step # "status"
    <3>1. loads' = loads \ {l} /\ status' = status /\ audio' = None /\ W!render(status, None, repairing)
      BY <2>1, <2>4
    <3>2. AnswersOk'
      BY <3>1 DEF WebInv, AnswersOk, StateSays
    <3>3. ShownOk'
      BY <1>4, <3>1, RenderKeeps
    <3> QED
      BY <1>1, <1>2, <2>2, <3>2, <3>3 DEF WebInv, WebStep
  <2> QED
    BY <2>3, <2>4
<1> QED
  BY <1>5, <1>6

\* The rest of it: changes, questions, and a repair to its end.

\* The changes.
LEMMA AnswersStay ==
  ASSUME WebInv, UNCHANGED <<status, audio>>, loads' = loads \/ W!load
  PROVE  AnswersOk'
<1>1. \A l \in loads' : LoadOk(l)
  BY LoadingOk DEF WebInv, AnswersOk
<1> QED
  BY <1>1 DEF WebInv, AnswersOk, StateSays

LEMMA FieldSet ==
  ASSUME NEW p, NEW a, NEW b, NEW c, NEW d, p = [what |-> a, v |-> b, done |-> c]
  PROVE  [p EXCEPT !.done = d] = [what |-> a, v |-> b, done |-> d]
OBVIOUS

LEMMA ChangeDone ==
  ASSUME NEW p, ChangeOk(p)
  PROVE  [p EXCEPT !.done = TRUE] = [what |-> p.what, v |-> p.v, done |-> TRUE]
<1>1. p = [what |-> p.what, v |-> p.v, done |-> p.done]
  BY DEF ChangeOk
<1> QED
  BY <1>1, FieldSet

LEMMA WebPuts ==
  ASSUME WebInv, NEW p \in puts, W!Store(p) \/ W!RunEnds(p)
  PROVE  WebStep
<1>0. /\ UNCHANGED <<plan, unit, status, audio, sw, swDisabled, sel, repairDisabled, modal,
                     focus, repairing, repairs, told>>
  BY DEF W!Store, W!RunEnds, W!backend, W!shown, W!asked, W!answers
<1>1. RepairsOk' /\ W!RepairedIsTrue
  BY <1>0, RepairsStay
<1>2. ShownOk' /\ AskedOk' /\ PlanOk'
  BY <1>0 DEF WebInv, ShownOk, AskedOk, PlanOk
<1>3. AnswersOk'
  BY <1>0, AnswersStay DEF W!Store, W!RunEnds
<1>4. ChangeOk(p)
  BY DEF WebInv, ChangesOk
<1>5. CASE W!Store(p)
  <2> DEFINE q == [p EXCEPT !.done = TRUE]
  <2>1. /\ puts' = (puts \ {p}) \cup {q} /\ trouble' = trouble
        /\ on' = (IF p.what \in {"on", "off"} THEN p.what = "on" ELSE on)
        /\ set' = (IF p.what = "set" THEN p.v ELSE set)
    BY <1>5 DEF W!Store
  <2>2. q = [what |-> p.what, v |-> p.v, done |-> TRUE]
    BY <1>4, ChangeDone
  <2> HIDE DEF q
  <2>3. ChangeOk(q) /\ q.done
    BY <1>4, <2>2 DEF ChangeOk
  <2>4. ChangesOk'
    BY <2>1, <2>3 DEF WebInv, ChangesOk
  <2>5. W!OffIsConfirmed
    BY <2>1, <2>3, NothingAsked
  <2>6. on' \in BOOLEAN /\ set' \in Settings
    BY <1>4, <2>1 DEF WebInv, BackendOk, ChangeOk
  <2>7. BackendOk'
    BY <1>0, <2>1, <2>6 DEF WebInv, BackendOk
  <2> QED
    BY <1>1, <1>2, <1>3, <2>4, <2>5, <2>7 DEF WebInv, WebStep
<1>6. CASE W!RunEnds(p)
  <2>1. /\ puts' = puts \ {p} /\ UNCHANGED <<on, set>>
        /\ (p.done \/ trouble < MaxTrouble) /\ trouble' = IF p.done THEN trouble ELSE trouble + 1
    BY <1>6 DEF W!RunEnds, W!backend
  <2>2. trouble' \in 0..MaxTrouble
    <3>1. trouble' = IF p.done THEN trouble ELSE trouble + 1
      BY <1>6 DEF W!RunEnds
    <3>2. p.done \/ trouble < MaxTrouble
      BY <1>6 DEF W!RunEnds
    <3> QED
      BY <3>1, <3>2, WebConstants DEF WebInv, BackendOk
  <2>3. BackendOk'
    BY <1>0, <2>1, <2>2 DEF WebInv, BackendOk
  <2>4. ChangesOk' /\ W!OffIsConfirmed
    BY <2>1, NothingAsked DEF WebInv, ChangesOk
  <2> QED
    BY <1>1, <1>2, <1>3, <2>3, <2>4 DEF WebInv, WebStep
<1> QED
  BY <1>5, <1>6

LEMMA RunOk ==
  ASSUME WebInv, NEW w, NEW u, W!run(w, u), w = "set" => u \in Settings
  PROVE  ChangesOk' /\ (w # "off" => W!OffIsConfirmed)
<1> DEFINE n == [what |-> w, v |-> u, done |-> FALSE]
<1>1. puts' = puts \cup {n}
  BY DEF W!run
<1>2. n.what = w /\ n.v = u /\ n.done = FALSE /\ n = [what |-> n.what, v |-> n.v, done |-> n.done]
  OBVIOUS
<1> HIDE DEF n
<1>3. ChangeOk(n)
  BY <1>2 DEF ChangeOk
<1>4. ChangesOk'
  BY <1>1, <1>3 DEF WebInv, ChangesOk
<1>5. w # "off" => W!OffIsConfirmed
  BY <1>1, <1>2, NothingAsked
<1> QED
  BY <1>4, <1>5

\* A use of the plan.
LEMMA ActOk ==
  ASSUME PlanOk,
         W!Act("panel") \/ W!Act("restart") \/ W!Act("repair") \/ W!Act("list")
  PROVE  /\ PlanOk' /\ plan'.repair \in Nat /\ plan.repair \in Nat /\ plan'.repair <= plan.repair
         /\ W!Act("repair") => plan'.repair < plan.repair
<1>1. CASE W!Act("panel")
  <2>1. plan.panel > 0 /\ plan' = [plan EXCEPT !.panel = @ - 1]
    BY <1>1 DEF W!Act
  <2>2. plan'.repair = plan.repair /\ PlanOk'
    BY <2>1 DEF PlanOk
  <2> QED
    BY <2>1, <2>2 DEF PlanOk, W!Act
<1>2. CASE W!Act("restart")
  <2>1. plan.restart > 0 /\ plan' = [plan EXCEPT !.restart = @ - 1]
    BY <1>2 DEF W!Act
  <2>2. plan'.repair = plan.repair /\ PlanOk'
    BY <2>1 DEF PlanOk
  <2> QED
    BY <2>1, <2>2 DEF PlanOk, W!Act
<1>3. CASE W!Act("repair")
  <2>1. plan.repair > 0 /\ plan' = [plan EXCEPT !.repair = @ - 1]
    BY <1>3 DEF W!Act
  <2>2. plan'.repair = plan.repair - 1 /\ PlanOk'
    BY <2>1 DEF PlanOk
  <2> QED
    BY <2>1, <2>2 DEF PlanOk
<1>4. CASE W!Act("list")
  <2>1. plan.list > 0 /\ plan' = [plan EXCEPT !.list = @ - 1]
    BY <1>4 DEF W!Act
  <2>2. plan'.repair = plan.repair /\ PlanOk'
    BY <2>1 DEF PlanOk
  <2> QED
    BY <2>1, <2>2 DEF PlanOk, W!Act
<1> QED
  BY <1>1, <1>2, <1>3, <1>4

\* The repairs, as the plan and the question move on.
LEMMA RepairsWait ==
  ASSUME WebInv, UNCHANGED <<repairs, repairing, told, unit>>,
         plan'.repair \in Nat, plan.repair \in Nat,
         plan'.repair < plan.repair \/ (plan'.repair <= plan.repair /\ (modal' = modal \/ modal' # "repair"))
  PROVE  RepairsOk' /\ W!RepairedIsTrue
<1>1. ASSUME NEW r \in repairs PROVE RepairOk(r)'
  <2>1. RepairOk(r)
    BY DEF WebInv, RepairsOk
  <2>2. r.id > plan'.repair \/ (r.id = plan'.repair /\ modal' # "repair")
    BY <2>1 DEF RepairOk
  <2> QED
    BY <2>1, <2>2 DEF RepairOk
<1>2. RepairsOk'
  BY <1>1 DEF WebInv, RepairsOk
<1>3. Cardinality(repairs) \in Nat /\ repairs' = repairs
  BY FS_CardinalityType DEF WebInv, RepairsOk
<1>4. Cardinality(repairs') >= Cardinality(repairs)
  BY <1>3
<1> QED
  BY <1>2, <1>4, NoneFewer DEF RepairsOk

LEMMA WebHands ==
  ASSUME WebInv, W!switchPanel \/ W!openRestart \/ W!openRepair \/ W!openList
  PROVE  WebStep
<1>0. UNCHANGED <<on, set, unit, trouble, status, audio, loads, sel, repairDisabled, repairing, repairs, told>>
  BY DEF W!switchPanel, W!openRestart, W!openRepair, W!openList, W!backend, W!answers, W!shown
<1>1. BackendOk' /\ AnswersOk'
  BY <1>0, AnswersStay DEF WebInv, BackendOk
<1>2. W!Act("panel") \/ W!Act("restart") \/ W!Act("repair") \/ W!Act("list")
  BY DEF W!switchPanel, W!openRestart, W!openRepair, W!openList
<1>3. PlanOk' /\ plan'.repair \in Nat /\ plan.repair \in Nat /\ plan'.repair <= plan.repair
  BY <1>2, ActOk DEF WebInv
<1>4. CASE W!switchPanel
  <2>1. /\ sw' = ~sw /\ focus' = focus
        /\ IF sw THEN modal' = "off" /\ UNCHANGED <<puts, swDisabled>>
           ELSE W!run("on", None) /\ swDisabled' = TRUE /\ UNCHANGED modal
    BY <1>4 DEF W!switchPanel
  <2>2. ShownOk' /\ AskedOk' /\ (modal' = modal \/ modal' # "repair")
    BY <1>0, <2>1 DEF WebInv, ShownOk, AskedOk, Modals
  <2>3. RepairsOk' /\ W!RepairedIsTrue
    BY <1>0, <1>3, <2>2, RepairsWait
  <2>4. CASE sw
    <3>1. ChangesOk' /\ W!OffIsConfirmed
      BY <2>1, <2>4, NothingAsked DEF WebInv, ChangesOk
    <3> QED
      BY <1>1, <1>3, <2>2, <2>3, <3>1 DEF WebInv, WebStep
  <2>5. CASE ~sw
    <3>1. ChangesOk' /\ W!OffIsConfirmed
      BY <2>1, <2>5, RunOk
    <3> QED
      BY <1>1, <1>3, <2>2, <2>3, <3>1 DEF WebInv, WebStep
  <2> QED
    BY <2>4, <2>5
<1>5. CASE W!openRestart \/ W!openRepair \/ W!openList
  <2>1. UNCHANGED <<puts, sw, swDisabled>>
    BY <1>5 DEF W!openRestart, W!openRepair, W!openList, W!shown
  <2>2. ShownOk' /\ ChangesOk' /\ W!OffIsConfirmed
    BY <1>0, <2>1, NothingAsked DEF WebInv, ShownOk, ChangesOk
  <2>3. AskedOk'
    BY <1>5 DEF W!openRestart, W!openRepair, W!openList, WebInv, AskedOk, Modals
  <2>4. CASE W!openRestart
    <3>1. modal' # "repair"
      BY <2>4 DEF W!openRestart
    <3>2. RepairsOk' /\ W!RepairedIsTrue
      BY <1>0, <1>3, <3>1, RepairsWait
    <3> QED
      BY <1>1, <1>3, <2>2, <2>3, <3>2 DEF WebInv, WebStep
  <2>5. CASE W!openRepair
    <3>1. plan'.repair < plan.repair
      BY <2>5, ActOk DEF W!openRepair, WebInv
    <3>2. RepairsOk' /\ W!RepairedIsTrue
      BY <1>0, <1>3, <3>1, RepairsWait
    <3> QED
      BY <1>1, <1>3, <2>2, <2>3, <3>2 DEF WebInv, WebStep
  <2>6. CASE W!openList
    <3>1. modal' = modal
      BY <2>6 DEF W!openList
    <3>2. RepairsOk' /\ W!RepairedIsTrue
      BY <1>0, <1>3, <3>1, RepairsWait
    <3> QED
      BY <1>1, <1>3, <2>2, <2>3, <3>2 DEF WebInv, WebStep
  <2> QED
    BY <1>5, <2>4, <2>5, <2>6
<1> QED
  BY <1>4, <1>5

LEMMA WebCancels ==
  ASSUME WebInv, W!cancelled \/ W!closeList
  PROVE  WebStep
<1>0. UNCHANGED <<plan, on, set, unit, trouble, status, audio, loads, swDisabled, repairDisabled, repairing,
                  repairs, told>>
  BY DEF W!cancelled, W!closeList, W!backend, W!answers
<1>1. BackendOk' /\ AnswersOk' /\ PlanOk'
  BY <1>0, AnswersStay DEF WebInv, BackendOk, PlanOk
<1>2. modal' = modal \/ modal' # "repair"
  BY WebConstants DEF W!cancelled, W!closeList
<1>3. RepairsOk' /\ W!RepairedIsTrue
  BY <1>0, <1>2, RepairsStay
<1>4. CASE W!cancelled
  <2>1. ShownOk' /\ AskedOk'
    BY <1>0, <1>4 DEF W!cancelled, WebInv, ShownOk, AskedOk, Modals
  <2>2. ChangesOk' /\ W!OffIsConfirmed
    BY <1>4, NothingAsked DEF W!cancelled, WebInv, ChangesOk
  <2> QED
    BY <1>1, <1>3, <2>1, <2>2 DEF WebInv, WebStep
<1>5. CASE W!closeList
  <2>1. AskedOk' /\ sw' = sw
    BY <1>5 DEF W!closeList, WebInv, AskedOk, Modals
  <2>2. CASE UNCHANGED <<sel, puts>>
    <3>1. ShownOk'
      BY <1>0, <2>1, <2>2 DEF WebInv, ShownOk
    <3>2. ChangesOk' /\ W!OffIsConfirmed
      BY <2>2, NothingAsked DEF WebInv, ChangesOk
    <3> QED
      BY <1>1, <1>3, <2>1, <3>1, <3>2 DEF WebInv, WebStep
  <2>3. CASE \E u \in Settings : sel' = u /\ W!run("set", u)
    <3>1. ShownOk'
      BY <1>0, <2>1, <2>3 DEF WebInv, ShownOk
    <3>2. ChangesOk' /\ W!OffIsConfirmed
      BY <2>3, RunOk
    <3> QED
      BY <1>1, <1>3, <2>1, <3>1, <3>2 DEF WebInv, WebStep
  <2> QED
    BY <1>5, <2>2, <2>3 DEF W!closeList
<1> QED
  BY <1>4, <1>5

\* A repair that is followed from now on.
LEMMA RepairBegins ==
  ASSUME WebInv, modal = "repair", modal' = None, UNCHANGED <<plan, unit, told>>, repairing' = TRUE,
         repairs' = repairs \cup {[id |-> plan.repair, step |-> "post", says |-> None]}
  PROVE  RepairsOk' /\ W!RepairedIsTrue
<1>0. PICK n : n = [id |-> plan.repair, step |-> "post", says |-> None]
  OBVIOUS
<1>1. n = [id |-> n.id, step |-> n.step, says |-> n.says] /\ n.id = plan.repair /\ n.step = "post" /\ n.says = None
  BY <1>0
<1>2. repairs' = repairs \cup {n}
  BY <1>0
<1>3. plan.repair \in Nat /\ None # "repair"
  BY WebConstants DEF WebInv, PlanOk
<1>4. RepairOk(n)'
  <2>1. n.id = plan'.repair /\ modal' # "repair" /\ n.id \in Nat
    BY <1>1, <1>3
  <2>2. n.says \in {None, "running", "ok", "failed"} /\ (n.step # "post" => unit' # "idle")
    BY <1>1
  <2>3. n = [id |-> n.id, step |-> n.step, says |-> n.says]
    BY <1>1
  <2> QED
    BY <2>1, <2>2, <2>3 DEF RepairOk
<1>5. ASSUME NEW r \in repairs PROVE RepairOk(r)' /\ r.id # n.id
  <2>1. RepairOk(r)
    BY DEF WebInv, RepairsOk
  <2> QED
    BY <1>1, <1>3, <2>1 DEF RepairOk
<1>6. IsFiniteSet(repairs')
  BY <1>2, FS_AddElement DEF WebInv, RepairsOk
<1>7. RepairsOk'
  <2>1. \A r \in repairs' : RepairOk(r)'
    BY <1>2, <1>4, <1>5
  <2>2. \A r1, r2 \in repairs : r1.id = r2.id => r1 = r2
    BY DEF WebInv, RepairsOk
  <2>3. \A r1, r2 \in repairs' : r1.id = r2.id => r1 = r2
    BY <1>2, <1>5, <2>2
  <2>4. repairing' \in BOOLEAN /\ told' \in {"nothing", "repaired", "failed"}
    BY DEF WebInv, RepairsOk
  <2> QED
    BY <1>6, <2>1, <2>3, <2>4 DEF RepairsOk
<1>8. Cardinality(repairs) <= Cardinality(repairs') /\ Cardinality(repairs) \in Nat /\ Cardinality(repairs') \in Nat
  BY <1>2, <1>6, FS_Subset, FS_CardinalityType DEF WebInv, RepairsOk
<1>9. Cardinality(repairs') >= Cardinality(repairs)
  BY <1>8
<1> QED
  BY <1>6, <1>7, <1>9, NoneFewer

LEMMA WebConfirmed ==
  ASSUME WebInv, W!confirmed
  PROVE  WebStep
<1>0. UNCHANGED <<plan, on, set, unit, trouble, status, audio, loads, focus, told>> /\ modal' = None /\ modal # None
  BY DEF W!confirmed, W!backend, W!answers
<1>1. BackendOk' /\ AnswersOk' /\ PlanOk' /\ AskedOk'
  BY <1>0, AnswersStay DEF WebInv, BackendOk, PlanOk, AskedOk, Modals
<1>2. modal \in {"off", "restart", "repair"} /\ modal' # "repair"
  BY <1>0, WebConstants DEF WebInv, AskedOk, Modals
<1>3. CASE modal = "off"
  <2>1. swDisabled' = TRUE /\ W!run("off", None) /\ UNCHANGED <<sw, sel, repairDisabled, repairing, repairs>>
    BY <1>3 DEF W!confirmed
  <2>2. RepairsOk' /\ W!RepairedIsTrue
    BY <1>0, <1>2, <2>1, RepairsStay
  <2>3. ShownOk' /\ ChangesOk'
    BY <2>1, RunOk DEF WebInv, ShownOk
  <2>4. W!OffIsConfirmed
    BY <1>0, <1>3 DEF W!OffIsConfirmed
  <2> QED
    BY <1>1, <2>2, <2>3, <2>4 DEF WebInv, WebStep
<1>4. CASE modal = "restart"
  <2>1. W!run("restart", None) /\ UNCHANGED <<W!shown, repairing, repairs>>
    BY <1>4 DEF W!confirmed
  <2>2. RepairsOk' /\ W!RepairedIsTrue
    BY <1>0, <1>2, <2>1, RepairsStay
  <2>3. ShownOk'
    BY <2>1 DEF WebInv, ShownOk, W!shown
  <2>4. ChangesOk' /\ W!OffIsConfirmed
    BY <2>1, RunOk
  <2> QED
    BY <1>1, <2>2, <2>3, <2>4 DEF WebInv, WebStep
<1>5. CASE modal = "repair"
  <2>1. /\ repairing' = TRUE /\ W!renderAudio(audio, TRUE) /\ UNCHANGED <<sw, swDisabled, sel, puts>>
        /\ repairs' = repairs \cup {[id |-> plan.repair, step |-> "post", says |-> None]}
    BY <1>5 DEF W!confirmed
  <2>2. RepairsOk' /\ W!RepairedIsTrue
    BY <1>0, <1>5, <2>1, RepairBegins
  <2>3. repairDisabled' \in BOOLEAN
    BY <2>1 DEF W!renderAudio, WebInv, ShownOk
  <2>4. ShownOk'
    BY <2>1, <2>3 DEF WebInv, ShownOk
  <2>5. ChangesOk' /\ W!OffIsConfirmed
    BY <2>1, NothingAsked DEF WebInv, ChangesOk
  <2> QED
    BY <1>1, <2>2, <2>4, <2>5 DEF WebInv, WebStep
<1> QED
  BY <1>2, <1>3, <1>4, <1>5

\* A repair in its next step.
LEMMA RepairMoves ==
  ASSUME WebInv, NEW r \in repairs, NEW q, q.id = r.id, RepairOk(q)',
         repairs' = (repairs \ {r}) \cup {q}, UNCHANGED <<plan, modal>>,
         unit # "idle" => unit' # "idle",
         repairing' = repairing, told' = told
  PROVE  RepairsOk' /\ W!RepairedIsTrue
<1>1. ASSUME NEW m \in repairs PROVE RepairOk(m)' /\ (m.id = r.id => m = r)
  <2>1. RepairOk(m)
    BY DEF WebInv, RepairsOk
  <2> QED
    BY <2>1 DEF WebInv, RepairsOk, RepairOk
<1>2. q \notin repairs \ {r}
  BY <1>1
<1> DEFINE rest == repairs \ {r}
<1>3. IsFiniteSet(repairs) /\ IsFiniteSet(rest) /\ Cardinality(rest) = Cardinality(repairs) - 1
  BY FS_RemoveElement DEF WebInv, RepairsOk
<1>4. repairs' = rest \cup {q} /\ q \notin rest
  BY <1>2
<1> HIDE DEF rest
<1>5. IsFiniteSet(repairs') /\ Cardinality(repairs') = Cardinality(rest) + 1
  <2>1. IsFiniteSet(rest \cup {q}) /\ Cardinality(rest \cup {q}) = Cardinality(rest) + 1
    BY <1>3, <1>4, FS_AddElement
  <2> QED
    BY <1>4, <2>1
<1>6. Cardinality(repairs) \in Nat
  BY <1>3, FS_CardinalityType
<1>7. Cardinality(repairs') >= Cardinality(repairs)
  BY <1>3, <1>5, <1>6
<1>8. W!RepairedIsTrue
  BY <1>5, <1>7, NoneFewer
<1>9. RepairsOk'
  BY <1>1, <1>5 DEF WebInv, RepairsOk
<1> QED
  BY <1>8, <1>9

LEMMA WebFollows ==
  ASSUME WebInv, W!RepairStarts \/ W!AskAfter \/ W!RepairRead
  PROVE  WebStep
<1>0. /\ UNCHANGED <<plan, on, set, trouble, status, audio, loads, sw, swDisabled, sel, repairDisabled,
                     modal, focus, puts, repairing, told>>
      /\ unit' \in Units /\ (unit # "idle" => unit' # "idle")
  BY DEF W!RepairStarts, W!AskAfter, W!RepairRead, W!backend, W!answers, W!shown, W!asked, WebInv, BackendOk, Units
<1>1. BackendOk' /\ AnswersOk' /\ PlanOk' /\ AskedOk'
  BY <1>0, AnswersStay DEF WebInv, BackendOk, PlanOk, AskedOk
<1>2. ShownOk' /\ ChangesOk' /\ W!OffIsConfirmed
  BY <1>0, NothingAsked DEF WebInv, ShownOk, ChangesOk
<1>3. PICK r, q :
        /\ r \in repairs /\ repairs' = (repairs \ {r}) \cup {q} /\ q.id = r.id /\ RepairOk(q)'
  <2>1. CASE W!RepairStarts
    <3>1. PICK r \in repairs :
            r.step = "post" /\ unit' = "running" /\ repairs' = (repairs \ {r}) \cup {[r EXCEPT !.step = "wait"]}
      BY <2>1 DEF W!RepairStarts
    <3>2. RepairOk(r)
      BY DEF WebInv, RepairsOk
    <3> DEFINE q == [r EXCEPT !.step = "wait"]
    <3>3. q = [id |-> r.id, step |-> "wait", says |-> r.says]
      BY <3>2 DEF RepairOk
    <3>4. repairs' = (repairs \ {r}) \cup {q}
      BY <3>1
    <3> HIDE DEF q
    <3>5. q.id = r.id /\ RepairOk(q)'
      BY <1>0, <3>1, <3>2, <3>3 DEF RepairOk
    <3> QED
      BY <3>4, <3>5
  <2>2. CASE W!AskAfter
    <3>1. PICK r \in repairs :
            /\ r.step = "wait" /\ unit' = unit
            /\ repairs' = (repairs \ {r}) \cup {[id |-> r.id, step |-> "ask", says |-> None]}
      BY <2>2 DEF W!AskAfter, W!backend
    <3>2. RepairOk(r)
      BY DEF WebInv, RepairsOk
    <3> DEFINE q == [id |-> r.id, step |-> "ask", says |-> None]
    <3>3. q = [id |-> r.id, step |-> "ask", says |-> None]
      OBVIOUS
    <3>4. repairs' = (repairs \ {r}) \cup {q}
      BY <3>1
    <3> HIDE DEF q
    <3>5. q.id = r.id /\ RepairOk(q)'
      BY <1>0, <3>1, <3>2, <3>3 DEF RepairOk
    <3> QED
      BY <3>4, <3>5
  <2>3. CASE W!RepairRead
    <3>1. PICK r \in repairs :
            /\ r.step = "ask" /\ unit' = unit
            /\ repairs' = (repairs \ {r}) \cup {[r EXCEPT !.says = unit]}
      BY <2>3 DEF W!RepairRead, W!backend
    <3>2. RepairOk(r)
      BY DEF WebInv, RepairsOk
    <3>0. [r EXCEPT !.says = unit] = [id |-> r.id, step |-> "ask", says |-> unit]
      BY <3>1, <3>2 DEF RepairOk
    <3>3. PICK q : q = [id |-> r.id, step |-> "ask", says |-> unit]
      OBVIOUS
    <3>4. repairs' = (repairs \ {r}) \cup {q}
      BY <3>0, <3>1, <3>3
    <3>6. unit \in {"running", "ok", "failed"}
      BY <3>1, <3>2 DEF RepairOk, WebInv, BackendOk, Units
    <3>7. q.id = r.id /\ q.step = "ask" /\ q.says = unit /\ q = [id |-> q.id, step |-> q.step, says |-> q.says]
      BY <3>3
    <3>8. /\ r.id \in Nat
          /\ r.id > plan'.repair \/ (r.id = plan'.repair /\ modal' # "repair")
      BY <1>0, <3>2 DEF RepairOk
    <3>9. unit' # "idle"
      BY <3>1, <3>6
    <3>5. RepairOk(q)'
      BY <3>6, <3>7, <3>8, <3>9 DEF RepairOk
    <3> QED
      BY <3>4, <3>5, <3>7
  <2> QED
    BY <2>1, <2>2, <2>3
<1>4. RepairsOk' /\ W!RepairedIsTrue
  BY <1>0, <1>3, RepairMoves
<1> QED
  BY <1>1, <1>2, <1>4 DEF WebInv, WebStep

\* The end of one.
LEMMA RepairGone ==
  ASSUME WebInv, NEW r \in repairs, repairs' = repairs \ {r}, UNCHANGED <<plan, modal, unit>>,
         repairing' \in BOOLEAN, told' \in {"nothing", "repaired", "failed"}
  PROVE  RepairsOk'
<1>1. ASSUME NEW m \in repairs PROVE RepairOk(m)'
  <2>1. RepairOk(m)
    BY DEF WebInv, RepairsOk
  <2> QED
    BY <2>1 DEF RepairOk
<1>2. IsFiniteSet(repairs')
  BY FS_RemoveElement DEF WebInv, RepairsOk
<1> QED
  BY <1>1, <1>2 DEF WebInv, RepairsOk

LEMMA WebEnds ==
  ASSUME WebInv, W!RepairAnswered \/ W!RepairLost
  PROVE  WebStep
<1>0. UNCHANGED <<plan, on, set, unit, status, sw, swDisabled, sel, repairDisabled, modal, focus, puts>>
  BY DEF W!RepairAnswered, W!RepairLost, W!backend, W!answers, W!shown, W!asked
<1>1. PlanOk' /\ AskedOk' /\ ShownOk' /\ ChangesOk' /\ W!OffIsConfirmed
  BY <1>0, NothingAsked DEF WebInv, PlanOk, AskedOk, ShownOk, ChangesOk
<1>2. CASE W!RepairAnswered
  <2>1. PICK r \in repairs :
          /\ r.step = "ask" /\ r.says # None /\ audio' = r.says
          /\ IF r.says = "running"
             THEN /\ repairs' = (repairs \ {r}) \cup {[r EXCEPT !.step = "wait"]}
                  /\ UNCHANGED <<repairing, loads, told>>
             ELSE /\ repairs' = repairs \ {r} /\ repairing' = FALSE /\ W!load
                  /\ told' = IF r.says = "failed" THEN "failed" ELSE "repaired"
    BY <1>2 DEF W!RepairAnswered
  <2>2. RepairOk(r)
    BY DEF WebInv, RepairsOk
  <2>3. r.says \in {"running", "ok", "failed"}
    BY <2>1, <2>2 DEF RepairOk
  <2>4. \A l \in loads' : LoadOk(l)
    BY <2>1, LoadingOk DEF WebInv, AnswersOk
  <2>5. AnswersOk'
    BY <1>0, <2>1, <2>3, <2>4 DEF WebInv, AnswersOk, StateSays, Units
  <2>6. BackendOk'
    BY <1>0, <1>2 DEF W!RepairAnswered, WebInv, BackendOk
  <2>7. CASE r.says = "running"
    <3> DEFINE q == [r EXCEPT !.step = "wait"]
    <3>3. q = [id |-> r.id, step |-> "wait", says |-> r.says]
      BY <2>2 DEF RepairOk
    <3>4. repairs' = (repairs \ {r}) \cup {q} /\ repairing' = repairing /\ told' = told
      BY <2>1, <2>7
    <3> HIDE DEF q
    <3>5. q.id = r.id /\ RepairOk(q)'
      BY <1>0, <2>1, <2>2, <3>3 DEF RepairOk
    <3>6. RepairsOk' /\ W!RepairedIsTrue
      BY <1>0, <3>4, <3>5, RepairMoves
    <3> QED
      BY <1>1, <2>5, <2>6, <3>6 DEF WebInv, WebStep
  <2>8. CASE r.says # "running"
    <3>1. /\ repairs' = repairs \ {r} /\ repairing' = FALSE
          /\ told' = IF r.says = "failed" THEN "failed" ELSE "repaired"
      BY <2>1, <2>8
    <3>2. RepairsOk'
      BY <1>0, <3>1, RepairGone
    <3>3. W!RepairedIsTrue
      BY <2>1, <2>3, <2>8, <3>1 DEF W!RepairedIsTrue
    <3> QED
      BY <1>1, <2>5, <2>6, <3>2, <3>3 DEF WebInv, WebStep
  <2> QED
    BY <2>7, <2>8
<1>3. CASE W!RepairLost
  <2>1. PICK r \in repairs :
          /\ trouble < MaxTrouble /\ trouble' = trouble + 1
          /\ repairs' = repairs \ {r} /\ repairing' = FALSE /\ W!load /\ told' = "failed" /\ audio' = audio
    BY <1>3 DEF W!RepairLost, W!answers
  <2>2. BackendOk'
    BY <1>0, <2>1, WebConstants DEF WebInv, BackendOk
  <2>3. AnswersOk'
    BY <1>0, <2>1, AnswersStay
  <2>4. RepairsOk'
    BY <1>0, <2>1, RepairGone
  <2>5. W!RepairedIsTrue
    BY <2>1 DEF W!RepairedIsTrue
  <2> QED
    BY <1>1, <2>2, <2>3, <2>4, <2>5 DEF WebInv, WebStep
<1> QED
  BY <1>2, <1>3

LEMMA WebOver ==
  ASSUME WebInv, W!RepairOver \/ UNCHANGED W!vars
  PROVE  WebStep
<1>0. UNCHANGED <<plan, on, set, trouble, status, audio, loads, sw, swDisabled, sel, repairDisabled,
                  modal, focus, puts, repairing, repairs, told>>
  BY DEF W!RepairOver, W!vars, W!backend, W!answers, W!shown, W!asked
<1>1. unit' \in Units /\ (unit # "idle" => unit' # "idle")
  BY DEF W!RepairOver, W!vars, W!backend, WebInv, BackendOk, Units
<1>2. BackendOk' /\ AnswersOk' /\ PlanOk' /\ AskedOk'
  BY <1>0, <1>1, AnswersStay DEF WebInv, BackendOk, PlanOk, AskedOk
<1>3. ShownOk' /\ ChangesOk' /\ W!OffIsConfirmed
  BY <1>0, NothingAsked DEF WebInv, ShownOk, ChangesOk
<1>4. \A m \in repairs : RepairOk(m) => RepairOk(m)'
  BY <1>0, <1>1 DEF RepairOk
<1>5. RepairsOk'
  BY <1>0, <1>4 DEF WebInv, RepairsOk
<1>6. Cardinality(repairs) \in Nat /\ IsFiniteSet(repairs')
  BY <1>0, FS_CardinalityType DEF WebInv, RepairsOk
<1>7. W!RepairedIsTrue
  BY <1>0, <1>6, NoneFewer
<1> QED
  BY <1>2, <1>3, <1>5, <1>7 DEF WebInv, WebStep

LEMMA WebKeeps ==
  ASSUME WebInv, [W!Next]_(W!vars)
  PROVE  WebStep
<1>1. CASE W!Read \/ W!StatusAnswered \/ W!AudioAnswered \/ W!LoadFails \/ W!Interval
  BY <1>1, WebLoads, WebPainted
<1>2. CASE W!SomePut
  BY <1>2, WebPuts DEF W!SomePut
<1>3. CASE W!switchPanel \/ W!openRestart \/ W!openRepair \/ W!openList
  BY <1>3, WebHands
<1>4. CASE W!confirmed \/ W!cancelled \/ W!closeList
  BY <1>4, WebConfirmed, WebCancels
<1>5. CASE W!RepairStarts \/ W!AskAfter \/ W!RepairRead \/ W!RepairAnswered \/ W!RepairLost
  BY <1>5, WebFollows, WebEnds
<1>6. CASE W!RepairOver \/ UNCHANGED W!vars
  BY <1>6, WebOver
<1> QED
  BY <1>1, <1>2, <1>3, <1>4, <1>5, <1>6 DEF W!Next

LEMMA WebSays == WebInv => W!TypeOK
<1> SUFFICES ASSUME WebInv PROVE W!TypeOK
  OBVIOUS
<1>1. \A l \in loads : l.id \in 1..MaxLoads /\ l.step \in {"status", "audio"}
  BY DEF WebInv, AnswersOk, LoadOk
<1>2. status = None \/ status.set \in Settings
  BY DEF WebInv, AnswersOk, StateSays
<1> QED
  BY <1>1, <1>2 DEF WebInv, BackendOk, ShownOk, AnswersOk, AskedOk, RepairsOk, Units, Modals, W!TypeOK

-----------------------------------------------------------------------------
\* One page at work.

ConsolesInv ==
  /\ scene = "dashboard" => DashInv
  /\ scene = "curves" => CurvesInv
  /\ scene = "web" => WebInv

LEMMA ConsolesBegins == Init => ConsolesInv
<1> SUFFICES ASSUME Init PROVE ConsolesInv
  OBVIOUS
<1>1. CASE scene = "dashboard" /\ D!Init
  BY <1>1, DashBegins DEF ConsolesInv
<1>2. CASE scene = "curves" /\ C!Init
  BY <1>2, CurvesBegin DEF ConsolesInv
<1>3. CASE scene = "health"
  BY <1>3 DEF ConsolesInv
<1>4. CASE scene = "web" /\ W!Init
  BY <1>4, WebBegins DEF ConsolesInv
<1> QED
  BY <1>1, <1>2, <1>3, <1>4 DEF Init

LEMMA ConsolesSteps ==
  ASSUME [Next]_all
  PROVE  /\ scene' = scene
         /\ scene = "dashboard" => [D!Next]_(D!vars)
         /\ scene = "curves" => [C!Next]_(C!vars)
         /\ scene = "health" => [H!Next]_(H!vars)
         /\ scene = "web" => [W!Next]_(W!vars)
<1>1. CASE UNCHANGED all
  <2>1. UNCHANGED <<scene, ofD, ofC, ofH, ofW, edits, trouble, puts, loads, unit, told>>
    BY <1>1 DEF all, shared
  <2>2. UNCHANGED D!vars
    BY <2>1 DEF ofD, D!vars, D!device, D!count, D!loop, D!notices, D!form
  <2>3. UNCHANGED C!vars
    BY <2>1 DEF ofC, C!vars
  <2>4. UNCHANGED H!vars
    BY <2>1 DEF ofH, H!vars
  <2>5. UNCHANGED W!vars
    BY <2>1 DEF ofW, W!vars, W!backend, W!shown, W!answers, W!asked
  <2> QED
    BY <2>1, <2>2, <2>3, <2>4, <2>5
<1>2. CASE Next
  BY <1>2 DEF Next
<1> QED
  BY <1>1, <1>2

LEMMA ConsolesKeep ==
  ASSUME ConsolesInv, [Next]_all
  PROVE  ConsolesInv'
<1>0. scene' = scene
  BY ConsolesSteps
<1>1. CASE scene = "dashboard"
  BY <1>0, <1>1, ConsolesSteps, DashKeeps DEF ConsolesInv
<1>2. CASE scene = "curves"
  BY <1>0, <1>2, ConsolesSteps, CurvesKeep DEF ConsolesInv
<1>3. CASE scene = "web"
  BY <1>0, <1>3, ConsolesSteps, WebKeeps DEF ConsolesInv, WebStep
<1>4. CASE scene \notin {"dashboard", "curves", "web"}
  BY <1>0, <1>4 DEF ConsolesInv
<1> QED
  BY <1>1, <1>2, <1>3, <1>4

LEMMA ConsolesHold == Spec => []ConsolesInv
BY ConsolesBegins, ConsolesKeep, PTL DEF Spec

\* What a page shows hangs together, for any number of edits, failures, loads and questions:
\* the banner says only what the polls found (applyPreferences, pollLoop), every curve stays
\* one t6-webd accepts, under a finger too (app.js: end, clampPoint), and the panel's page
\* keeps to its types (web/app.js).
THEOREM PagesAreSound == Spec => []PagesSound
<1>1. ConsolesInv => PagesSound
  BY DashSays, CurvesSay, WebSays DEF ConsolesInv, PagesSound
<1> QED
  BY <1>1, ConsolesHold, PTL

\* A curve edit t6-fand does not hold can still be sent, in whatever order the zones are
\* sent, whichever of them fails, and whatever is edited, loaded or lost meanwhile, but for the
\* zones the page was told the wrong thing of (app.js: zoneDirty, updateCurveBar, applyAll).
THEOREM EditsStayDirty == Spec => []UnsavedStaysDirty
<1> DEFINE J == ConsolesInv /\ (scene = "curves" => Known)
<1>1. Init => J
  <2> SUFFICES ASSUME Init, scene = "curves" PROVE Known
    BY ConsolesBegins
  <2> QED
    BY KnownBegins DEF Init
<1>2. J /\ [Next]_all => J'
  <2> SUFFICES ASSUME J, [Next]_all, scene' = "curves" PROVE Known'
    BY ConsolesKeep
  <2> QED
    BY ConsolesSteps, KnownKeeps DEF ConsolesInv
<1>3. J => UnsavedStaysDirty
  BY KnownSays DEF ConsolesInv, UnsavedStaysDirty
<1> QED
  BY <1>1, <1>2, <1>3, PTL DEF Spec

\* What was staged survives every answer until the person changes it, but for a night schedule
\* left behind by the answer to an Apply (renderAll); the end of a repair is said as it was,
\* by every look begun after it (loadHealth); and the panel is turned off only by OK on the
\* question that asks just that, and a repair is said done when one was (web/app.js).
THEOREM OnlyAsked == Spec => OnlyWhatWasAsked
<1> DEFINE J == /\ ConsolesInv
                /\ scene = "dashboard" => NightOk
                /\ scene = "health" => HealthOk
           A == /\ scene = "dashboard" => D!EditsSurvive
                /\ scene = "health" => H!SaidAsItEnded
                /\ scene = "web" => W!OffIsConfirmed /\ W!RepairedIsTrue
<1>1. Init => J
  <2> SUFFICES ASSUME Init
               PROVE  (scene = "dashboard" => NightOk) /\ (scene = "health" => HealthOk)
    BY ConsolesBegins
  <2> QED
    BY NightBegins, HealthBegins DEF Init
<1>2. J /\ [Next]_all => J' /\ A
  <2> SUFFICES ASSUME J, [Next]_all PROVE J' /\ A
    OBVIOUS
  <2>0. scene' = scene /\ ConsolesInv'
    BY ConsolesSteps, ConsolesKeep
  <2>1. CASE scene = "dashboard"
    <3>1. NightOk' /\ D!EditsSurvive
      BY <2>1, ConsolesSteps, NightKeeps DEF ConsolesInv, Stays
    <3> QED
      BY <2>0, <2>1, <3>1
  <2>2. CASE scene = "health"
    <3>1. HealthOk' /\ H!SaidAsItEnded
      BY <2>2, ConsolesSteps, HealthKeeps
    <3> QED
      BY <2>0, <2>2, <3>1
  <2>3. CASE scene = "web"
    <3>1. W!OffIsConfirmed /\ W!RepairedIsTrue
      BY <2>3, ConsolesSteps, WebKeeps DEF ConsolesInv, WebStep
    <3> QED
      BY <2>0, <2>3, <3>1
  <2>4. CASE scene \notin {"dashboard", "health", "web"}
    BY <2>0, <2>4
  <2> QED
    BY <2>1, <2>2, <2>3, <2>4
<1>3. J /\ [Next]_all => [A]_all
  BY <1>2
<1> QED
  BY <1>1, <1>2, <1>3, PTL DEF Spec, OnlyWhatWasAsked
=============================================================================
