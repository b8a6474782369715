----------------------- MODULE OperatorExportProofs -----------------------
(***************************************************************************)
(* Theorems about OperatorExport, for every set of jobs, whatever the      *)
(* output file held, and any number of runs: which messages an export      *)
(* delivers, for histories of any length, and what becomes of the file.    *)
(***************************************************************************)
EXTENDS OperatorExport, SequenceTheorems, NaturalsInduction, WellFoundedInduction, TLAPS

LEMMA SmallestExists ==
    ASSUME NEW S, S \subseteq Nat, S # {}
    PROVE  \E x \in S : \A y \in S : x <= y
  <1>1. PICK x \in S : \A y \in S : <<y, x>> \notin OpToRel(<, Nat)
    BY NatLessThanWellFounded, WFMin
  <1>2. ASSUME NEW y \in S PROVE x <= y
    <2>1. ~(y < x)
      BY <1>1 DEF OpToRel
    <2> QED
      BY <2>1
  <1> QED
    BY <1>2

\* What holds of 0, and of n + 1 when it holds of n.
LEMMA UpTo ==
    ASSUME NEW len \in Nat, NEW P, 0 \in P,
           \A k \in 0..len : k < len /\ k \in P => k + 1 \in P
    PROVE  \A n \in 0..len : n \in P
  <1> DEFINE Bad == {n \in 0..len : n \notin P}
  <1>1. SUFFICES ASSUME NEW n \in 0..len, n \notin P PROVE FALSE
    OBVIOUS
  <1>2. PICK x \in Bad : \A y \in Bad : x <= y
    <2>1. n \in Bad /\ Bad \subseteq Nat
      BY <1>1
    <2> QED
      BY <2>1, SmallestExists
  <1>3. x # 0 /\ x \in 0..len /\ x \notin P
    OBVIOUS
  <1>4. x - 1 \in 0..len /\ x - 1 < len /\ x = (x - 1) + 1
    BY <1>3
  <1>5. x - 1 \in P
    BY <1>2, <1>4
  <1> QED
    BY <1>3, <1>4, <1>5

Sifts(s, S, n, g) ==
    g = [i \in 0..n |-> IF i = 0 THEN <<>>
                        ELSE IF s[i] \in S THEN Append(g[i - 1], s[i]) ELSE g[i - 1]]

LEMMA SiftExists ==
    ASSUME NEW s, NEW S, NEW len \in Nat
    PROVE  \E g : Sifts(s, S, len, g)
  <1> DEFINE P == {n \in 0..len : \E g : Sifts(s, S, n, g)}
  <1>1. 0 \in P
    <2> DEFINE g == [i \in 0..0 |-> <<>>]
    <2>1. Sifts(s, S, 0, g)
      BY DEF Sifts
    <2> HIDE DEF g
    <2> QED
      BY <2>1
  <1>2. ASSUME NEW n \in 0..len, n < len, n \in P PROVE n + 1 \in P
    <2>1. PICK g : Sifts(s, S, n, g)
      BY <1>2
    <2> DEFINE h == [i \in 0..(n + 1) |->
                       IF i <= n THEN g[i]
                       ELSE IF s[n + 1] \in S THEN Append(g[n], s[n + 1]) ELSE g[n]]
    <2>2. \A i \in 0..n : h[i] = g[i]
      OBVIOUS
    <2>3. ASSUME NEW i \in 0..(n + 1)
          PROVE  h[i] = IF i = 0 THEN <<>>
                        ELSE IF s[i] \in S THEN Append(h[i - 1], s[i]) ELSE h[i - 1]
      <3>1. CASE i = 0
        BY <2>1, <3>1 DEF Sifts
      <3>2. CASE i \in 1..n
        <4>1. i \in 0..n /\ i - 1 \in 0..n /\ i # 0
          BY <3>2
        <4>2. h[i] = g[i] /\ h[i - 1] = g[i - 1]
          BY <2>2, <4>1
        <4>3. g[i] = IF s[i] \in S THEN Append(g[i - 1], s[i]) ELSE g[i - 1]
          BY <2>1, <4>1 DEF Sifts
        <4> HIDE DEF h
        <4> QED
          BY <4>1, <4>2, <4>3
      <3>3. CASE i = n + 1
        <4>1. i - 1 = n /\ ~(i <= n) /\ i # 0 /\ n \in 0..n
          BY <3>3
        <4>2. h[n] = g[n]
          BY <2>2, <4>1
        <4>3. h[i] = IF s[n + 1] \in S THEN Append(g[n], s[n + 1]) ELSE g[n]
          BY <3>3, <4>1
        <4> HIDE DEF h
        <4> QED
          BY <3>3, <4>1, <4>2, <4>3
      <3> QED
        BY <3>1, <3>2, <3>3
    <2>4. h = [i \in 0..(n + 1) |-> IF i = 0 THEN <<>>
                        ELSE IF s[i] \in S THEN Append(h[i - 1], s[i]) ELSE h[i - 1]]
      <3>1. h = [i \in 0..(n + 1) |-> h[i]]
        OBVIOUS
      <3> HIDE DEF h
      <3> QED
        BY <2>3, <3>1
    <2>5. Sifts(s, S, n + 1, h)
      BY <2>4 DEF Sifts
    <2> HIDE DEF h
    <2> QED
      BY <1>2, <2>5
  <1> HIDE DEF P
  <1>3. len \in P
    BY <1>1, <1>2, UpTo
  <1> QED
    BY <1>3 DEF P

LEMMA SiftIs ==
    ASSUME NEW s, Len(s) \in Nat, NEW S
    PROVE  \E g : Sifts(s, S, Len(s), g) /\ Sift(s, S) = g[Len(s)]
  <1> DEFINE g == CHOOSE f : Sifts(s, S, Len(s), f)
  <1>1. Sifts(s, S, Len(s), g)
    BY SiftExists
  <1>2. Sift(s, S) = g[Len(s)]
    BY DEF Sift, Sifts
  <1> HIDE DEF g
  <1> QED
    BY <1>1, <1>2

(***************************************************************************)
(* Messages in the order of a query.                                       *)
(***************************************************************************)
Comes(q, x, y) == IF NewestFirst(q) THEN x.id > y.id ELSE x.id < y.id

InOrder(q, s) == \A i, j \in 1..Len(s) : i < j => Comes(q, s[i], s[j])

DropsFirst(s, S, n, t) ==
    \A p \in 0..n : (\A j \in 1..p : s[j] \notin S) => Len(t) <= n - p

KeepsRun(s, S, n, t) ==
    \A p, r \in 0..n :
      p <= r /\ (\A j \in 1..p : s[j] \notin S) /\ (\A j \in (p + 1)..r : s[j] \in S) =>
        r - p <= Len(t) /\ \A j \in 1..(r - p) : t[j] = s[p + j]

\* What Sift has of the first n elements.
SiftedFrom(q, T, s, S, n, t) ==
    /\ t \in Seq(T)
    /\ \A k \in 1..Len(t) : \E j \in 1..n : t[k] = s[j] /\ s[j] \in S
    /\ \A j \in 1..n : s[j] \in S => \E k \in 1..Len(t) : t[k] = s[j]
    /\ InOrder(q, s) => InOrder(q, t)
    /\ DropsFirst(s, S, n, t) /\ KeepsRun(s, S, n, t)

LEMMA SiftStep ==
    ASSUME NEW q, NEW T, NEW s \in Seq(T), NEW S, NEW n \in 1..Len(s), NEW t,
           SiftedFrom(q, T, s, S, n - 1, t)
    PROVE  SiftedFrom(q, T, s, S, n, IF s[n] \in S THEN Append(t, s[n]) ELSE t)
  <1>1. /\ t \in Seq(T) /\ Len(t) \in Nat /\ Len(s) \in Nat /\ n \in 1..Len(s) /\ s[n] \in T
        /\ \A k \in 1..Len(t) : t[k] \in T
    BY LenProperties, ElementOfSeq DEF SiftedFrom
  <1>2. CASE s[n] \notin S
    <2>1. \A k \in 1..Len(t) : \E j \in 1..n : t[k] = s[j] /\ s[j] \in S
      BY <1>1 DEF SiftedFrom
    <2>2. \A j \in 1..n : s[j] \in S => \E k \in 1..Len(t) : t[k] = s[j]
      <3> TAKE j \in 1..n
      <3>1. s[j] \in S => j \in 1..(n - 1)
        BY <1>1, <1>2
      <3> QED
        BY <3>1 DEF SiftedFrom
    <2>3. ASSUME NEW p \in 0..n, \A j \in 1..p : s[j] \notin S PROVE Len(t) <= n - p
      <3>1. p = n \/ p \in 0..(n - 1)
        BY <1>1
      <3>2. n - 1 \in 0..(n - 1) /\ \A j \in 1..(n - 1) : j \in 1..n
        BY <1>1
      <3>3. CASE p = n
        <4>1. Len(t) <= (n - 1) - (n - 1)
          BY <2>3, <3>2, <3>3 DEF SiftedFrom, DropsFirst
        <4> QED
          BY <1>1, <3>3, <4>1
      <3>4. CASE p \in 0..(n - 1)
        <4>1. Len(t) <= (n - 1) - p
          BY <2>3, <3>4 DEF SiftedFrom, DropsFirst
        <4> QED
          BY <1>1, <3>4, <4>1
      <3> QED
        BY <3>1, <3>3, <3>4
    <2>4. ASSUME NEW p \in 0..n, NEW r \in 0..n, p <= r, \A j \in 1..p : s[j] \notin S,
                 \A j \in (p + 1)..r : s[j] \in S
          PROVE  r - p <= Len(t) /\ \A j \in 1..(r - p) : t[j] = s[p + j]
      <3>1. CASE r = n
        <4>1. p = r
          BY <1>1, <1>2, <2>4, <3>1
        <4> QED
          BY <1>1, <4>1
      <3>2. CASE r # n
        <4>1. p \in 0..(n - 1) /\ r \in 0..(n - 1)
          BY <1>1, <2>4, <3>2
        <4> QED
          BY <2>4, <4>1 DEF SiftedFrom, KeepsRun
      <3> QED
        BY <3>1, <3>2
    <2> QED
      <3>1. DropsFirst(s, S, n, t)
        BY <2>3 DEF DropsFirst
      <3>2. KeepsRun(s, S, n, t)
        BY <2>4 DEF KeepsRun
      <3> QED
        BY <1>1, <1>2, <2>1, <2>2, <3>1, <3>2 DEF SiftedFrom
  <1>3. CASE s[n] \in S
    <2> DEFINE u == Append(t, s[n])
    <2>1. /\ u \in Seq(T) /\ Len(u) = Len(t) + 1 /\ u[Len(t) + 1] = s[n]
          /\ \A k \in 1..Len(t) : u[k] = t[k]
      BY <1>1, AppendProperties
    <2> HIDE DEF u
    <2>2. ASSUME NEW k \in 1..Len(u) PROVE \E j \in 1..n : u[k] = s[j] /\ s[j] \in S
      <3>1. CASE k = Len(t) + 1
        BY <1>1, <1>3, <2>1, <3>1
      <3>2. CASE k \in 1..Len(t)
        <4>1. PICK j \in 1..(n - 1) : t[k] = s[j] /\ s[j] \in S
          BY <3>2 DEF SiftedFrom
        <4>2. j \in 1..n
          BY <1>1, <4>1
        <4> QED
          BY <2>1, <3>2, <4>1, <4>2
      <3> QED
        BY <1>1, <2>1, <3>1, <3>2
    <2>3. ASSUME NEW j \in 1..n, s[j] \in S PROVE \E k \in 1..Len(u) : u[k] = s[j]
      <3>1. CASE j = n
        BY <1>1, <2>1, <3>1
      <3>2. CASE j # n
        <4>1. j \in 1..(n - 1)
          BY <1>1, <3>2
        <4>2. PICK k \in 1..Len(t) : t[k] = s[j]
          BY <2>3, <4>1 DEF SiftedFrom
        <4>3. k \in 1..Len(u) /\ u[k] = t[k]
          BY <1>1, <2>1, <4>2
        <4> QED
          BY <4>2, <4>3
      <3> QED
        BY <3>1, <3>2
    <2>4. ASSUME InOrder(q, s) PROVE InOrder(q, u)
      <3> SUFFICES ASSUME NEW i \in 1..Len(u), NEW j \in 1..Len(u), i < j PROVE Comes(q, u[i], u[j])
        BY DEF InOrder
      <3>1. i \in 1..Len(t) /\ u[i] = t[i]
        BY <1>1, <2>1
      <3>2. CASE j \in 1..Len(t)
        <4>1. u[j] = t[j] /\ InOrder(q, t)
          BY <2>1, <2>4, <3>2 DEF SiftedFrom
        <4> QED
          BY <3>1, <3>2, <4>1 DEF InOrder
      <3>3. CASE j = Len(t) + 1
        <4>1. PICK k \in 1..(n - 1) : t[i] = s[k]
          BY <3>1 DEF SiftedFrom
        <4>2. k \in 1..Len(s) /\ k < n /\ u[j] = s[n]
          BY <1>1, <2>1, <3>3, <4>1
        <4> QED
          BY <1>1, <2>4, <3>1, <4>1, <4>2 DEF InOrder
      <3>4. j \in 1..Len(t) \/ j = Len(t) + 1
        BY <1>1, <2>1
      <3> QED
        BY <3>2, <3>3, <3>4
    <2>5. ASSUME NEW p \in 0..n, \A j \in 1..p : s[j] \notin S
          PROVE  p \in 0..(n - 1) /\ Len(u) <= n - p
      <3>1. p \in 0..(n - 1)
        BY <1>1, <1>3, <2>5
      <3>2. Len(t) <= (n - 1) - p
        BY <2>5, <3>1 DEF SiftedFrom, DropsFirst
      <3> QED
        BY <1>1, <2>1, <3>1, <3>2
    <2>6. ASSUME NEW p \in 0..n, NEW r \in 0..n, p <= r, \A j \in 1..p : s[j] \notin S,
                 \A j \in (p + 1)..r : s[j] \in S
          PROVE  r - p <= Len(u) /\ \A j \in 1..(r - p) : u[j] = s[p + j]
      <3>1. p \in 0..(n - 1)
        BY <2>5, <2>6
      <3>2. CASE r = n
        <4>1. n - 1 \in 0..(n - 1) /\ p <= n - 1 /\ \A j \in (p + 1)..(n - 1) : j \in (p + 1)..r
          BY <1>1, <3>1, <3>2
        <4>2. (n - 1) - p <= Len(t) /\ \A j \in 1..((n - 1) - p) : t[j] = s[p + j]
          <5>1. PICK m \in 0..(n - 1) : m = n - 1
            BY <4>1
          <5>2. m - p <= Len(t) /\ \A j \in 1..(m - p) : t[j] = s[p + j]
            <6>1. /\ p \in 0..(n - 1) /\ p <= m /\ (\A j \in 1..p : s[j] \notin S)
                  /\ \A j \in (p + 1)..m : s[j] \in S
              BY <2>6, <3>1, <3>2, <4>1, <5>1
            <6>2. KeepsRun(s, S, n - 1, t)
              BY DEF SiftedFrom
            <6> QED
              BY <5>1, <6>1, <6>2 DEF KeepsRun
          <5> QED
            BY <5>1, <5>2
        <4>3. Len(t) + 1 = n - p
          <5>1. Len(u) <= n - p
            BY <2>5, <2>6
          <5>2. (n - 1) - p <= Len(t)
            BY <4>2
          <5> QED
            BY <1>1, <2>1, <3>1, <5>1, <5>2
        <4>4. ASSUME NEW j \in 1..(n - p) PROVE u[j] = s[p + j]
          <5>1. j = n - p \/ j \in 1..((n - 1) - p)
            BY <1>1, <3>1
          <5>2. CASE j = n - p
            <6>1. p + j = n
              BY <1>1, <3>1, <5>2
            <6> QED
              BY <2>1, <4>3, <5>2, <6>1
          <5>3. CASE j \in 1..((n - 1) - p)
            <6>1. j \in 1..Len(t)
              BY <1>1, <3>1, <4>3, <5>3
            <6> QED
              BY <2>1, <4>2, <5>3, <6>1
          <5> QED
            BY <5>1, <5>2, <5>3
        <4> QED
          BY <1>1, <2>1, <3>1, <3>2, <4>3, <4>4
      <3>3. CASE r # n
        <4>1. r \in 0..(n - 1)
          BY <1>1, <2>6, <3>3
        <4>2. r - p <= Len(t) /\ \A j \in 1..(r - p) : t[j] = s[p + j]
          BY <2>6, <3>1, <4>1 DEF SiftedFrom, KeepsRun
        <4>3. \A j \in 1..(r - p) : j \in 1..Len(t)
          BY <1>1, <3>1, <4>1, <4>2
        <4> QED
          BY <1>1, <2>1, <3>1, <4>1, <4>2, <4>3
      <3> QED
        BY <3>2, <3>3
    <2>7. SiftedFrom(q, T, s, S, n, u)
      <3>1. DropsFirst(s, S, n, u)
        BY <2>5 DEF DropsFirst
      <3>2. KeepsRun(s, S, n, u)
        BY <2>6 DEF KeepsRun
      <3> QED
        BY <2>1, <2>2, <2>3, <2>4, <3>1, <3>2 DEF SiftedFrom
    <2> QED
      BY <1>3, <2>7 DEF u
  <1> QED
    BY <1>2, <1>3

LEMMA SiftFacts ==
    ASSUME NEW q, NEW T, NEW s \in Seq(T), NEW S
    PROVE  SiftedFrom(q, T, s, S, Len(s), Sift(s, S))
  <1>1. Len(s) \in Nat
    BY LenProperties
  <1>2. PICK g : Sifts(s, S, Len(s), g) /\ Sift(s, S) = g[Len(s)]
    BY <1>1, SiftIs
  <1> DEFINE P == {n \in 0..Len(s) : SiftedFrom(q, T, s, S, n, g[n])}
  <1>3. 0 \in P
    <2>1. g[0] = <<>>
      BY <1>1, <1>2 DEF Sifts
    <2>2. SiftedFrom(q, T, s, S, 0, <<>>)
      BY EmptySeq DEF SiftedFrom, InOrder, DropsFirst, KeepsRun
    <2> QED
      BY <1>1, <2>1, <2>2
  <1>4. ASSUME NEW k \in 0..Len(s), k < Len(s), k \in P PROVE k + 1 \in P
    <2>1. k + 1 \in 0..Len(s) /\ k + 1 \in 1..Len(s) /\ (k + 1) - 1 = k /\ k + 1 # 0
      BY <1>1, <1>4
    <2>2. g[k + 1] = IF s[k + 1] \in S THEN Append(g[k], s[k + 1]) ELSE g[k]
      <3>1. g[k + 1] = IF k + 1 = 0 THEN <<>>
                       ELSE IF s[k + 1] \in S THEN Append(g[(k + 1) - 1], s[k + 1]) ELSE g[(k + 1) - 1]
        BY <1>2, <2>1 DEF Sifts
      <3> QED
        BY <2>1, <3>1
    <2>3. SiftedFrom(q, T, s, S, (k + 1) - 1, g[k])
      BY <1>4, <2>1
    <2>4. SiftedFrom(q, T, s, S, k + 1, g[k + 1])
      <3>1. PICK n \in 1..Len(s) : n = k + 1
        BY <2>1
      <3>2. SiftedFrom(q, T, s, S, n - 1, g[k])
        BY <2>3, <3>1
      <3>3. SiftedFrom(q, T, s, S, n, IF s[n] \in S THEN Append(g[k], s[n]) ELSE g[k])
        BY <3>2, SiftStep
      <3> QED
        BY <2>2, <3>1, <3>3
    <2> QED
      BY <2>1, <2>4
  <1> HIDE DEF P
  <1>5. \A n \in 0..Len(s) : n \in P
    <2> DEFINE len == Len(s)
    <2>1. len \in Nat /\ \A k \in 0..len : k < len /\ k \in P => k + 1 \in P
      BY <1>1, <1>4
    <2> HIDE DEF len
    <2>2. \A n \in 0..len : n \in P
      BY <1>3, <2>1, UpTo
    <2> QED
      BY <2>2 DEF len
  <1> QED
    BY <1>1, <1>2, <1>5 DEF P

\* Sift as a set of elements.
LEMMA SiftSet ==
    ASSUME NEW q, NEW T, NEW s \in Seq(T), NEW S
    PROVE  /\ Sift(s, S) \in Seq(T)
           /\ Range(Sift(s, S)) = Range(s) \cap S
           /\ InOrder(q, s) => InOrder(q, Sift(s, S))
           /\ Range(s) \subseteq S => Sift(s, S) = s
  <1> DEFINE t == Sift(s, S)
  <1>1. SiftedFrom(q, T, s, S, Len(s), t) /\ t \in Seq(T)
    <2>1. SiftedFrom(q, T, s, S, Len(s), t)
      BY SiftFacts
    <2> QED
      BY <2>1 DEF SiftedFrom
  <1>2. Len(s) \in Nat /\ DOMAIN s = 1..Len(s) /\ Len(t) \in Nat /\ DOMAIN t = 1..Len(t)
    BY <1>1, LenProperties
  <1> HIDE DEF t
  <1>3. Range(t) = Range(s) \cap S
    <2>1. ASSUME NEW x \in Range(t) PROVE x \in Range(s) \cap S
      <3>1. PICK k \in 1..Len(t) : x = t[k]
        BY <1>2 DEF Range
      <3>2. PICK j \in 1..Len(s) : t[k] = s[j] /\ s[j] \in S
        BY <1>1, <3>1 DEF SiftedFrom, DropsFirst, KeepsRun
      <3> QED
        BY <1>2, <3>1, <3>2 DEF Range
    <2>2. ASSUME NEW x \in Range(s) \cap S PROVE x \in Range(t)
      <3>1. PICK j \in 1..Len(s) : x = s[j]
        BY <1>2 DEF Range
      <3>2. PICK k \in 1..Len(t) : t[k] = s[j]
        BY <1>1, <3>1 DEF SiftedFrom, DropsFirst, KeepsRun
      <3> QED
        BY <1>2, <3>1, <3>2 DEF Range
    <2> QED
      BY <2>1, <2>2
  <1>4. ASSUME Range(s) \subseteq S PROVE t = s
    <2>1. \A j \in 1..Len(s) : s[j] \in S
      BY <1>2, <1>4 DEF Range
    <2>2. Len(t) = Len(s) /\ \A j \in 1..Len(s) : t[j] = s[j]
      <3>1. /\ 0 \in 0..Len(s) /\ Len(s) \in 0..Len(s) /\ 0 <= Len(s)
            /\ (\A j \in 1..0 : s[j] \notin S) /\ \A j \in (0 + 1)..Len(s) : s[j] \in S
        BY <1>2, <2>1
      <3>2. Len(t) <= Len(s) - 0
        BY <1>1, <3>1 DEF SiftedFrom, DropsFirst, KeepsRun
      <3>3. Len(s) - 0 <= Len(t) /\ \A j \in 1..(Len(s) - 0) : t[j] = s[0 + j]
        BY <1>1, <3>1 DEF SiftedFrom, DropsFirst, KeepsRun
      <3>4. Len(t) = Len(s)
        <4>1. Len(s) \in Nat /\ Len(t) \in Nat
          BY <1>2
        <4>2. Len(s) - 0 <= Len(t)
          BY <3>3
        <4> QED
          BY <3>2, <4>1, <4>2
      <3>5. ASSUME NEW j \in 1..Len(s) PROVE t[j] = s[j]
        <4>1. j \in 1..(Len(s) - 0) /\ 0 + j = j
          BY <1>2
        <4>2. t[j] = s[0 + j]
          BY <3>3, <4>1
        <4> QED
          BY <4>1, <4>2
      <3> QED
        BY <3>4, <3>5
    <2> QED
      BY <1>1, <2>2, SeqEqual
  <1> QED
    BY <1>1, <1>3, <1>4 DEF t, SiftedFrom

LEMMA MinIs ==
    ASSUME NEW S, S \subseteq Nat, S # {}
    PROVE  Min(S) \in S /\ \A y \in S : Min(S) <= y
  <1>1. \E x \in S : \A y \in S : x <= y
    BY SmallestExists
  <1> QED
    BY <1>1 DEF Min

\* A first part of s, as long as n allows.
LEMMA FirstOf ==
    ASSUME NEW T, NEW s \in Seq(T), NEW n \in 0..Len(s)
    PROVE  /\ SubSeq(s, 1, n) \in Seq(T) /\ Len(SubSeq(s, 1, n)) = n
           /\ \A i \in 1..n : SubSeq(s, 1, n)[i] = s[i]
           /\ \A q : InOrder(q, s) => InOrder(q, SubSeq(s, 1, n))
  <1>1. Len(s) \in Nat /\ n \in Nat /\ \A i \in 1..n : s[i] \in T /\ i \in 1..Len(s)
    BY LenProperties, ElementOfSeq
  <1> DEFINE t == SubSeq(s, 1, n)
  <1>2. /\ t \in Seq(T) /\ Len(t) = (IF 1 <= n THEN n - 1 + 1 ELSE 0)
        /\ \A i \in 1..(n - 1 + 1) : t[i] = s[1 + i - 1]
    BY <1>1, SubSeqProperties
  <1> HIDE DEF t
  <1>3. Len(t) = n
    BY <1>1, <1>2
  <1>4. ASSUME NEW i \in 1..n PROVE t[i] = s[i]
    <2>1. i \in 1..(n - 1 + 1) /\ 1 + i - 1 = i
      BY <1>1
    <2>2. t[i] = s[1 + i - 1]
      BY <1>2, <2>1
    <2> QED
      BY <2>1, <2>2
  <1>5. ASSUME NEW q, InOrder(q, s) PROVE InOrder(q, t)
    BY <1>1, <1>3, <1>4, <1>5 DEF InOrder
  <1> QED
    BY <1>2, <1>3, <1>4, <1>5 DEF t

\* A limit, or none.
Limit(L) == L \subseteq Nat /\ \A m, n \in L : m = n

TakenFrom(T, s, L, t) ==
    /\ t \in Seq(T) /\ Len(t) \in Nat /\ Len(t) <= Len(s)
    /\ \A i \in 1..Len(t) : t[i] = s[i]
    /\ \A n \in L : Len(t) <= n
    /\ Len(t) = Len(s) \/ Len(t) \in L
    /\ \A q : InOrder(q, s) => InOrder(q, t)

LEMMA TakeFacts ==
    ASSUME NEW T, NEW s \in Seq(T), NEW L, Limit(L)
    PROVE  TakenFrom(T, s, L, Take(s, L))
  <1> DEFINE n == Min({Len(s)} \cup L)
  <1>1. Len(s) \in Nat
    BY LenProperties
  <1>2. n \in {Len(s)} \cup L /\ \A y \in {Len(s)} \cup L : n <= y
    <2>1. {Len(s)} \cup L \subseteq Nat /\ {Len(s)} \cup L # {}
      BY <1>1 DEF Limit
    <2> QED
      BY <2>1, MinIs
  <1> HIDE DEF n
  <1>3. n \in 0..Len(s) /\ n \in Nat /\ n <= Len(s)
    <2>1. n \in Nat
      BY <1>1, <1>2 DEF Limit
    <2>2. n <= Len(s)
      BY <1>2
    <2> QED
      BY <1>1, <2>1, <2>2
  <1>4. Take(s, L) = SubSeq(s, 1, n)
    BY DEF Take, n
  <1>5. /\ SubSeq(s, 1, n) \in Seq(T) /\ Len(SubSeq(s, 1, n)) = n
        /\ \A i \in 1..n : SubSeq(s, 1, n)[i] = s[i]
        /\ \A q : InOrder(q, s) => InOrder(q, SubSeq(s, 1, n))
    BY <1>3, FirstOf
  <1> QED
    BY <1>2, <1>3, <1>4, <1>5 DEF TakenFrom

(***************************************************************************)
(* A history, in either order.                                             *)
(***************************************************************************)
LEMMA OrderedFacts ==
    ASSUME NEW q, NEW T, NEW s \in Seq(T), \A i, j \in 1..Len(s) : i < j => s[i].id < s[j].id,
           \A x \in T : x.id \in Nat
    PROVE  /\ Ordered(q, s) \in Seq(T) /\ Range(Ordered(q, s)) = Range(s)
           /\ InOrder(q, Ordered(q, s))
  <1> DEFINE len == Len(s)
  <1>1. len \in Nat /\ DOMAIN s = 1..len /\ \A i \in 1..len : s[i] \in T
    BY LenProperties, ElementOfSeq
  <1>2. CASE ~NewestFirst(q)
    BY <1>2 DEF Ordered, InOrder, Comes
  <1>3. CASE NewestFirst(q)
    <2> DEFINE t == Reverse(s)
    <2> HIDE DEF len
    <2>1. t = [i \in 1..len |-> s[(len - i) + 1]]
      BY DEF Reverse, len
    <2>2. \A i \in 1..len : (len - i) + 1 \in 1..len
      BY <1>1
    <2> HIDE DEF t
    <2>3. DOMAIN t = 1..len /\ \A i \in 1..len : t[i] = s[(len - i) + 1] /\ t[i] \in T
      BY <1>1, <2>1, <2>2
    <2>4. t \in Seq(T) /\ Len(t) = len
      <3>1. t \in [1..len -> T]
        BY <1>1, <2>1, <2>2
      <3>2. t \in Seq(T)
        BY <1>1, <3>1, SeqDef
      <3>3. Len(t) \in Nat /\ DOMAIN t = 1..Len(t)
        BY <3>2, LenProperties
      <3> QED
        BY <1>1, <2>3, <3>2, <3>3
    <2>5. Range(t) = Range(s)
      <3>1. ASSUME NEW x \in Range(t) PROVE x \in Range(s)
        <4>1. PICK i \in 1..len : x = t[i]
          BY <2>3 DEF Range
        <4> QED
          BY <1>1, <2>2, <2>3, <4>1 DEF Range
      <3>2. ASSUME NEW x \in Range(s) PROVE x \in Range(t)
        <4>1. PICK i \in 1..len : x = s[i]
          BY <1>1 DEF Range
        <4>2. PICK j \in 1..len : j = (len - i) + 1
          BY <2>2
        <4>3. (len - j) + 1 = i
          BY <1>1, <4>2
        <4>4. x = t[j]
          BY <2>3, <4>1, <4>3
        <4> QED
          BY <2>3, <4>4 DEF Range
      <3> QED
        BY <3>1, <3>2
    <2>6. InOrder(q, t)
      <3> SUFFICES ASSUME NEW i \in 1..len, NEW j \in 1..len, i < j PROVE Comes(q, t[i], t[j])
        BY <2>4 DEF InOrder
      <3> DEFINE a == (len - i) + 1
                 b == (len - j) + 1
      <3>1. a \in 1..len /\ b \in 1..len /\ b < a
        BY <1>1
      <3>2. t[i] = s[a] /\ t[j] = s[b]
        BY <2>3
      <3> HIDE DEF a, b
      <3>3. s[b].id < s[a].id /\ s[b].id \in Nat /\ s[a].id \in Nat
        BY <1>1, <3>1 DEF len
      <3> QED
        BY <1>3, <3>2, <3>3 DEF Comes
    <2> QED
      BY <1>3, <2>4, <2>5, <2>6 DEF Ordered, t
  <1> QED
    BY <1>2, <1>3

(***************************************************************************)
(* c is of the messages S, in order, and what it leaves of them comes      *)
(* behind its first n when the limit is n.  It may hold a root out of turn *)
(* behind them.                                                            *)
(***************************************************************************)
Enough(q, c, S, L) ==
    /\ c \in Seq(MessageSet) /\ InOrder(q, c) /\ Range(c) \subseteq S
    /\ \A y \in S \ Range(c) : \E n \in L : n <= Len(c) /\ \A i \in 1..n : Comes(q, c[i], y)

\* What InOrder says of positions.
LEMMA InTurn ==
    ASSUME NEW c \in Seq(MessageSet)
    PROVE  /\ Len(c) \in Nat /\ DOMAIN c = 1..Len(c)
           /\ \A i \in 1..Len(c) : c[i] \in MessageSet /\ c[i].id \in Nat /\ c[i] \in Range(c)
           /\ \A x \in Range(c) : \E i \in 1..Len(c) : x = c[i]
  <1>1. Len(c) \in Nat /\ DOMAIN c = 1..Len(c) /\ \A i \in 1..Len(c) : c[i] \in MessageSet
    BY LenProperties, ElementOfSeq
  <1>2. \A x \in MessageSet : x.id \in Nat
    BY DEF MessageSet
  <1> QED
    BY <1>1, <1>2 DEF Range

LEMMA TakeEnough ==
    ASSUME NEW q, NEW c \in Seq(MessageSet), InOrder(q, c), NEW L, Limit(L)
    PROVE  Enough(q, Take(c, L), Range(c), L)
  <1> DEFINE t == Take(c, L)
  <1>1. /\ t \in Seq(MessageSet) /\ Len(t) \in Nat /\ Len(t) <= Len(c)
        /\ \A i \in 1..Len(t) : t[i] = c[i]
        /\ Len(t) = Len(c) \/ Len(t) \in L
        /\ InOrder(q, t)
    <2>1. TakenFrom(MessageSet, c, L, t)
      BY TakeFacts
    <2> QED
      BY <2>1 DEF TakenFrom
  <1> HIDE DEF t
  <1>2. /\ Len(c) \in Nat /\ \A i \in 1..Len(c) : c[i] \in Range(c)
        /\ \A x \in Range(c) : \E i \in 1..Len(c) : x = c[i]
    BY InTurn
  <1>3. \A i \in 1..Len(t) : t[i] \in Range(t)
    BY <1>1, InTurn
  <1>4. Range(t) \subseteq Range(c)
    <2> SUFFICES ASSUME NEW x \in Range(t) PROVE x \in Range(c)
      OBVIOUS
    <2>1. PICK i \in 1..Len(t) : x = t[i]
      BY <1>1, InTurn
    <2>2. i \in 1..Len(c) /\ x = c[i]
      BY <1>1, <1>2, <2>1
    <2> QED
      BY <1>2, <2>2
  <1>5. ASSUME NEW y \in Range(c) \ Range(t)
        PROVE  \E n \in L : n <= Len(t) /\ \A i \in 1..n : Comes(q, t[i], y)
    <2>1. PICK k \in 1..Len(c) : y = c[k]
      BY <1>2
    <2>2. ~(k <= Len(t))
      BY <1>1, <1>3, <1>5, <2>1
    <2>3. Len(t) \in L
      BY <1>1, <1>2, <2>2
    <2>4. ASSUME NEW i \in 1..Len(t) PROVE Comes(q, t[i], y)
      <3>1. i \in 1..Len(c) /\ i < k /\ t[i] = c[i]
        BY <1>1, <1>2, <2>2
      <3> QED
        BY <2>1, <3>1 DEF InOrder
    <2> QED
      BY <1>1, <2>3, <2>4
  <1> QED
    BY <1>1, <1>4, <1>5 DEF Enough, t

\* The replies of a topic, the root being the first of its messages, with the root put in its place.
LEMMA MergeEnough ==
    ASSUME NEW q, NEW c, NEW S, NEW L, Enough(q, c, S, L), Limit(L), S \subseteq MessageSet,
           NEW root \in MessageSet, \A m \in S : m # root => root.id < m.id
    PROVE  Enough(q, MergeTopicRoot(root, c, q), S \cup {root}, L)
  <1> DEFINE K == {m \in Range(c) : m.id # root.id}
             others == Sift(c, K)
             r == IF NewestFirst(q) THEN Append(others, root) ELSE <<root>> \o others
  <1>1. c \in Seq(MessageSet) /\ InOrder(q, c) /\ Range(c) \subseteq S
    BY DEF Enough
  <1>2. /\ Len(c) \in Nat /\ \A i \in 1..Len(c) : c[i] \in MessageSet /\ c[i].id \in Nat /\ c[i] \in Range(c)
        /\ \A x \in Range(c) : \E i \in 1..Len(c) : x = c[i]
    BY <1>1, InTurn
  <1>3. root.id \in Nat /\ \A m \in S : m.id \in Nat /\ (m.id = root.id <=> m = root)
    BY DEF MessageSet
  <1>4. K = Range(c) \ {root}
    BY <1>1, <1>3
  <1> HIDE DEF K
  <1>5. /\ others \in Seq(MessageSet) /\ Range(others) = Range(c) \ {root} /\ InOrder(q, others)
    BY <1>1, <1>4, SiftSet
  <1>6. KeepsRun(c, K, Len(c), others)
    BY <1>1, SiftFacts DEF SiftedFrom
  <1> HIDE DEF others
  <1>7. /\ Len(others) \in Nat
        /\ \A i \in 1..Len(others) : others[i] \in MessageSet /\ others[i].id \in Nat
                                     /\ others[i] \in Range(others)
        /\ \A x \in Range(others) : \E i \in 1..Len(others) : x = others[i]
    BY <1>5, InTurn
  <1>8. \A i \in 1..Len(others) : others[i].id > root.id
    <2> TAKE i \in 1..Len(others)
    <2>1. others[i] \in S /\ others[i] # root
      BY <1>1, <1>5, <1>7
    <2>2. root.id < others[i].id
      BY <2>1
    <2> QED
      BY <1>3, <1>7, <2>2
  <1>9. r \in Seq(MessageSet) /\ Len(r) = Len(others) + 1
    <2>1. CASE NewestFirst(q)
      BY <1>5, <2>1, AppendProperties
    <2>2. CASE ~NewestFirst(q)
      <3>1. <<root>> \in Seq(MessageSet) /\ Len(<<root>>) = 1
        OBVIOUS
      <3>2. Len(<<root>> \o others) = 1 + Len(others) /\ <<root>> \o others \in Seq(MessageSet)
        BY <1>5, <3>1, ConcatProperties
      <3> QED
        BY <1>7, <2>2, <3>2
    <2> QED
      BY <2>1, <2>2
  <1>10. CASE NewestFirst(q)
    <2>1. /\ \A i \in 1..Len(others) : r[i] = others[i]
          /\ r[Len(others) + 1] = root
      BY <1>5, <1>10, AppendProperties
    <2> HIDE DEF r
    <2>2. InOrder(q, r)
      <3> SUFFICES ASSUME NEW i \in 1..Len(r), NEW j \in 1..Len(r), i < j PROVE Comes(q, r[i], r[j])
        BY DEF InOrder
      <3>1. i \in 1..Len(others) /\ r[i] = others[i] /\ (j \in 1..Len(others) \/ j = Len(others) + 1)
        <4>1. Len(others) \in Nat /\ Len(r) = Len(others) + 1
          BY <1>7, <1>9
        <4>2. i \in 1..Len(others) /\ (j \in 1..Len(others) \/ j = Len(others) + 1)
          BY <4>1
        <4> QED
          BY <2>1, <4>2
      <3>2. CASE j \in 1..Len(others)
        BY <1>5, <2>1, <3>1, <3>2 DEF InOrder
      <3>3. CASE j = Len(others) + 1
        BY <1>8, <1>10, <2>1, <3>1, <3>3 DEF Comes
      <3> QED
        BY <3>1, <3>2, <3>3
    <2>3. Range(r) = Range(c) \cup {root}
      <3>1. ASSUME NEW x \in Range(r) PROVE x \in Range(c) \cup {root}
        <4>1. PICK i \in 1..Len(r) : x = r[i]
          BY <1>9, InTurn
        <4>2. i \in 1..Len(others) \/ i = Len(others) + 1
          BY <1>7, <1>9
        <4> QED
          BY <1>5, <1>7, <2>1, <4>1, <4>2
      <3>2. ASSUME NEW x \in Range(c) \cup {root} PROVE x \in Range(r)
        <4>1. \A i \in 1..Len(r) : r[i] \in Range(r)
          BY <1>9, InTurn
        <4>2. CASE x = root
          BY <1>7, <1>9, <2>1, <4>1, <4>2
        <4>3. CASE x # root
          <5>1. PICK i \in 1..Len(others) : x = others[i]
            BY <1>5, <1>7, <3>2, <4>3
          <5>2. i \in 1..Len(r)
            BY <1>7, <1>9
          <5> QED
            BY <2>1, <4>1, <5>1, <5>2
        <4> QED
          BY <4>2, <4>3
      <3> QED
        BY <3>1, <3>2
    <2>4. ASSUME NEW y \in (S \cup {root}) \ Range(r)
          PROVE  \E n \in L : n <= Len(r) /\ \A i \in 1..n : Comes(q, r[i], y)
      <3>1. y \in S \ Range(c) /\ y # root
        BY <2>3, <2>4
      <3>2. PICK n \in L : n <= Len(c) /\ \A i \in 1..n : Comes(q, c[i], y)
        BY <3>1 DEF Enough
      <3>3. n \in Nat /\ n \in 0..Len(c)
        BY <1>2, <3>2 DEF Limit
      <3>4. ASSUME NEW i \in 1..n PROVE c[i] \in K
        <4>1. i \in 1..Len(c) /\ c[i].id > y.id /\ y.id > root.id /\ y.id \in Nat
          BY <1>2, <1>3, <1>10, <3>1, <3>2, <3>3 DEF Comes
        <4>2. c[i] # root
          BY <1>2, <1>3, <4>1
        <4> QED
          BY <1>2, <1>4, <4>1, <4>2
      <3>5. n - 0 <= Len(others) /\ \A j \in 1..(n - 0) : others[j] = c[0 + j]
        <4>1. /\ 0 \in 0..Len(c) /\ n \in 0..Len(c) /\ 0 <= n /\ (\A j \in 1..0 : c[j] \notin K)
              /\ \A j \in (0 + 1)..n : c[j] \in K
          BY <1>2, <3>3, <3>4
        <4> QED
          BY <1>6, <4>1 DEF KeepsRun
      <3>6. ASSUME NEW i \in 1..n PROVE i \in 1..Len(others) /\ r[i] = c[i]
        <4>1. i \in 1..(n - 0) /\ 0 + i = i
          BY <3>3
        <4>2. others[i] = c[0 + i]
          BY <3>5, <4>1
        <4>3. i \in 1..Len(others)
          BY <1>7, <3>3, <3>5
        <4> QED
          BY <2>1, <4>1, <4>2, <4>3
      <3>7. n <= Len(r)
        <4>1. n - 0 <= Len(others)
          BY <3>5
        <4> QED
          BY <1>7, <1>9, <3>3, <4>1
      <3> QED
        BY <3>2, <3>6, <3>7
    <2>5. Enough(q, r, S \cup {root}, L)
      BY <1>1, <1>9, <2>2, <2>3, <2>4 DEF Enough
    <2> QED
      BY <2>5 DEF MergeTopicRoot, r, others, K
  <1>11. CASE ~NewestFirst(q)
    <2>1. r[1] = root /\ \A i \in 2..Len(r) : r[i] = others[i - 1]
      <3>1. <<root>> \in Seq(MessageSet) /\ Len(<<root>>) = 1 /\ <<root>>[1] = root
        OBVIOUS
      <3>2. \A i \in 1..(Len(<<root>>) + Len(others)) :
               (<<root>> \o others)[i] = IF i <= Len(<<root>>) THEN <<root>>[i] ELSE others[i - Len(<<root>>)]
        BY <1>5, <3>1, ConcatProperties
      <3>3. r = <<root>> \o others
        BY <1>11
      <3> HIDE DEF r
      <3> QED
        BY <1>7, <1>9, <3>1, <3>2, <3>3
    <2> HIDE DEF r
    <2>2. InOrder(q, r)
      <3> SUFFICES ASSUME NEW i \in 1..Len(r), NEW j \in 1..Len(r), i < j PROVE Comes(q, r[i], r[j])
        BY DEF InOrder
      <3>1. j \in 2..Len(r) /\ j - 1 \in 1..Len(others) /\ r[j] = others[j - 1]
        BY <1>7, <1>9, <2>1
      <3>2. CASE i = 1
        <4>1. others[j - 1].id > root.id /\ others[j - 1].id \in Nat
          BY <1>7, <1>8, <3>1
        <4> QED
          BY <1>3, <1>11, <2>1, <3>1, <3>2, <4>1 DEF Comes
      <3>3. CASE i # 1
        <4>1. i - 1 \in 1..Len(others) /\ i - 1 < j - 1 /\ r[i] = others[i - 1]
          BY <1>7, <1>9, <2>1, <3>1, <3>3
        <4> QED
          BY <1>5, <3>1, <4>1 DEF InOrder
      <3> QED
        BY <3>2, <3>3
    <2>3. Range(r) = Range(c) \cup {root}
      <3>1. ASSUME NEW x \in Range(r) PROVE x \in Range(c) \cup {root}
        <4>1. PICK i \in 1..Len(r) : x = r[i]
          BY <1>9, InTurn
        <4>2. i = 1 \/ (i \in 2..Len(r) /\ i - 1 \in 1..Len(others))
          BY <1>7, <1>9
        <4> QED
          BY <1>5, <1>7, <2>1, <4>1, <4>2
      <3>2. ASSUME NEW x \in Range(c) \cup {root} PROVE x \in Range(r)
        <4>1. \A i \in 1..Len(r) : r[i] \in Range(r)
          BY <1>9, InTurn
        <4>2. CASE x = root
          BY <1>7, <1>9, <2>1, <4>1, <4>2
        <4>3. CASE x # root
          <5>1. PICK i \in 1..Len(others) : x = others[i]
            BY <1>5, <1>7, <3>2, <4>3
          <5>2. i + 1 \in 2..Len(r) /\ i + 1 \in 1..Len(r) /\ (i + 1) - 1 = i
            BY <1>7, <1>9
          <5> QED
            BY <2>1, <4>1, <5>1, <5>2
        <4> QED
          BY <4>2, <4>3
      <3> QED
        BY <3>1, <3>2
    <2>4. ASSUME NEW y \in (S \cup {root}) \ Range(r)
          PROVE  \E n \in L : n <= Len(r) /\ \A i \in 1..n : Comes(q, r[i], y)
      <3>1. y \in S \ Range(c) /\ y # root /\ root.id < y.id /\ y.id \in Nat
        BY <1>3, <2>3, <2>4
      <3>2. PICK n \in L : n <= Len(c) /\ \A i \in 1..n : Comes(q, c[i], y)
        BY <3>1 DEF Enough
      <3>3. n \in Nat /\ n \in 0..Len(c)
        BY <1>2, <3>2 DEF Limit
      \* The root, if c has it, is the first.
      <3>4. \A i \in 2..Len(c) : c[i] \in K
        <4> TAKE i \in 2..Len(c)
        <4>1. 1 \in 1..Len(c) /\ i \in 1..Len(c) /\ 1 < i
          BY <1>2
        <4>2. c[1].id < c[i].id
          BY <1>1, <1>11, <4>1 DEF InOrder, Comes
        <4>3. c[1] = root \/ root.id < c[1].id
          BY <1>1, <1>2, <4>1
        <4>4. c[i] # root
          BY <1>2, <1>3, <4>1, <4>2, <4>3
        <4> QED
          BY <1>2, <1>4, <4>1, <4>4
      <3>5. n <= Len(r) /\ \A i \in 2..n : \E k \in 1..n : r[i] = c[k]
        <4>1. CASE n = 0
          BY <1>7, <1>9, <4>1
        <4>2. CASE n > 0 /\ c[1] \in K
          <5>1. /\ 0 \in 0..Len(c) /\ 0 <= n /\ (\A j \in 1..0 : c[j] \notin K)
                /\ \A j \in (0 + 1)..n : c[j] \in K
            BY <1>2, <3>3, <3>4, <4>2
          <5>2. n - 0 <= Len(others) /\ \A j \in 1..(n - 0) : others[j] = c[0 + j]
            BY <1>6, <3>3, <5>1 DEF KeepsRun
          <5>3. n - 0 <= Len(others)
            BY <5>2
          <5>4. ASSUME NEW i \in 2..n PROVE \E k \in 1..n : r[i] = c[k]
            <6>1. i - 1 \in 1..(n - 0) /\ i - 1 \in 1..n /\ 0 + (i - 1) = i - 1 /\ i \in 2..Len(r)
              BY <1>7, <1>9, <3>3, <5>3
            <6>2. others[i - 1] = c[0 + (i - 1)]
              BY <5>2, <6>1
            <6>3. r[i] = c[i - 1]
              BY <2>1, <6>1, <6>2
            <6> QED
              BY <6>1, <6>3
          <5> QED
            BY <1>7, <1>9, <3>3, <5>3, <5>4
        <4>3. CASE n > 0 /\ c[1] \notin K
          <5>1. /\ 1 \in 0..Len(c) /\ 1 <= n /\ (\A j \in 1..1 : c[j] \notin K)
                /\ \A j \in (1 + 1)..n : c[j] \in K
            BY <1>2, <3>3, <3>4, <4>3
          <5>2. n - 1 <= Len(others) /\ \A j \in 1..(n - 1) : others[j] = c[1 + j]
            BY <1>6, <3>3, <5>1 DEF KeepsRun
          <5>3. n - 1 <= Len(others)
            BY <5>2
          <5>4. ASSUME NEW i \in 2..n PROVE \E k \in 1..n : r[i] = c[k]
            <6>1. i - 1 \in 1..(n - 1) /\ i \in 1..n /\ 1 + (i - 1) = i /\ i \in 2..Len(r)
              BY <1>7, <1>9, <3>3, <5>3
            <6>2. others[i - 1] = c[1 + (i - 1)]
              BY <5>2, <6>1
            <6>3. r[i] = c[i]
              BY <2>1, <6>1, <6>2
            <6> QED
              BY <6>1, <6>3
          <5> QED
            BY <1>7, <1>9, <3>3, <5>3, <5>4
        <4> QED
          BY <3>3, <4>1, <4>2, <4>3
      <3>6. ASSUME NEW i \in 1..n PROVE Comes(q, r[i], y)
        <4>1. CASE i = 1
          BY <1>11, <2>1, <3>1, <4>1 DEF Comes
        <4>2. CASE i # 1
          <5>1. i \in 2..n
            BY <3>3, <4>2
          <5> QED
            BY <3>2, <3>5, <5>1
        <4> QED
          BY <4>1, <4>2
      <3> QED
        BY <3>2, <3>5, <3>6
    <2>5. Enough(q, r, S \cup {root}, L)
      BY <1>1, <1>9, <2>2, <2>3, <2>4 DEF Enough
    <2> QED
      BY <2>5 DEF MergeTopicRoot, r, others, K
  <1> QED
    BY <1>10, <1>11

(***************************************************************************)
(* The part up to a message past the range, without what is out of range.  *)
(* Without a bound it is all; with one the limit was not left to Telethon. *)
(***************************************************************************)
Query(q) ==
    /\ q.topic \in Int /\ q.from \subseteq Int /\ q.to \subseteq Int /\ Limit(q.limit)

\* Dates do not descend.
Dated(S) == \A x, y \in S : x.id < y.id => x.sec <= y.sec

LEMMA PastStays ==
    ASSUME NEW q, Query(q), NEW S, S \subseteq MessageSet, Dated(S), NEW x \in S, NEW y \in S, Comes(q, x, y),
           PastRequestedRange(q, Ms(x))
    PROVE  ~InRange(q, Ms(y))
  <1>1. x.sec \in Nat /\ y.sec \in Nat /\ Second \in Nat
    BY SelectionAssumption DEF MessageSet
  <1>2. Ms(x) \in Int /\ Ms(y) \in Int
    BY <1>1 DEF Ms
  <1>3. CASE NewestFirst(q)
    <2>1. PICK f \in q.from : Ms(x) < f
      BY <1>3 DEF PastRequestedRange
    <2>2. y.sec <= x.sec
      BY <1>3 DEF Comes, Dated
    <2>3. Ms(y) <= Ms(x)
      BY <1>1, <2>2 DEF Ms
    <2>4. ~(f <= Ms(y))
      BY <1>2, <2>1, <2>3 DEF Query
    <2> QED
      BY <2>1, <2>4 DEF InRange
  <1>4. CASE ~NewestFirst(q)
    <2>1. PICK t \in q.to : Ms(x) > t
      BY <1>4 DEF PastRequestedRange
    <2>2. x.sec <= y.sec
      BY <1>4 DEF Comes, Dated
    <2>3. Ms(x) <= Ms(y)
      BY <1>1, <2>2 DEF Ms
    <2>4. ~(Ms(y) <= t)
      BY <1>2, <2>1, <2>3 DEF Query
    <2> QED
      BY <2>1, <2>4 DEF InRange
  <1> QED
    BY <1>3, <1>4

\* The part that is looked at ends before the first message past the range.
LEMMA UpToPastFacts ==
    ASSUME NEW q, NEW c \in Seq(MessageSet)
    PROVE  \E n \in 0..Len(c) :
             /\ UpToPast(q, c) = SubSeq(c, 1, n)
             /\ n = Len(c) \/ PastRequestedRange(q, Ms(c[n + 1]))
  <1>1. Len(c) \in Nat /\ DOMAIN c = 1..Len(c)
    BY LenProperties
  <1> DEFINE P == {k \in DOMAIN c : PastRequestedRange(q, Ms(c[k]))}
             E == {i - 1 : i \in P}
             n == Min({Len(c)} \cup E)
  <1>2. \A i \in P : i \in Nat /\ i - 1 \in 0..Len(c) /\ PastRequestedRange(q, Ms(c[i]))
    BY <1>1
  <1>3. UpToPast(q, c) = SubSeq(c, 1, n)
    BY DEF UpToPast
  <1> HIDE DEF P
  <1>4. \A e \in E : e \in 0..Len(c) /\ PastRequestedRange(q, Ms(c[e + 1]))
    <2> TAKE e \in E
    <2>1. PICK i \in P : e = i - 1
      OBVIOUS
    <2>2. e + 1 = i
      BY <1>2, <2>1
    <2> QED
      BY <1>2, <2>1, <2>2
  <1> HIDE DEF E, n
  <1>5. n \in {Len(c)} \cup E
    <2>1. {Len(c)} \cup E \subseteq Nat /\ {Len(c)} \cup E # {}
      BY <1>1, <1>4
    <2> QED
      BY <2>1, MinIs DEF n
  <1>6. n \in 0..Len(c)
    BY <1>1, <1>4, <1>5
  <1> QED
    BY <1>3, <1>4, <1>5, <1>6

LEMMA KeptEnough ==
    ASSUME NEW q, Query(q), NEW c, NEW S, Enough(q, c, S, FetchLimit(q)), S \subseteq MessageSet, Dated(S)
    PROVE  Enough(q, KeptOf(q, UpToPast(q, c)), {m \in S : InRange(q, Ms(m))}, q.limit)
  <1> DEFINE W == {m \in S : InRange(q, Ms(m))}
  <1>1. c \in Seq(MessageSet) /\ InOrder(q, c) /\ Range(c) \subseteq S
    BY DEF Enough
  <1>2. /\ Len(c) \in Nat /\ \A i \in 1..Len(c) : c[i] \in Range(c)
        /\ \A x \in Range(c) : \E i \in 1..Len(c) : x = c[i]
    BY <1>1, InTurn
  <1>3. PICK n \in 0..Len(c) :
             /\ UpToPast(q, c) = SubSeq(c, 1, n)
             /\ n = Len(c) \/ PastRequestedRange(q, Ms(c[n + 1]))
    BY <1>1, UpToPastFacts
  <1> DEFINE u == UpToPast(q, c)
  <1>4. /\ u \in Seq(MessageSet) /\ Len(u) = n /\ InOrder(q, u)
        /\ \A i \in 1..n : u[i] = c[i]
    BY <1>1, <1>3, FirstOf
  <1>5. /\ \A i \in 1..Len(u) : u[i] \in Range(u)
        /\ \A x \in Range(u) : \E i \in 1..Len(u) : x = u[i]
    BY <1>4, InTurn
  <1> DEFINE K == {m \in Range(u) : InRange(q, Ms(m))}
             t == Sift(u, K)
  <1>6. KeptOf(q, u) = t
    BY DEF KeptOf
  <1> HIDE DEF u
  <1>7. K \subseteq Range(u)
    OBVIOUS
  <1>8. /\ t \in Seq(MessageSet) /\ Range(t) = Range(u) \cap K /\ InOrder(q, t)
        /\ Range(u) \subseteq K => t = u
    BY <1>4, SiftSet
  <1> HIDE DEF t
  <1>9. \A x \in Range(u) : x \in Range(c)
    <2> TAKE x \in Range(u)
    <2>1. PICK i \in 1..Len(u) : x = u[i]
      BY <1>5
    <2> QED
      BY <1>2, <1>4, <2>1
  <1>10. Range(t) \subseteq W
    BY <1>1, <1>8, <1>9
  <1>11. CASE q.from \cup q.to = {}
    <2>1. \A m : InRange(q, m) /\ ~PastRequestedRange(q, m)
      BY <1>11 DEF InRange, PastRequestedRange
    <2>2. u = c
      BY <1>1, <1>3, <2>1, SubSeqFull DEF u
    <2>3. t = c
      BY <1>8, <2>1, <2>2
    <2>4. W = S
      BY <2>1
    <2>5. FetchLimit(q) = q.limit
      BY <1>11 DEF FetchLimit
    <2> QED
      BY <1>6, <2>3, <2>4, <2>5 DEF u
  <1>12. CASE q.from \cup q.to # {}
    <2>1. Range(c) = S
      BY <1>1, <1>12 DEF FetchLimit, Enough
    <2>2. ASSUME NEW y \in W PROVE y \in Range(t)
      <3>1. y \in S /\ InRange(q, Ms(y))
        OBVIOUS
      <3>2. PICK k \in 1..Len(c) : y = c[k]
        BY <1>2, <2>1, <3>1
      <3>3. CASE k <= n
        <4>1. k \in 1..n
          BY <1>2, <3>3
        <4>2. y \in Range(u)
          BY <1>4, <1>5, <3>2, <4>1
        <4> QED
          BY <1>8, <3>1, <4>2
      <3>4. CASE ~(k <= n)
        <4>1. n + 1 \in 1..Len(c) /\ n # Len(c) /\ (k = n + 1 \/ n + 1 < k)
          BY <1>2, <3>4
        <4>2. PastRequestedRange(q, Ms(c[n + 1])) /\ c[n + 1] \in S
          BY <1>1, <1>2, <1>3, <4>1
        <4>3. CASE k = n + 1
          <5>1. PastRequestedRange(q, Ms(y))
            BY <3>2, <4>2, <4>3
          <5>2. y.sec \in Nat /\ Second \in Nat
            BY <3>1, SelectionAssumption DEF MessageSet
          <5>3. Ms(y) \in Int
            BY <5>2 DEF Ms
          <5>4. \A f \in q.from \cup q.to : f \in Int
            BY DEF Query
          <5> QED
            BY <3>1, <5>1, <5>3, <5>4 DEF PastRequestedRange, InRange
        <4>4. CASE n + 1 < k
          <5>1. Comes(q, c[n + 1], y)
            BY <1>1, <3>2, <4>1, <4>4 DEF InOrder
          <5> QED
            BY <3>1, <4>2, <5>1, PastStays
        <4> QED
          BY <4>1, <4>3, <4>4
      <3> QED
        BY <3>3, <3>4
    <2>3. W \ Range(t) = {}
      BY <2>2
    <2>4. Enough(q, t, W, q.limit)
      <3> HIDE DEF W
      <3> QED
        BY <1>8, <1>10, <2>3 DEF Enough
    <2> QED
      BY <1>6, <2>4 DEF u
  <1> QED
    BY <1>11, <1>12

(***************************************************************************)
(* The dates of a query mean what the operator's bounds say, and the       *)
(* offset excludes only what is out of the bounds.                         *)
(***************************************************************************)
LEMMA QueryFacts ==
    ASSUME NEW args, IsArgs(args), NEW b, b = BackendQuery(ExportQuery(args))
    PROVE  /\ Query(b) /\ Query(ExportQuery(args))
           /\ b.topic = args.topic /\ b.order = args.order
           /\ b.from = {BoundMs(x, FALSE) : x \in args.from}
           /\ b.to = {BoundMs(x, TRUE) : x \in args.to}
           /\ b.limit = {n + 1 : n \in args.limit} /\ Limit(args.limit)
  <1> DEFINE q == ExportQuery(args)
  <1>1. /\ args \in ArgsSet /\ args.limit \subseteq Nat /\ args.topic \in Int
        /\ args.from \subseteq DateBound /\ args.to \subseteq DateBound
    BY DEF IsArgs, ArgsSet
  <1>2. Limit(args.limit)
    BY <1>1 DEF IsArgs, Limit
  <1>3. /\ q.topic = args.topic /\ q.order = args.order /\ q.limit = args.limit
        /\ q.from = {BoundMs(x, FALSE) : x \in args.from}
        /\ q.to = {BoundMs(x, TRUE) : x \in args.to}
    BY DEF ExportQuery
  <1>4. /\ b.topic = q.topic /\ b.order = q.order /\ b.from = q.from /\ b.to = q.to
        /\ b.limit = {n + 1 : n \in q.limit}
    BY DEF BackendQuery, ExportQuery
  <1> HIDE DEF q
  <1>5. Limit(b.limit)
    BY <1>2, <1>3, <1>4 DEF Limit
  <1>6. ASSUME NEW x \in DateBound, NEW up \in BOOLEAN PROVE BoundMs(x, up) \in Int
    <2>1. x.n \in Int /\ Day \in Int /\ (x.unit = "ms" \/ x.unit = "day")
      BY SelectionAssumption DEF DateBound
    <2>2. CASE x.unit = "ms"
      BY <2>1, <2>2 DEF BoundMs
    <2>3. CASE x.unit = "day" /\ up
      <3>1. BoundMs(x, up) = (x.n + 1) * Day - 1
        BY <2>3 DEF BoundMs
      <3> QED
        BY <2>1, <3>1
    <2>4. CASE x.unit = "day" /\ ~up
      <3>1. BoundMs(x, up) = x.n * Day
        BY <2>4 DEF BoundMs
      <3> QED
        BY <2>1, <3>1
    <2> QED
      BY <2>1, <2>2, <2>3, <2>4
  <1>7. b.from \subseteq Int /\ b.to \subseteq Int
    <2>1. \A x \in DateBound : BoundMs(x, FALSE) \in Int /\ BoundMs(x, TRUE) \in Int
      BY <1>6
    <2>2. ASSUME NEW y \in b.from PROVE y \in Int
      <3>1. PICK x \in args.from : y = BoundMs(x, FALSE)
        BY <1>3, <1>4
      <3> QED
        BY <1>1, <2>1, <3>1
    <2>3. ASSUME NEW y \in b.to PROVE y \in Int
      <3>1. PICK x \in args.to : y = BoundMs(x, TRUE)
        BY <1>3, <1>4
      <3> QED
        BY <1>1, <2>1, <3>1
    <2> QED
      BY <2>2, <2>3
  <1> QED
    BY <1>1, <1>2, <1>3, <1>4, <1>5, <1>7 DEF Query, q

LEMMA BoundMeans ==
    ASSUME NEW b \in DateBound, NEW m \in MessageSet
    PROVE  LET date == IF b.unit = "day" THEN Ms(m) \div Day ELSE Ms(m)
           IN  /\ BoundMs(b, FALSE) <= Ms(m) <=> b.n <= date
               /\ Ms(m) <= BoundMs(b, TRUE) <=> date <= b.n
  <1>1. b.n \in Int /\ Day \in Nat \ {0} /\ (b.unit = "ms" \/ b.unit = "day")
    BY SelectionAssumption DEF DateBound
  <1>2. m.sec \in Nat /\ Second \in Nat
    BY SelectionAssumption DEF MessageSet
  <1>3. Ms(m) \in Int
    BY <1>2 DEF Ms
  <1>4. CASE b.unit = "ms"
    BY <1>1, <1>3, <1>4 DEF BoundMs
  <1>5. CASE b.unit = "day"
    <2>1. BoundMs(b, FALSE) = b.n * Day /\ BoundMs(b, TRUE) = (b.n + 1) * Day - 1
      BY <1>5 DEF BoundMs
    <2>2. ASSUME NEW x \in Int, NEW n \in Int, NEW d \in Nat \ {0}
          PROVE  (n * d <= x <=> n <= x \div d) /\ (x <= (n + 1) * d - 1 <=> x \div d <= n)
      OBVIOUS
    <2> QED
      BY <1>1, <1>3, <1>5, <2>1, <2>2
  <1> QED
    BY <1>1, <1>4, <1>5

LEMMA RangeIsWithin ==
    ASSUME NEW args, IsArgs(args), NEW b, b = BackendQuery(ExportQuery(args)), NEW m \in MessageSet
    PROVE  InRange(b, Ms(m)) <=> Within(args, m)
  <1>1. args.from \subseteq DateBound /\ args.to \subseteq DateBound
    BY DEF IsArgs, ArgsSet
  <1>2. b.from = {BoundMs(x, FALSE) : x \in args.from} /\ b.to = {BoundMs(x, TRUE) : x \in args.to}
    BY QueryFacts
  <1> DEFINE date(x) == IF x.unit = "day" THEN Ms(m) \div Day ELSE Ms(m)
  <1>3. /\ \A x \in args.from : BoundMs(x, FALSE) <= Ms(m) <=> x.n <= date(x)
        /\ \A x \in args.to : Ms(m) <= BoundMs(x, TRUE) <=> date(x) <= x.n
    BY <1>1, BoundMeans
  <1>4. Within(args, m) <=> (\A x \in args.from : x.n <= date(x)) /\ (\A x \in args.to : date(x) <= x.n)
    BY DEF Within
  <1> HIDE DEF date
  <1> QED
    BY <1>2, <1>3, <1>4 DEF InRange

LEMMA OffsetSpares ==
    ASSUME NEW q, Query(q), NEW m \in MessageSet, InRange(q, Ms(m)), NEW o \in OffsetDate(q)
    PROVE  IF NewestFirst(q) THEN m.sec < o ELSE m.sec > o
  <1>1. m.sec \in Nat /\ Second \in Nat \ {0} /\ Ms(m) = m.sec * Second
    BY SelectionAssumption DEF MessageSet, Ms
  <1>2. CASE NewestFirst(q)
    <2>1. PICK t \in q.to : o = t \div Second + 1
      BY <1>2 DEF OffsetDate
    <2>2. m.sec * Second <= t /\ t \in Int
      BY <1>1, <2>1 DEF InRange, Query
    <2>3. m.sec <= t \div Second
      BY <1>1, <2>2
    <2> QED
      BY <1>1, <1>2, <2>1, <2>2, <2>3
  <1>3. CASE ~NewestFirst(q)
    <2>1. PICK f \in q.from : o = f \div Second - 1
      BY <1>3 DEF OffsetDate
    <2>2. f <= m.sec * Second /\ f \in Int
      BY <1>1, <2>1 DEF InRange, Query
    <2>3. f \div Second <= m.sec
      BY <1>1, <2>2
    <2> QED
      BY <1>1, <1>3, <2>1, <2>2, <2>3
  <1> QED
    BY <1>2, <1>3

(***************************************************************************)
(* A chat's history, and what is wanted of it.                             *)
(***************************************************************************)
LEMMA HistoryFacts ==
    ASSUME NEW chat, IsChat(chat)
    PROVE  LET s == chat.history
           IN  /\ s \in Seq(MessageSet) /\ Range(s) \subseteq MessageSet /\ Dated(Range(s))
               /\ \A i, j \in 1..Len(s) : i < j => s[i].id < s[j].id
               /\ \A x, y \in Range(s) : x.id = y.id => x = y
  <1> DEFINE s == chat.history
  <1>1. s \in Seq(MessageSet)
    BY DEF IsChat
  <1>2. /\ Len(s) \in Nat /\ DOMAIN s = 1..Len(s)
        /\ \A i \in 1..Len(s) : s[i] \in MessageSet /\ s[i].id \in Nat
        /\ \A x \in Range(s) : \E i \in 1..Len(s) : x = s[i]
    BY <1>1, InTurn
  <1>3. \A i, j \in 1..Len(s) : i < j => s[i].id < s[j].id /\ s[i].sec <= s[j].sec
    BY <1>2 DEF IsChat
  <1>4. \A x \in MessageSet : x.id \in Nat /\ x.sec \in Nat
    BY DEF MessageSet
  <1> HIDE DEF s
  <1>5. ASSUME NEW x \in Range(s), NEW y \in Range(s)
        PROVE  (x.id < y.id => x.sec <= y.sec) /\ (x.id = y.id => x = y)
    <2>1. PICK i \in 1..Len(s) : x = s[i]
      BY <1>2
    <2>2. PICK j \in 1..Len(s) : y = s[j]
      BY <1>2
    <2>3. i < j \/ i = j \/ j < i
      BY <1>2
    <2>4. x.id \in Nat /\ y.id \in Nat /\ x.sec \in Nat
      BY <1>2, <1>4, <2>1, <2>2
    <2>5. CASE i < j
      BY <1>3, <2>1, <2>2, <2>4, <2>5
    <2>6. CASE j < i
      BY <1>3, <2>1, <2>2, <2>4, <2>6
    <2>7. CASE i = j
      BY <2>1, <2>2, <2>4, <2>7
    <2> QED
      BY <2>3, <2>5, <2>6, <2>7
  <1> QED
    BY <1>1, <1>2, <1>3, <1>5 DEF s, Dated

Wanted(history, args) ==
    {x \in Range(history) : Within(args, x) /\ (args.topic = 0 \/ x.topic = args.topic)}

(***************************************************************************)
(* The backends keep enough of what is wanted.                             *)
(***************************************************************************)
LEMMA IterEnough ==
    ASSUME NEW chat, IsChat(chat), NEW q, Query(q)
    PROVE  Enough(q, IterMessages(chat, q), {m \in Range(chat.history) : Listed(chat, q, m)}, FetchLimit(q))
  <1> DEFINE s == chat.history
             S == {m \in Range(s) : Listed(chat, q, m)}
             t == Sift(s, S)
             c == Ordered(q, t)
  <1>1. /\ s \in Seq(MessageSet)
        /\ \A i, j \in 1..Len(s) : i < j => s[i].id < s[j].id
    BY HistoryFacts
  <1>2. S \subseteq Range(s)
    OBVIOUS
  <1> HIDE DEF S
  <1> DEFINE up == [order |-> "oldest_first"]
  <1>3. ~NewestFirst(up)
    BY DEF NewestFirst
  <1>4. t \in Seq(MessageSet) /\ Range(t) = S /\ InOrder(up, t)
    <2>1. InOrder(up, s)
      BY <1>1, <1>3 DEF InOrder, Comes
    <2>2. t \in Seq(MessageSet) /\ Range(t) = Range(s) \cap S /\ (InOrder(up, s) => InOrder(up, t))
      BY <1>1, SiftSet
    <2> QED
      BY <1>2, <2>1, <2>2
  <1> HIDE DEF t
  <1>5. c \in Seq(MessageSet) /\ Range(c) = S /\ InOrder(q, c)
    <2>1. \A i, j \in 1..Len(t) : i < j => t[i].id < t[j].id
      BY <1>3, <1>4 DEF InOrder, Comes
    <2>2. \A x \in MessageSet : x.id \in Nat
      BY DEF MessageSet
    <2> QED
      BY <1>4, <2>1, <2>2, OrderedFacts
  <1>6. Limit(FetchLimit(q))
    BY DEF FetchLimit, Query, Limit
  <1>7. Enough(q, Take(c, FetchLimit(q)), S, FetchLimit(q))
    BY <1>5, <1>6, TakeEnough
  <1> QED
    BY <1>7 DEF IterMessages, S, t

LEMMA KeepsWanted ==
    ASSUME NEW chat, IsChat(chat), NEW args, IsArgs(args), ~Refuses(chat, ExportQuery(args)),
           NEW b, b = BackendQuery(ExportQuery(args))
    PROVE  Enough(b, KeptOf(b, UpToPast(b, Candidates(chat, b))), Wanted(chat.history, args), b.limit)
  <1> DEFINE s == chat.history
             S == {m \in Range(s) : Listed(chat, b, m)}
  <1>1. /\ s \in Seq(MessageSet) /\ Range(s) \subseteq MessageSet /\ Dated(Range(s))
        /\ \A x, y \in Range(s) : x.id = y.id => x = y
    BY HistoryFacts
  <1>2. Query(b) /\ b.topic = args.topic /\ b.order = args.order
    BY QueryFacts
  <1>3. Enough(b, IterMessages(chat, b), S, FetchLimit(b))
    BY <1>2, IterEnough
  <1>4. \A m \in Range(s) : InRange(b, Ms(m)) <=> Within(args, m)
    BY <1>1, RangeIsWithin
  <1>5. ASSUME NEW m \in Range(s), InRange(b, Ms(m)), b.topic = 0 \/ (m.topic = b.topic /\ m.id # b.topic)
        PROVE  m \in S
    <2>1. \A o \in OffsetDate(b) : IF NewestFirst(b) THEN m.sec < o ELSE m.sec > o
      BY <1>1, <1>2, <1>5, OffsetSpares
    <2> QED
      BY <1>5, <2>1 DEF Listed
  <1>6. \A m \in S : b.topic = 0 \/ m.topic = b.topic
    BY DEF Listed
  <1>7. S \subseteq Range(s)
    OBVIOUS
  <1> HIDE DEF S
  <1>8. ASSUME NEW C, NEW U, Enough(b, C, U, FetchLimit(b)), U \subseteq Range(s)
        PROVE  Enough(b, KeptOf(b, UpToPast(b, C)), {m \in U : InRange(b, Ms(m))}, b.limit)
    <2>1. U \subseteq MessageSet /\ Dated(U)
      BY <1>1, <1>8 DEF Dated
    <2> QED
      BY <1>2, <1>8, <2>1, KeptEnough
  <1>9. CASE b.topic = 0
    <2>1. {m \in S : InRange(b, Ms(m))} = Wanted(s, args)
      BY <1>2, <1>4, <1>5, <1>7, <1>9 DEF Wanted
    <2>2. Candidates(chat, b) = IterMessages(chat, b)
      BY <1>9 DEF Candidates
    <2> QED
      BY <1>3, <1>7, <1>8, <2>1, <2>2
  <1>10. CASE b.topic # 0
    <2> DEFINE root == CHOOSE m \in Roots(chat, b) : TRUE
    <2>1. b.topic \in chat.topics /\ Roots(chat, b) # {}
      <3>1. ExportQuery(args).topic = b.topic
        BY <1>2 DEF ExportQuery
      <3> QED
        BY <1>10, <3>1 DEF Refuses, ResolvesForumTopic, Roots
    <2>2. root \in Range(s) /\ root.id = b.topic
      BY <2>1 DEF Roots
    <2>3. Candidates(chat, b) = MergeTopicRoot(root, IterMessages(chat, b), b)
      BY <1>10 DEF Candidates
    <2> HIDE DEF root
    <2>4. root.topic = b.topic
      BY <2>1, <2>2 DEF IsChat
    <2>5. ASSUME NEW m \in S, m # root PROVE root.id < m.id
      <3>1. m \in Range(s) /\ m.topic = b.topic
        BY <1>6, <1>7, <1>10
      <3>2. m.topic <= m.id
        BY <3>1 DEF IsChat
      <3>3. m.id # root.id
        BY <1>1, <2>2, <2>5, <3>1
      <3>4. m.id \in Nat /\ b.topic \in Int
        BY <1>1, <1>2, <3>1 DEF MessageSet, Query
      <3> QED
        BY <2>2, <3>1, <3>2, <3>3, <3>4
    <2>6. Limit(FetchLimit(b))
      BY <1>2 DEF FetchLimit, Query, Limit
    <2>7. Enough(b, MergeTopicRoot(root, IterMessages(chat, b), b), S \cup {root}, FetchLimit(b))
      <3>1. S \subseteq MessageSet /\ root \in MessageSet
        BY <1>1, <1>7, <2>2
      <3> QED
        BY <1>3, <2>5, <2>6, <3>1, MergeEnough
    <2>8. {m \in S \cup {root} : InRange(b, Ms(m))} = Wanted(s, args)
      <3>1. ASSUME NEW m \in S \cup {root}, InRange(b, Ms(m)) PROVE m \in Wanted(s, args)
        <4>1. m \in Range(s) /\ m.topic = b.topic
          BY <1>6, <1>7, <1>10, <2>2, <2>4
        <4> QED
          BY <1>2, <1>4, <3>1, <4>1 DEF Wanted
      <3>2. ASSUME NEW m \in Wanted(s, args) PROVE m \in S \cup {root} /\ InRange(b, Ms(m))
        <4>1. m \in Range(s) /\ m.topic = b.topic /\ InRange(b, Ms(m))
          BY <1>2, <1>4, <1>10 DEF Wanted
        <4>2. CASE m.id = b.topic
          BY <1>1, <2>2, <4>1, <4>2
        <4>3. CASE m.id # b.topic
          BY <1>5, <4>1, <4>3
        <4> QED
          BY <4>1, <4>2, <4>3
      <3> QED
        BY <3>1, <3>2
    <2>9. S \cup {root} \subseteq Range(s)
      BY <1>7, <2>2
    <2> QED
      BY <1>8, <2>3, <2>7, <2>8, <2>9
  <1> QED
    BY <1>9, <1>10

\* The mock offers its whole history.
LEMMA MockKeepsWanted ==
    ASSUME NEW chat, IsChat(chat), NEW args, IsArgs(args),
           NEW b, b = BackendQuery(ExportQuery(args))
    PROVE  Enough(b, KeptOf(b, Ordered(b, chat.history)),
                  Wanted(chat.history, [args EXCEPT !.topic = 0]), b.limit)
  <1> DEFINE s == chat.history
             c == Ordered(b, s)
             K == {m \in Range(c) : InRange(b, Ms(m))}
             t == Sift(c, K)
  <1>1. /\ s \in Seq(MessageSet) /\ Range(s) \subseteq MessageSet
        /\ \A i, j \in 1..Len(s) : i < j => s[i].id < s[j].id
        /\ \A x \in MessageSet : x.id \in Nat
    BY HistoryFacts DEF MessageSet
  <1>2. c \in Seq(MessageSet) /\ Range(c) = Range(s) /\ InOrder(b, c)
    BY <1>1, OrderedFacts
  <1>3. KeptOf(b, c) = t
    BY DEF KeptOf
  <1>4. K = Wanted(s, [args EXCEPT !.topic = 0])
    <2> DEFINE whole == [args EXCEPT !.topic = 0]
    <2>1. whole.topic = 0 /\ whole.from = args.from /\ whole.to = args.to
      BY DEF IsArgs, ArgsSet
    <2>2. \A m : Within(whole, m) <=> Within(args, m)
      BY <2>1 DEF Within
    <2>3. \A m \in Range(s) : InRange(b, Ms(m)) <=> Within(args, m)
      BY <1>1, RangeIsWithin
    <2> HIDE DEF whole
    <2>4. K = Wanted(s, whole)
      BY <1>2, <2>1, <2>2, <2>3 DEF Wanted
    <2> QED
      BY <2>4 DEF whole
  <1>5. K \subseteq Range(c)
    OBVIOUS
  <1> HIDE DEF c, K
  <1>6. t \in Seq(MessageSet) /\ Range(t) = Range(c) \cap K /\ InOrder(b, t)
    BY <1>2, SiftSet
  <1>7. Range(t) = K
    BY <1>5, <1>6
  <1> HIDE DEF t
  <1>8. Enough(b, t, K, b.limit)
    BY <1>6, <1>7 DEF Enough
  <1> QED
    BY <1>3, <1>4, <1>8 DEF c

Leads(args, x, y) == IF args.order = "newest_first" THEN x > y ELSE x < y

(***************************************************************************)
(* With enough kept, one message more than the limit tells the server      *)
(* whether anything is left, and what it sends answers the question.       *)
(***************************************************************************)
LEMMA EnoughAnswers ==
    ASSUME NEW args, IsArgs(args), NEW q, q = ExportQuery(args), NEW b, b = BackendQuery(q),
           NEW W, W \subseteq MessageSet, \A x, y \in W : x.id = y.id => x = y,
           NEW kept, Enough(b, kept, W, b.limit),
           NEW T, NEW found \in Seq(T), Len(found) = Len(Take(kept, b.limit)),
           \A i \in 1..Len(found) : found[i].id = Take(kept, b.limit)[i].id
    PROVE  Answers(Served(found, q), {m.id : m \in W}, args)
  <1>1. /\ b.limit = {n + 1 : n \in args.limit} /\ b.order = args.order
        /\ Limit(args.limit) /\ Limit(b.limit)
    BY QueryFacts DEF Query
  <1>2. q.limit = args.limit /\ (NewestFirst(b) <=> args.order = "newest_first")
    BY <1>1 DEF ExportQuery, NewestFirst
  <1>3. kept \in Seq(MessageSet) /\ InOrder(b, kept) /\ Range(kept) \subseteq W
    BY DEF Enough
  <1>4. /\ Len(kept) \in Nat
        /\ \A i \in 1..Len(kept) : kept[i] \in MessageSet /\ kept[i].id \in Nat /\ kept[i] \in Range(kept)
        /\ \A x \in Range(kept) : \E i \in 1..Len(kept) : x = kept[i]
    BY <1>3, InTurn
  <1> DEFINE t == Take(kept, b.limit)
             sent == Take(found, q.limit)
  <1>5. /\ Len(t) \in Nat /\ Len(t) <= Len(kept)
        /\ \A i \in 1..Len(t) : t[i] = kept[i]
        /\ \A n \in b.limit : Len(t) <= n
        /\ Len(t) = Len(kept) \/ Len(t) \in b.limit
    <2>1. TakenFrom(MessageSet, kept, b.limit, t)
      BY <1>1, <1>3, TakeFacts
    <2> QED
      BY <2>1 DEF TakenFrom
  <1>6. /\ sent \in Seq(T) /\ Len(sent) \in Nat /\ Len(sent) <= Len(found)
        /\ \A i \in 1..Len(sent) : sent[i] = found[i]
        /\ \A n \in q.limit : Len(sent) <= n
        /\ Len(sent) = Len(found) \/ Len(sent) \in q.limit
    <2>1. Limit(q.limit)
      BY <1>1, <1>2
    <2>2. TakenFrom(T, found, q.limit, sent)
      BY <2>1, TakeFacts
    <2> QED
      BY <2>2 DEF TakenFrom
  <1>7. Len(found) = Len(t) /\ \A i \in 1..Len(found) : found[i].id = t[i].id
    OBVIOUS
  <1> DEFINE len == Len(sent)
             total == Len(kept)
             Before(x, y) == IF args.order = "newest_first" THEN x > y ELSE x < y
             asked == {m.id : m \in W}
             told == {sent[i].id : i \in DOMAIN sent}
             rest == asked \ told
  <1>8. DOMAIN sent = 1..len
    BY <1>6, LenProperties
  <1>9. Served(found, q) = [messages |-> sent, truncated |-> Len(found) > len]
    BY DEF Served
  <1> HIDE DEF t, sent
  <1>10. len \in Nat /\ total \in Nat /\ len <= total /\ \A i \in 1..len : sent[i].id = kept[i].id
    <2>1. len <= Len(found) /\ Len(found) <= total
      BY <1>5, <1>6, <1>7
    <2>2. ASSUME NEW i \in 1..len PROVE sent[i].id = kept[i].id
      <3>1. i \in 1..Len(found) /\ i \in 1..Len(t)
        BY <1>5, <1>6, <1>7, <2>1
      <3> QED
        BY <1>5, <1>6, <1>7, <3>1
    <2> QED
      BY <1>4, <1>5, <1>6, <1>7, <2>1, <2>2
  \* All is sent, or as much as the limit allows and something is left.
  <1>11. \/ len = total /\ Len(found) = len /\ \A n \in args.limit : total <= n
         \/ len < total /\ Len(found) > len /\ args.limit = {len}
    <2>1. CASE args.limit = {}
      <3>1. b.limit = {} /\ q.limit = {}
        BY <1>1, <1>2, <2>1
      <3> QED
        BY <1>5, <1>6, <1>7, <2>1, <3>1
    <2>2. ASSUME NEW n \in args.limit
          PROVE  \/ len = total /\ Len(found) = len /\ \A m \in args.limit : total <= m
                 \/ len < total /\ Len(found) > len /\ args.limit = {len}
      <3>1. n \in Nat /\ args.limit = {n} /\ b.limit = {n + 1} /\ q.limit = {n}
        BY <1>1, <1>2, <2>2 DEF Limit
      <3>2. Len(t) <= n + 1 /\ (Len(t) = total \/ Len(t) = n + 1)
        BY <1>5, <3>1
      <3>3. len <= n /\ (len = Len(t) \/ len = n)
        BY <1>6, <1>7, <3>1
      <3> QED
        BY <1>5, <1>6, <1>7, <1>10, <3>1, <3>2, <3>3
    <2> QED
      BY <2>1, <2>2
  <1> HIDE DEF len, total
  <1>12. told \subseteq asked
    <2> SUFFICES ASSUME NEW i \in 1..len PROVE sent[i].id \in asked
      BY <1>8
    <2>1. i \in 1..total /\ kept[i] \in W
      BY <1>3, <1>4, <1>10 DEF total
    <2> QED
      BY <1>10, <2>1
  <1>13. \A i, j \in 1..len : i < j => Before(sent[i].id, sent[j].id)
    <2> SUFFICES ASSUME NEW i \in 1..len, NEW j \in 1..len, i < j PROVE Before(sent[i].id, sent[j].id)
      OBVIOUS
    <2>1. i \in 1..total /\ j \in 1..total
      BY <1>10
    <2>2. Comes(b, kept[i], kept[j])
      BY <1>3, <2>1 DEF InOrder, total
    <2> QED
      BY <1>2, <1>10, <2>2 DEF Comes
  \* What is left comes behind all that is sent.
  <1>14. ASSUME NEW y \in W, y.id \in rest
         PROVE  len < total /\ \A i \in 1..len : Comes(b, kept[i], y)
    <2>1. \A i \in 1..len : kept[i].id # y.id
      BY <1>8, <1>10, <1>14
    <2>2. CASE y \in Range(kept)
      <3>1. PICK k \in 1..total : y = kept[k]
        BY <1>4, <2>2 DEF total
      <3>2. len < k
        BY <1>10, <2>1, <3>1
      <3>3. ASSUME NEW i \in 1..len PROVE Comes(b, kept[i], y)
        <4>1. i \in 1..total /\ i < k
          BY <1>10, <3>2
        <4> QED
          BY <1>3, <3>1, <4>1 DEF InOrder, total
      <3> QED
        BY <1>10, <3>2, <3>3
    <2>3. CASE y \notin Range(kept)
      <3>1. PICK n \in b.limit : n <= total /\ \A i \in 1..n : Comes(b, kept[i], y)
        BY <1>14, <2>3 DEF Enough, total
      <3>2. PICK k \in args.limit : n = k + 1
        BY <1>1
      <3>3. k \in Nat
        BY <1>1 DEF Limit
      <3>4. len < total /\ k = len
        BY <1>10, <1>11, <3>1, <3>2, <3>3
      <3>5. \A i \in 1..len : i \in 1..n
        BY <1>10, <3>2, <3>4
      <3> QED
        BY <3>1, <3>4, <3>5
    <2> QED
      BY <2>2, <2>3
  <1>15. rest # {} <=> len < total
    <2>1. CASE rest # {}
      <3>1. PICK y \in W : y.id \in rest
        BY <2>1
      <3> QED
        BY <1>14, <2>1, <3>1
    <2>2. CASE len < total
      <3>1. len + 1 \in 1..total /\ kept[len + 1] \in W
        BY <1>3, <1>4, <1>10, <2>2 DEF total
      <3>2. kept[len + 1].id \in asked
        BY <3>1
      <3>3. ASSUME NEW i \in 1..len PROVE sent[i].id # kept[len + 1].id
        <4>1. i \in 1..total /\ i < len + 1
          BY <1>10, <2>2
        <4>2. Comes(b, kept[i], kept[len + 1])
          BY <1>3, <3>1, <4>1 DEF InOrder, total
        <4>3. kept[i].id \in Nat /\ kept[len + 1].id \in Nat
          BY <1>4, <3>1, <4>1 DEF total
        <4> QED
          BY <1>10, <4>2, <4>3 DEF Comes
      <3>4. kept[len + 1].id \notin told
        BY <1>8, <3>3
      <3> QED
        BY <2>2, <3>2, <3>4
    <2> QED
      BY <2>1, <2>2
  <1>16. \A x \in told, y \in rest : Before(x, y)
    <2> SUFFICES ASSUME NEW i \in 1..len, NEW y \in W, y.id \in rest PROVE Before(sent[i].id, y.id)
      BY <1>8
    <2>1. Comes(b, kept[i], y)
      BY <1>14
    <2> QED
      BY <1>2, <1>10, <2>1 DEF Comes
  <1>17. rest # {} => args.limit = {len}
    BY <1>10, <1>11, <1>15
  <1>18. (Len(found) > len) = (rest # {})
    <2>1. Len(found) > len <=> rest # {}
      BY <1>6, <1>10, <1>11, <1>15
    <2>2. Len(found) \in Int /\ len \in Int
      BY <1>5, <1>7, <1>10
    <2>3. (Len(found) > len) \in BOOLEAN /\ (rest # {}) \in BOOLEAN
      BY <2>2
    <2> QED
      BY <2>1, <2>3
  <1>19. ASSUME NEW result, result = Served(found, q) PROVE Answers(result, asked, args)
    <2>1. result.messages = sent /\ result.truncated = (Len(found) > len)
      BY <1>9, <1>19
    <2>2. \A i, j \in DOMAIN sent : i < j => Leads(args, sent[i].id, sent[j].id)
      BY <1>8, <1>13 DEF Leads
    <2>3. rest # {} => args.limit = {Len(sent)}
      BY <1>17 DEF len
    <2>4. result.truncated = (rest # {})
      BY <1>18, <2>1
    <2>5. \A x \in told, y \in rest : Leads(args, x, y)
      BY <1>16 DEF Leads
    <2>6. told = {sent[i].id : i \in DOMAIN sent} /\ rest = asked \ told /\ told \subseteq asked
      BY <1>12
    <2>7. result.messages = sent
      BY <2>1
    <2> HIDE DEF told, rest, asked
    <2> QED
      BY <2>2, <2>3, <2>4, <2>5, <2>6, <2>7 DEF Answers, Leads
  <1> QED
    BY <1>19

\* What is done to each element keeps the length.
LEMMA Relabelled ==
    ASSUME NEW T, NEW s \in Seq(T), NEW f, f = [i \in DOMAIN s |-> f[i]]
    PROVE  f \in Seq(Range(f)) /\ Len(f) = Len(s) /\ DOMAIN f = 1..Len(s)
  <1>1. Len(s) \in Nat /\ DOMAIN s = 1..Len(s)
    BY LenProperties
  <1>2. f \in [1..Len(s) -> Range(f)]
    BY <1>1 DEF Range
  <1>3. f \in Seq(Range(f))
    BY <1>1, <1>2, SeqDef
  <1>4. DOMAIN f = 1..Len(s)
    BY <1>1
  <1>5. Len(f) \in Nat /\ DOMAIN f = 1..Len(f)
    BY <1>3, LenProperties
  <1> QED
    BY <1>1, <1>3, <1>4, <1>5

LEMMA RuntimeAnswers ==
    ASSUME NEW chat, IsChat(chat), NEW args, IsArgs(args), ~Refuses(chat, ExportQuery(args))
    PROVE  /\ Answers(Exported(chat, args), Asked(chat.history, args), args)
           /\ Exported(chat, args).messages \in Seq(Range(Exported(chat, args).messages))
  <1> DEFINE q == ExportQuery(args)
             b == BackendQuery(q)
             kept == KeptOf(b, UpToPast(b, Candidates(chat, b)))
             t == Take(kept, b.limit)
             found == Identify(chat, b, t)
  <1>1. Enough(b, kept, Wanted(chat.history, args), b.limit)
    BY KeepsWanted
  <1>2. Limit(b.limit) /\ Limit(args.limit)
    BY QueryFacts DEF Query
  <1>3. Exported(chat, args) = Served(found, q)
    BY DEF Exported, ExportOnRuntime
  <1> HIDE DEF kept
  <1>4. t \in Seq(MessageSet)
    <2>1. kept \in Seq(MessageSet)
      BY <1>1 DEF Enough
    <2>2. TakenFrom(MessageSet, kept, b.limit, t)
      BY <1>2, <2>1, TakeFacts
    <2> QED
      BY <2>2 DEF TakenFrom
  <1> HIDE DEF t
  <1>5. found = [i \in DOMAIN t |-> [id |-> t[i].id, topic |-> MessageTopicId(t[i], b, chat.forum)]]
    BY DEF Identify
  <1> HIDE DEF found
  <1>6. found = [i \in DOMAIN t |-> found[i]] /\ \A i \in DOMAIN t : found[i].id = t[i].id
    BY <1>5
  <1>7. found \in Seq(Range(found)) /\ Len(found) = Len(t) /\ DOMAIN found = 1..Len(t)
    BY <1>4, <1>6, Relabelled
  <1>8. DOMAIN t = 1..Len(t)
    BY <1>4, LenProperties
  <1>9. \A i \in 1..Len(found) : found[i].id = t[i].id
    BY <1>6, <1>7, <1>8
  <1> DEFINE W == Wanted(chat.history, args)
  <1>10. W \subseteq MessageSet /\ \A x, y \in W : x.id = y.id => x = y
    BY HistoryFacts DEF Wanted
  <1>11. {m.id : m \in W} = Asked(chat.history, args)
    BY DEF Wanted, Asked
  <1> HIDE DEF W, q, b
  <1>12. Answers(Served(found, q), {m.id : m \in W}, args)
    BY <1>1, <1>7, <1>9, <1>10, EnoughAnswers DEF t, q, b, W
  <1>13. q.limit = args.limit
    BY DEF q, ExportQuery
  <1>14. Take(found, q.limit) \in Seq(Range(found))
    <2>1. TakenFrom(Range(found), found, q.limit, Take(found, q.limit))
      BY <1>2, <1>7, <1>13, TakeFacts
    <2> QED
      BY <2>1 DEF TakenFrom
  <1>15. Take(found, q.limit) \in Seq(Range(Take(found, q.limit)))
    <2> DEFINE sent == Take(found, q.limit)
    <2>1. sent = [i \in DOMAIN sent |-> sent[i]]
      <3>1. sent \in [1..Len(sent) -> Range(found)]
        BY <1>14, LenProperties
      <3> QED
        BY <3>1
    <2> HIDE DEF sent
    <2> QED
      BY <1>14, <2>1, Relabelled DEF sent
  <1>16. Served(found, q).messages = Take(found, q.limit)
    BY DEF Served
  <1> QED
    BY <1>3, <1>11, <1>12, <1>15, <1>16

LEMMA MockAnswers ==
    ASSUME NEW chat, IsChat(chat), NEW args, IsArgs(args),
           NEW whole, whole = [args EXCEPT !.topic = 0]
    PROVE  Answers(MockExported(chat.history, args), Asked(chat.history, whole), whole)
  <1> DEFINE q == ExportQuery(args)
             b == BackendQuery(q)
             kept == KeptOf(b, Ordered(b, chat.history))
             t == Take(kept, b.limit)
             found == MockExport(chat.history, b)
             W == Wanted(chat.history, whole)
  <1>1. Enough(b, kept, W, b.limit)
    BY MockKeepsWanted
  <1>2. Limit(b.limit)
    BY QueryFacts DEF Query
  <1>3. MockExported(chat.history, args) = Served(found, q)
    BY DEF MockExported
  <1>4. found = [i \in DOMAIN t |-> [id |-> t[i].id, topic |-> b.topic]]
    BY DEF MockExport
  <1> HIDE DEF kept
  <1>5. t \in Seq(MessageSet)
    <2>1. kept \in Seq(MessageSet)
      BY <1>1 DEF Enough
    <2>2. TakenFrom(MessageSet, kept, b.limit, t)
      BY <1>2, <2>1, TakeFacts
    <2> QED
      BY <2>2 DEF TakenFrom
  <1> HIDE DEF t, found
  <1>6. found = [i \in DOMAIN t |-> found[i]] /\ \A i \in DOMAIN t : found[i].id = t[i].id
    BY <1>4
  <1>7. found \in Seq(Range(found)) /\ Len(found) = Len(t) /\ DOMAIN found = 1..Len(t)
    BY <1>5, <1>6, Relabelled
  <1>8. DOMAIN t = 1..Len(t)
    BY <1>5, LenProperties
  <1>9. \A i \in 1..Len(found) : found[i].id = t[i].id
    BY <1>6, <1>7, <1>8
  <1>10. W \subseteq MessageSet /\ \A x, y \in W : x.id = y.id => x = y
    BY HistoryFacts DEF Wanted
  <1>11. {m.id : m \in W} = Asked(chat.history, whole)
    BY DEF Wanted, Asked
  <1> HIDE DEF W, q, b
  <1>12. Answers(Served(found, q), {m.id : m \in W}, args)
    BY <1>1, <1>7, <1>9, <1>10, EnoughAnswers DEF t, q, b
  <1>13. whole.order = args.order /\ whole.limit = args.limit
    BY DEF IsArgs, ArgsSet
  <1>14. ASSUME NEW result, NEW asked, Answers(result, asked, args) PROVE Answers(result, asked, whole)
    BY <1>13, <1>14 DEF Answers
  <1> QED
    BY <1>3, <1>11, <1>12, <1>14

LEMMA SelectsAll ==
    ASSUME job \in Jobs
    PROVE  ExportSelects
  <1>1. IsChat(job.chat) /\ IsArgs(job.args)
    BY JobsAssumption
  <1>2. ~Refused(job) => ~Refuses(job.chat, ExportQuery(job.args))
    BY DEF Refused
  <1>3. ~Refused(job) => Answers(Result(job), Asked(job.chat.history, job.args), job.args)
    BY <1>1, <1>2, RuntimeAnswers DEF Result
  <1>4. Answers(MockExported(job.chat.history, job.args),
                Asked(job.chat.history, [job.args EXCEPT !.topic = 0]), [job.args EXCEPT !.topic = 0])
    BY <1>1, MockAnswers
  <1> QED
    BY <1>3, <1>4 DEF ExportSelects
-----------------------------------------------------------------------------
LineSet == Range(Earlier) \cup UNION {Range(Lines(j)) : j \in {k \in Jobs : ~Refused(k)}}

FileSet == [data : Seq(LineSet), synced : Nat, whole : BOOLEAN]

IsFile(x) == x = {} \/ \E f \in FileSet : x = {f}

\* On the disk to its end.
Complete(x) == \A f \in x : f.whole /\ f.synced = Len(f.data)

(***************************************************************************)
(* What is exported, and what files are made of.                           *)
(***************************************************************************)
LEMMA LinesAreSeq ==
    /\ Earlier \in Seq(LineSet)
    /\ \A j \in Jobs : ~Refused(j) => Lines(j) \in Seq(LineSet)
  <1>1. Range(Earlier) \subseteq LineSet
    BY DEF LineSet
  <1>2. ASSUME NEW j \in Jobs, ~Refused(j) PROVE Range(Lines(j)) \subseteq LineSet
    BY <1>2 DEF LineSet
  <1>3. ASSUME NEW j \in Jobs, ~Refused(j) PROVE Lines(j) \in Seq(LineSet)
    <2>1. Lines(j) \in Seq(Range(Lines(j)))
      <3>1. IsChat(j.chat) /\ IsArgs(j.args) /\ ~Refuses(j.chat, ExportQuery(j.args))
        BY <1>3, JobsAssumption DEF Refused
      <3> QED
        BY <3>1, RuntimeAnswers DEF Lines, Result
    <2> QED
      BY <2>1, <1>2, <1>3, SeqMonotonic
  <1> QED
    BY <1>1, <1>3, JobsAssumption, SeqMonotonic

\* A power loss leaves a file, and leaves a complete one as it is.
LEMMA SurvivorsFacts ==
    ASSUME NEW x, IsFile(x), NEW y \in Survivors(x)
    PROVE  IsFile(y) /\ (Complete(x) => y = x)
  <1>1. CASE x = {}
    BY <1>1 DEF Survivors, IsFile
  <1>2. ASSUME NEW f \in FileSet, x = {f}
        PROVE  IsFile(y) /\ (Complete(x) => y = x)
    <2>1. PICK g \in Left(f) : y = {g}
      BY <1>2 DEF Survivors
    <2>2. PICK n \in f.synced..Len(f.data) :
              g = [data |-> SubSeq(f.data, 1, n), synced |-> n, whole |-> f.whole /\ n = Len(f.data)]
      BY <2>1 DEF Left, File
    <2>3. f.data \in Seq(LineSet) /\ f.synced \in Nat /\ Len(f.data) \in Nat
          /\ f = [data |-> f.data, synced |-> f.synced, whole |-> f.whole]
      BY LenProperties DEF FileSet
    <2>4. n \in Nat /\ n <= Len(f.data)
      BY <2>3
    <2>5. SubSeq(f.data, 1, n) \in Seq(LineSet)
      <3>1. \A i \in 1..n : f.data[i] \in LineSet
        BY <2>3, <2>4, ElementOfSeq
      <3> QED
        BY <2>4, <3>1, SubSeqProperties
    <2>6. (f.whole /\ n = Len(f.data)) \in BOOLEAN
      OBVIOUS
    <2>7. IsFile(y)
      BY <2>1, <2>2, <2>4, <2>5, <2>6 DEF IsFile, FileSet
    <2>8. ASSUME Complete(x) PROVE y = x
      <3>1. f.whole /\ f.synced = Len(f.data)
        BY <2>8, <1>2 DEF Complete
      <3>2. n = Len(f.data)
        BY <3>1, <2>3
      <3>3. SubSeq(f.data, 1, n) = f.data
        BY <3>2, <2>3, SubSeqFull
      <3>4. (f.whole /\ n = Len(f.data)) = f.whole
        BY <3>1, <3>2 DEF FileSet
      <3> QED
        BY <1>2, <2>1, <2>2, <2>3, <3>1, <3>2, <3>3, <3>4
    <2> QED
      BY <2>7, <2>8
  <1> QED
    BY <1>1, <1>2 DEF IsFile
-----------------------------------------------------------------------------
(***************************************************************************)
(* The inductive invariant: the output file is untouched until the         *)
(* replacement, and what is replaced is a whole export on the disk.        *)
(***************************************************************************)
FilesInv ==
    /\ IsFile(final) /\ IsFile(part) /\ IsFile(before)
    /\ Complete(final) /\ Complete(before)
    /\ \A files \in undone : IsFile(files.final) /\ Complete(files.final) /\ IsFile(files.part)

\* The .part file holds what was written so far.
Streamed ==
    job.toFile =>
        /\ part # {}
        /\ \A f \in part :
             /\ given = 0 => f.data = <<>>
             /\ given > 0 => /\ ~Refused(job) /\ given <= Len(Lines(job))
                             /\ f.data = SubSeq(Lines(job), 1, given)

Told ==
    /\ final = before \/ Holds(final, Lines(job)) \/ (code = "off" /\ runs > 1)
    /\ code = "ok" /\ job.toFile => Holds(final, Lines(job))

RunInv ==
    /\ run \in Stages /\ job \in Jobs /\ given \in Nat /\ runs \in Nat
    /\ run \in {"query", "open", "start", "stream", "sync", "replace"} => final = before /\ code = "none"
    /\ run = "start" => given = 0 /\ (job.toFile => part # {} /\ \A f \in part : f.data = <<>>)
    /\ run \in {"query", "open"} => given = 0
    /\ run = "stream" => Streamed
    /\ run \in {"sync", "replace"} => Holds(part, Lines(job)) /\ \A f \in part : f.whole
    /\ run = "replace" => \A f \in part : f.synced = Len(f.data)
    /\ run # "idle" => runs # 0
    /\ run = "close" => Told /\ code # "off"
    /\ run = "idle" /\ runs > 0 => Told

\* In the first run only its own replacement can be undone.
UndoInv ==
    /\ runs = 0 => undone = {}
    /\ runs = 1 => \A files \in undone : files.final = before

ExportInv == FilesInv /\ RunInv /\ UndoInv

LEMMA ExportInvInit == ExportInit => ExportInv
  <1> SUFFICES ASSUME ExportInit PROVE ExportInv
    OBVIOUS
  <1>1. Len(Earlier) \in Nat
    BY LinesAreSeq, LenProperties
  <1>2. IsFile(File(Earlier, Len(Earlier), TRUE)) /\ Complete(File(Earlier, Len(Earlier), TRUE))
    <2> DEFINE g == [data |-> Earlier, synced |-> Len(Earlier), whole |-> TRUE]
    <2>1. g \in FileSet /\ g.whole /\ g.synced = Len(g.data)
      BY <1>1, LinesAreSeq DEF FileSet
    <2>2. File(Earlier, Len(Earlier), TRUE) = {g}
      BY DEF File
    <2> HIDE DEF g
    <2> QED
      BY <2>1, <2>2 DEF IsFile, Complete
  <1>3. FilesInv
    BY <1>2 DEF ExportInit, FilesInv, IsFile, Complete
  <1> QED
    BY <1>3 DEF ExportInit, ExportInv, RunInv, UndoInv, Stages

\* A step that raises, before the replacement or after it.
LEMMA RaisesKeeps ==
    ASSUME ExportInv, NEW from, NEW to, Raises(from, to), to \in {"idle", "close"},
           from \in {"query", "open", "start", "stream", "sync", "replace", "close"}
    PROVE  ExportInv'
  <1>1. FilesInv'
    BY DEF ExportInv, FilesInv, Raises, IsFile, Complete
  <1>2. Told'
    BY DEF ExportInv, RunInv, Raises, Goes, Told
  <1> QED
    BY <1>1, <1>2 DEF ExportInv, RunInv, UndoInv, Raises, Goes, Stages

LEMMA WriteKeeps == ASSUME ExportInv, WriteMessage PROVE ExportInv'
  <1> USE DEF ExportInv
  <1>1. /\ run = "stream" /\ run' = "stream" /\ ~Refused(job) /\ given < Len(Lines(job))
        /\ given' = given + 1 /\ job \in Jobs /\ given \in Nat
        /\ UNCHANGED <<job, final, before, undone, code, runs>>
    BY DEF WriteMessage, Goes, RunInv
  <1>2. Lines(job) \in Seq(LineSet) /\ Len(Lines(job)) \in Nat
    BY <1>1, LinesAreSeq, LenProperties
  <1>3. given' \in 1..Len(Lines(job)) /\ Lines(job)[given'] \in LineSet
    BY <1>1, <1>2, ElementOfSeq
  <1>4. CASE ~job.toFile
    <2>1. part' = part
      BY <1>4 DEF WriteMessage
    <2>2. FilesInv' /\ UndoInv'
      BY <1>1, <2>1 DEF FilesInv, UndoInv, IsFile, Complete
    <2> QED
      BY <1>1, <1>4, <2>2 DEF RunInv, Streamed, Stages
  <1>5. CASE job.toFile
    <2>1. PICK f \in FileSet : part = {f}
      BY <1>1, <1>5 DEF FilesInv, RunInv, Streamed, IsFile
    <2> DEFINE g == [f EXCEPT !.data = Append(@, Lines(job)[given'])]
    <2>2. part' = {g}
      BY <1>5, <2>1 DEF WriteMessage
    <2>3. f.data \in Seq(LineSet) /\ Append(f.data, Lines(job)[given']) \in Seq(LineSet)
      BY <1>3, AppendProperties DEF FileSet
    <2>4. g \in FileSet /\ g.data = Append(f.data, Lines(job)[given'])
      BY <2>3 DEF FileSet
    <2>5. f.data = SubSeq(Lines(job), 1, given)
      <3>1. CASE given = 0
        <4>1. f.data = <<>>
          BY <1>1, <1>5, <2>1, <3>1 DEF RunInv, Streamed
        <4>2. SubSeq(Lines(job), 1, 0) = <<>>
          BY SubSeqEmpty
        <4> QED
          BY <3>1, <4>1, <4>2
      <3>2. CASE given > 0
        BY <1>1, <1>5, <2>1, <3>2 DEF RunInv, Streamed
      <3> QED
        BY <1>1, <3>1, <3>2
    <2>6. SubSeq(Lines(job), 1, given') = Append(SubSeq(Lines(job), 1, given), Lines(job)[given'])
      <3>1. 1 \in 1..Len(Lines(job)) /\ given' - 1 = given
        BY <1>1, <1>2, <1>3
      <3>2. SubSeq(Lines(job), 1, given') = SubSeq(Lines(job), 1, given) \o <<Lines(job)[given']>>
        BY <1>2, <1>3, <3>1, SubSeqRecursiveSecond
      <3>3. SubSeq(Lines(job), 1, given) \in Seq(LineSet)
        BY <2>3, <2>5
      <3> QED
        BY <1>3, <3>2, <3>3, AppendIsConcat
    <2>7. FilesInv'
      BY <1>1, <2>2, <2>4 DEF FilesInv, IsFile, Complete
    <2>8. Streamed'
      <3>1. g.data = SubSeq(Lines(job), 1, given')
        BY <2>4, <2>5, <2>6
      <3>2. given' > 0 /\ given' # 0 /\ given' <= Len(Lines(job)) /\ job' = job
        BY <1>1, <1>2, <1>3
      <3> QED
        BY <1>1, <2>2, <3>1, <3>2 DEF Streamed
    <2> QED
      BY <1>1, <2>7, <2>8 DEF RunInv, UndoInv, Stages
  <1> QED
    BY <1>4, <1>5

LEMMA EndKeeps == ASSUME ExportInv, StreamEnds PROVE ExportInv'
  <1> USE DEF ExportInv
  <1>1. /\ run = "stream" /\ ~Refused(job) /\ given = Len(Lines(job)) /\ job \in Jobs
        /\ UNCHANGED <<job, given, final, before, undone, runs>>
        /\ final = before /\ code = "none" /\ Streamed
    BY DEF StreamEnds, Goes, RunInv
  <1>2. CASE ~job.toFile
    <2>1. run' = "close" /\ part' = part /\ Told' /\ code' = "ok"
      BY <1>1, <1>2 DEF StreamEnds, Goes, Told
    <2>2. FilesInv' /\ UndoInv'
      BY <1>1, <2>1 DEF FilesInv, UndoInv, IsFile, Complete
    <2> QED
      BY <1>1, <2>1, <2>2 DEF RunInv, Stages
  <1>3. CASE job.toFile
    <2>1. PICK f \in FileSet : part = {f}
      BY <1>1, <1>3 DEF FilesInv, Streamed, IsFile
    <2> DEFINE g == [f EXCEPT !.whole = TRUE]
    <2>2. part' = {g} /\ run' = "sync" /\ code' = code
      BY <1>1, <1>3, <2>1 DEF StreamEnds, Goes
    <2>3. g \in FileSet /\ g.whole /\ g.data = f.data
      BY DEF FileSet
    <2>4. Lines(job) \in Seq(LineSet) /\ Len(Lines(job)) \in Nat
      BY <1>1, LinesAreSeq, LenProperties
    <2>5. f.data = Lines(job)
      <3>1. CASE given = 0
        BY <1>1, <1>3, <2>1, <2>4, <3>1, EmptySeq DEF Streamed
      <3>2. CASE given > 0
        BY <1>1, <1>3, <2>1, <2>4, <3>2, SubSeqFull DEF Streamed
      <3> QED
        BY <1>1, <2>4, <3>1, <3>2
    <2>6. FilesInv'
      BY <1>1, <2>2, <2>3 DEF FilesInv, IsFile, Complete
    <2>7. Holds(part', Lines(job)) /\ \A h \in part' : h.whole
      BY <2>2, <2>3, <2>5 DEF Holds
    <2> QED
      BY <1>1, <2>2, <2>6, <2>7 DEF RunInv, UndoInv, Stages, Holds
  <1> QED
    BY <1>2, <1>3

LEMMA SyncKeeps == ASSUME ExportInv, CommitSync PROVE ExportInv'
  <1> USE DEF ExportInv
  <1>1. /\ run = "sync" /\ run' = "replace" /\ Holds(part, Lines(job)) /\ \A f \in part : f.whole
        /\ UNCHANGED <<job, given, final, before, undone, code, runs>>
    BY DEF CommitSync, Goes, RunInv
  <1>2. PICK f \in FileSet : part = {f}
    BY <1>1 DEF FilesInv, Holds, IsFile
  <1> DEFINE g == [f EXCEPT !.synced = Len(f.data)]
  <1>3. part' = {g}
    BY <1>2 DEF CommitSync
  <1>4. Len(f.data) \in Nat
    BY LenProperties DEF FileSet
  <1>5. g \in FileSet /\ g.synced = Len(g.data) /\ g.data = f.data /\ g.whole = f.whole
    BY <1>4 DEF FileSet
  <1>6. FilesInv'
    BY <1>1, <1>3, <1>5 DEF FilesInv, IsFile, Complete
  <1>7. Holds(part', Lines(job)) /\ \A h \in part' : h.whole /\ h.synced = Len(h.data)
    BY <1>1, <1>2, <1>3, <1>5 DEF Holds
  <1> QED
    BY <1>1, <1>6, <1>7 DEF RunInv, UndoInv, Stages, Holds

LEMMA ReplaceKeeps == ASSUME ExportInv, CommitReplace PROVE ExportInv'
  <1> USE DEF ExportInv
  <1>1. /\ run = "replace" /\ run' = "close"
        /\ Holds(part, Lines(job)) /\ (\A f \in part : f.whole) /\ (\A f \in part : f.synced = Len(f.data))
        /\ UNCHANGED <<job, given, before, runs>> /\ final' = part /\ part' = {} /\ code' = "ok"
        /\ undone' = undone \cup {[final |-> final, part |-> part]} /\ final = before
    BY DEF CommitReplace, Goes, RunInv
  <1>2. FilesInv'
    <2>1. \A f \in undone' : \/ f \in undone
                             \/ f.final = final /\ f.part = part
      BY <1>1
    <2>2. IsFile({}) /\ Complete(part)
      BY <1>1 DEF IsFile, Complete
    <2> QED
      BY <1>1, <2>1, <2>2 DEF FilesInv
  <1>3. UndoInv'
    <2>1. runs \in Nat /\ runs' = runs /\ before' = before
      BY <1>1 DEF RunInv
    <2>2. runs # 0
      BY <1>1 DEF RunInv
    <2> QED
      BY <1>1, <2>1, <2>2 DEF UndoInv
  <1>4. Told'
    BY <1>1 DEF Told, Holds
  <1> QED
    BY <1>1, <1>2, <1>3, <1>4 DEF RunInv, Stages

LEMMA PowerLossKeeps == ASSUME ExportInv, PowerLoss PROVE ExportInv'
  <1> USE DEF ExportInv
  <1>1. /\ run' = "idle" /\ code' = "off" /\ undone' = {}
        /\ UNCHANGED <<job, given, before, runs>>
    BY DEF PowerLoss
  <1>2. /\ IsFile(final') /\ IsFile(part')
        /\ final' = final \/ \E files \in undone : final' = files.final
    BY SurvivorsFacts DEF PowerLoss, FilesInv
  <1>3. FilesInv'
    BY <1>1, <1>2 DEF FilesInv, IsFile, Complete
  <1>4. runs > 0 => \/ final = before \/ Holds(final, Lines(job))
                    \/ runs > 1
    BY DEF RunInv, Stages, Told
  <1>5. runs = 1 => final' = final \/ final' = before
    BY <1>2 DEF UndoInv
  <1>6. runs > 0 => runs = 1 \/ runs > 1
    BY DEF RunInv
  <1>7. runs > 0 => Told'
    BY <1>1, <1>2, <1>4, <1>5, <1>6 DEF Told
  <1> QED
    BY <1>1, <1>3, <1>7 DEF RunInv, UndoInv, Stages

LEMMA ExportInvStep == ExportInv /\ [ExportNext]_exportVars => ExportInv'
  <1> SUFFICES ASSUME ExportInv, [ExportNext]_exportVars PROVE ExportInv'
    OBVIOUS
  <1> USE DEF ExportInv
  <1>1. CASE Begin
    <2>1. FilesInv'
      BY <1>1 DEF Begin, FilesInv, IsFile, Complete
    <2> QED
      BY <1>1, <2>1 DEF Begin, Goes, RunInv, UndoInv, Stages
  <1>2. CASE QueryParsed
    <2>1. FilesInv'
      BY <1>2 DEF QueryParsed, FilesInv, IsFile, Complete
    <2> QED
      BY <1>2, <2>1 DEF QueryParsed, Goes, RunInv, UndoInv, Stages
  <1>3. CASE QueryInvalid
    BY <1>3, RaisesKeeps DEF QueryInvalid
  <1>4. CASE OpenOutput
    <2>1. /\ run = "open" /\ run' = "start" /\ given = 0
          /\ UNCHANGED <<job, given, final, before, undone, code, runs>>
      BY <1>4 DEF OpenOutput, Goes, RunInv
    <2> DEFINE g == [data |-> <<>>, synced |-> 0, whole |-> FALSE]
    <2>2. g \in FileSet /\ g.data = <<>>
      BY EmptySeq DEF FileSet
    <2>3. File(<<>>, 0, FALSE) = {g}
      BY DEF File
    <2>4. part' = (IF job.toFile THEN File(<<>>, 0, FALSE) ELSE part)
      BY <1>4 DEF OpenOutput
    <2> HIDE DEF g
    <2>5. job.toFile => part' # {} /\ \A f \in part' : f.data = <<>>
      BY <2>2, <2>3, <2>4
    <2>6. IsFile({g})
      BY <2>2 DEF IsFile
    <2>7. IsFile(part')
      BY <2>3, <2>4, <2>6 DEF FilesInv
    <2>8. FilesInv'
      BY <2>1, <2>7 DEF FilesInv, IsFile, Complete
    <2> QED
      BY <2>1, <2>5, <2>8 DEF RunInv, UndoInv, Stages
  <1>5. CASE OpenFails
    BY <1>5, RaisesKeeps DEF OpenFails
  <1>6. CASE StartWorker
    <2>1. FilesInv'
      BY <1>6 DEF StartWorker, FilesInv, IsFile, Complete
    <2>2. Streamed'
      BY <1>6 DEF StartWorker, Goes, RunInv, Streamed
    <2> QED
      BY <1>6, <2>1, <2>2 DEF StartWorker, Goes, RunInv, UndoInv, Stages
  <1>7. CASE StartFails
    BY <1>7, RaisesKeeps DEF StartFails
  <1>8. CASE WriteMessage
    BY <1>8, WriteKeeps
  <1>9. CASE StreamFails
    BY <1>9, RaisesKeeps DEF StreamFails
  <1>10. CASE StreamEnds
    BY <1>10, EndKeeps
  <1>11. CASE CommitSync
    BY <1>11, SyncKeeps
  <1>12. CASE CommitReplace
    BY <1>12, ReplaceKeeps
  <1>13. CASE CommitFails
    BY <1>13, RaisesKeeps DEF CommitFails
  <1>14. CASE Close
    <2>1. FilesInv' /\ Told'
      BY <1>14 DEF Close, Goes, FilesInv, IsFile, Complete, RunInv, Told
    <2> QED
      BY <1>14, <2>1 DEF Close, Goes, RunInv, UndoInv, Stages
  <1>15. CASE CloseFails
    BY <1>15, RaisesKeeps DEF CloseFails
  <1>16. CASE Killed
    <2>1. UNCHANGED <<job, given, final, part, before, undone, runs>> /\ run' = "idle" /\ code' = "killed"
      BY <1>16 DEF Killed
    <2>2. FilesInv'
      BY <2>1 DEF FilesInv, IsFile, Complete
    <2>3. Told'
      BY <1>16, <2>1 DEF Killed, RunInv, Stages, Told
    <2> QED
      BY <2>1, <2>2, <2>3 DEF RunInv, UndoInv, Stages
  <1>17. CASE PowerLoss
    BY <1>17, PowerLossKeeps
  <1>18. CASE UNCHANGED exportVars
    BY <1>18 DEF exportVars, FilesInv, IsFile, Complete, RunInv, UndoInv, Told, Streamed
  <1> QED
    BY <1>1, <1>2, <1>3, <1>4, <1>5, <1>6, <1>7, <1>8, <1>9, <1>10, <1>11, <1>12, <1>13, <1>14,
       <1>15, <1>16, <1>17, <1>18 DEF ExportNext, RunsExport

LEMMA ExportInvAlways == ExportSpec => []ExportInv
  BY ExportInvInit, ExportInvStep, PTL DEF ExportSpec
-----------------------------------------------------------------------------
\* Whatever fails, and whenever the process is killed or the power is lost, the output file is
\* what it was or a whole export that is on the disk.
THEOREM NeverHalfWritten == ExportSpec => []FinalIsComplete
  <1>1. ExportInv => FinalIsComplete
    BY DEF ExportInv, FilesInv, Complete, FinalIsComplete
  <1> QED
    BY <1>1, ExportInvAlways, PTL

\* After a run the output file is as before or holds what was asked for, and it does when the
\* exit code says so.
THEOREM ExitCodeTells == ExportSpec => []ExportExitTells
  <1>1. ExportInv => ExportExitTells
    BY DEF ExportInv, RunInv, Told, ExportExitTells
  <1> QED
    BY <1>1, ExportInvAlways, PTL

\* What an export delivers is what was asked for: whichever messages the history holds, whatever
\* the bounds, the limit, the order and the topic, with the offset date, the early end, the limit
\* passed on and the root merged in; and the mock delivers the same of its own messages.
THEOREM ExportsWhatWasAsked == ExportSpec => []ExportSelects
  <1>1. ExportInv => ExportSelects
    BY SelectsAll DEF ExportInv, RunInv
  <1> QED
    BY <1>1, ExportInvAlways, PTL
=============================================================================
