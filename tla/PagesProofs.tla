----------------------------- MODULE PagesProofs -----------------------------
(***************************************************************************)
(* What the pages of Open Library and of the lists come to, with pages of  *)
(* any length.  An upload has, at every page, collected all there is       *)
(* before it and nothing else (UploadInv).  A walk through the books has   *)
(* gone past no more rows than were deleted, and has listed a row that is  *)
(* still ahead of it no more often than rows were created (WalkInv).       *)
(***************************************************************************)
EXTENDS Upload, Listing, FiniteSetTheorems, SequenceTheorems, TLAPS

-----------------------------------------------------------------------------
(* Numbers in order *)

LEMMA RankGrows ==
  ASSUME NEW S \in SUBSET Int, IsFiniteSet(S), NEW i \in S, NEW k \in S, i < k
  PROVE  Rank(S, i) < Rank(S, k)
<1> DEFINE I == {j \in S : j <= i}
           K == {j \in S : j <= k}
<1>1. IsFiniteSet(K) /\ I \in SUBSET K /\ k \in K /\ k \notin I
  <2>1. IsFiniteSet(K)
    BY FS_Subset
  <2>2. i \in Int /\ k \in Int
    OBVIOUS
  <2>3. \A j \in S : j <= i => j <= k
    BY <2>2
  <2>4. I \subseteq K
    BY <2>3
  <2>5. k \in K /\ k \notin I
    BY <2>2
  <2> QED BY <2>1, <2>4, <2>5
<1>2. Cardinality(I) <= Cardinality(K) /\ Cardinality(I) # Cardinality(K) /\ IsFiniteSet(I)
  BY <1>1, FS_Subset
<1>3. Cardinality(I) \in Nat /\ Cardinality(K) \in Nat
  BY <1>1, <1>2, FS_CardinalityType
<1> QED BY <1>2, <1>3 DEF Rank

LEMMA RankType ==
  ASSUME NEW S \in SUBSET Int, IsFiniteSet(S), NEW i \in Int
  PROVE  /\ Rank(S, i) \in 0 .. Cardinality(S) /\ Cardinality(S) \in Nat
         /\ i \in S => Rank(S, i) >= 1
<1> DEFINE I == {j \in S : j <= i}
<1>1. IsFiniteSet(I) /\ Cardinality(I) <= Cardinality(S)
  BY FS_Subset
<1>2. Cardinality(I) \in Nat /\ Cardinality(S) \in Nat
  BY <1>1, FS_CardinalityType
<1>3. i \in S => Cardinality(I) # 0
  <2>1. i \in S => i \in I
    OBVIOUS
  <2> QED BY <1>1, <2>1, FS_EmptySet
<1> QED BY <1>1, <1>2, <1>3 DEF Rank

\* Ranks tell the numbers in a finite set apart, and none is left out.
LEMMA RankBijective ==
  ASSUME NEW S \in SUBSET Int, IsFiniteSet(S)
  PROVE  /\ \A i, k \in S : Rank(S, i) = Rank(S, k) => i = k
         /\ \A n \in 1 .. Cardinality(S) : \E i \in S : Rank(S, i) = n
<1>1. \A i, k \in S : Rank(S, i) = Rank(S, k) => i = k
  <2> SUFFICES ASSUME NEW i \in S, NEW k \in S, i # k PROVE Rank(S, i) # Rank(S, k)
    OBVIOUS
  <2>1. i < k \/ k < i
    OBVIOUS
  <2>2. i < k => Rank(S, i) < Rank(S, k)
    BY RankGrows
  <2>3. k < i => Rank(S, k) < Rank(S, i)
    BY RankGrows
  <2>4. Rank(S, i) \in Int /\ Rank(S, k) \in Int
    BY RankType
  <2> QED BY <2>1, <2>2, <2>3, <2>4
<1> DEFINE D == 1 .. Cardinality(S)
           f == [i \in S |-> Rank(S, i)]
<1>2. Cardinality(S) \in Nat /\ \A i \in S : Rank(S, i) \in D
  <2>1. Cardinality(S) \in Nat
    BY FS_CardinalityType
  <2>2. ASSUME NEW i \in S PROVE Rank(S, i) \in D
    BY <2>1, RankType
  <2> QED BY <2>1, <2>2
<1>3. f \in Injection(S, D)
  <2>1. f \in [S -> D]
    BY <1>2
  <2>2. \A i, k \in S : f[i] = f[k] => i = k
    BY <1>1
  <2> QED BY <2>1, <2>2 DEF Injection, IsInjective
<1>4. IsFiniteSet(D) /\ Cardinality(D) = Cardinality(S)
  BY <1>2, FS_Interval
<1>5. f \in Surjection(S, D)
  <2> HIDE DEF f, D
  <2> QED BY <1>3, <1>4, FS_Injection
<1>6. \A n \in D : \E i \in S : f[i] = n
  BY <1>5 DEF Surjection
<1> QED BY <1>1, <1>6

LEMMA InOrderFacts ==
  ASSUME NEW S \in SUBSET Int, IsFiniteSet(S)
  PROVE  /\ InOrder(S) \in [1 .. Cardinality(S) -> S] /\ Cardinality(S) \in Nat
         /\ \A n \in 1 .. Cardinality(S) : Rank(S, InOrder(S)[n]) = n
         /\ \A i \in S : Rank(S, i) \in 1 .. Cardinality(S) /\ InOrder(S)[Rank(S, i)] = i
<1>1. ASSUME NEW n \in 1 .. Cardinality(S)
      PROVE  InOrder(S)[n] \in S /\ Rank(S, InOrder(S)[n]) = n
  <2>1. \E i \in S : Rank(S, i) = n
    BY RankBijective
  <2>2. InOrder(S)[n] = CHOOSE i \in S : Rank(S, i) = n
    BY DEF InOrder
  <2> QED BY <2>1, <2>2
<1>2. ASSUME NEW i \in S
      PROVE  Rank(S, i) \in 1 .. Cardinality(S) /\ InOrder(S)[Rank(S, i)] = i
  <2>1. Rank(S, i) \in 1 .. Cardinality(S)
    BY RankType
  <2>2. InOrder(S)[Rank(S, i)] \in S /\ Rank(S, InOrder(S)[Rank(S, i)]) = Rank(S, i)
    BY <1>1, <2>1
  <2>3. \A k \in S : Rank(S, k) = Rank(S, i) => k = i
    BY RankBijective
  <2> QED BY <2>1, <2>2, <2>3
<1>3. InOrder(S) \in [1 .. Cardinality(S) -> S]
  <2>1. \A n \in 1 .. Cardinality(S) : (CHOOSE i \in S : Rank(S, i) = n) \in S
    BY RankBijective
  <2> QED BY <2>1 DEF InOrder
<1>4. Cardinality(S) \in Nat
  BY FS_CardinalityType
<1> QED BY <1>1, <1>2, <1>3, <1>4

-----------------------------------------------------------------------------
(* Windows *)

LEMMA WindowFacts ==
  ASSUME NEW D, NEW s \in Seq(D), NEW from \in Nat, NEW n \in Nat
  PROVE  /\ Window(s, from, n) \in Seq(D)
         /\ Len(Window(s, from, n)) =
              IF from + n <= Len(s) THEN n ELSE IF from <= Len(s) THEN Len(s) - from ELSE 0
         /\ \A i \in 1 .. Len(Window(s, from, n)) :
              Window(s, from, n)[i] = s[from + i] /\ from + i \in 1 .. Len(s)
<1> DEFINE m == Min({from + n, Len(s)})
<1>1. Len(s) \in Nat
  OBVIOUS
<1>2. m = IF from + n <= Len(s) THEN from + n ELSE Len(s)
  <2> DEFINE a == from + n
             b == Len(s)
  <2>1. a \in Nat /\ b \in Nat
    BY <1>1
  <2> HIDE DEF a, b
  <2>2. Min({a, b}) = IF a <= b THEN a ELSE b
    <3>1. \E x \in {a, b} : \A y \in {a, b} : x <= y
      BY <2>1
    <3>2. Min({a, b}) \in {a, b} /\ \A y \in {a, b} : Min({a, b}) <= y
      BY <3>1 DEF Min
    <3> QED BY <2>1, <3>2
  <2> QED BY <2>2 DEF a, b
<1>3. m \in Nat /\ m <= Len(s)
  BY <1>1, <1>2
<1> HIDE DEF m
<1>4. /\ SubSeq(s, from + 1, m) \in Seq(D)
      /\ Len(SubSeq(s, from + 1, m)) = IF from + 1 <= m THEN m - from ELSE 0
      /\ \A i \in 1 .. m - from : SubSeq(s, from + 1, m)[i] = s[from + i]
  <2>1. \A i \in from + 1 .. m : s[i] \in D
    BY <1>1, <1>3
  <2>2. /\ SubSeq(s, from + 1, m) \in Seq(D)
        /\ Len(SubSeq(s, from + 1, m)) = IF from + 1 <= m THEN m - (from + 1) + 1 ELSE 0
        /\ \A i \in 1 .. m - (from + 1) + 1 : SubSeq(s, from + 1, m)[i] = s[from + 1 + i - 1]
    BY <1>3, <2>1, SubSeqProperties
  <2> QED BY <1>3, <2>2
<1>5. Window(s, from, n) = SubSeq(s, from + 1, m)
  BY DEF Window, m
<1> QED BY <1>1, <1>2, <1>3, <1>4, <1>5

-----------------------------------------------------------------------------
(* Sequences without repetition *)

\* The positions of i in s.
At(s, i) == {n \in DOMAIN s : s[n] = i}

Distinct(s) == \A m, n \in 1 .. Len(s) : s[m] = s[n] => m = n

LEMMA ConcatFacts ==
  ASSUME NEW D, NEW v \in Seq(D), NEW w \in Seq(D)
  PROVE  /\ v \o w \in Seq(D) /\ ToSet(v \o w) = ToSet(v) \cup ToSet(w)
         /\ \A i : i \notin ToSet(w) => At(v \o w, i) = At(v, i)
         /\ \A m \in 1 .. Len(w) : Distinct(w) =>
                At(v \o w, w[m]) = At(v, w[m]) \cup {Len(v) + m}
<1>1. /\ v \o w \in Seq(D) /\ Len(v \o w) = Len(v) + Len(w)
      /\ Len(v) \in Nat /\ Len(w) \in Nat
      /\ \A i \in 1 .. Len(v) : (v \o w)[i] = v[i] /\ i \in 1 .. Len(v \o w)
      /\ \A i \in 1 .. Len(w) : (v \o w)[Len(v) + i] = w[i] /\ Len(v) + i \in 1 .. Len(v \o w)
  OBVIOUS
<1>2. \A i \in 1 .. Len(v \o w) : i \in 1 .. Len(v) \/ \E j \in 1 .. Len(w) : i = Len(v) + j
  <2> SUFFICES ASSUME NEW i \in 1 .. Len(v \o w), i \notin 1 .. Len(v)
               PROVE  \E j \in 1 .. Len(w) : i = Len(v) + j
    OBVIOUS
  <2>1. i - Len(v) \in 1 .. Len(w) /\ i = Len(v) + (i - Len(v))
    BY <1>1
  <2> QED BY <2>1
<1>3. DOMAIN v = 1 .. Len(v) /\ DOMAIN w = 1 .. Len(w) /\ DOMAIN (v \o w) = 1 .. Len(v \o w)
  BY <1>1
<1>4. /\ ToSet(v) = {v[i] : i \in 1 .. Len(v)} /\ ToSet(w) = {w[i] : i \in 1 .. Len(w)}
      /\ ToSet(v \o w) = {(v \o w)[i] : i \in 1 .. Len(v \o w)}
  BY <1>3 DEF ToSet
<1>5. ToSet(v \o w) = ToSet(v) \cup ToSet(w)
  <2>1. ASSUME NEW i \in 1 .. Len(v \o w)
        PROVE  (v \o w)[i] \in ToSet(v) \cup ToSet(w)
    BY <1>1, <1>2, <1>4
  <2>2. \A i \in 1 .. Len(v) : v[i] \in ToSet(v \o w)
    BY <1>1, <1>4
  <2>3. \A i \in 1 .. Len(w) : w[i] \in ToSet(v \o w)
    BY <1>1, <1>4
  <2> QED BY <1>4, <2>1, <2>2, <2>3
<1>6. \A i : /\ At(v, i) = {n \in 1 .. Len(v) : v[n] = i}
             /\ At(v \o w, i) = {n \in 1 .. Len(v \o w) : (v \o w)[n] = i}
  BY <1>3 DEF At
<1>7. ASSUME NEW i, i \notin ToSet(w) PROVE At(v \o w, i) = At(v, i)
  <2>1. \A n \in 1 .. Len(v \o w) : (v \o w)[n] = i => n \in 1 .. Len(v) /\ v[n] = i
    <3> SUFFICES ASSUME NEW n \in 1 .. Len(v \o w), (v \o w)[n] = i, n \notin 1 .. Len(v)
                 PROVE  FALSE
      BY <1>1
    <3>1. PICK j \in 1 .. Len(w) : n = Len(v) + j
      BY <1>2
    <3>2. w[j] = i
      BY <1>1, <3>1
    <3> QED BY <1>4, <1>7, <3>2
  <2>2. \A n \in 1 .. Len(v) : n \in 1 .. Len(v \o w) /\ (v \o w)[n] = v[n]
    BY <1>1
  <2>3. At(v \o w, i) \subseteq At(v, i)
    BY <1>6, <2>1
  <2>4. At(v, i) \subseteq At(v \o w, i)
    BY <1>6, <2>2
  <2> QED BY <2>3, <2>4
<1>8. ASSUME NEW m \in 1 .. Len(w), Distinct(w)
      PROVE  At(v \o w, w[m]) = At(v, w[m]) \cup {Len(v) + m}
  <2>1. \A j \in 1 .. Len(w) : w[j] = w[m] => j = m
    BY <1>8 DEF Distinct
  <2>2. \A n \in 1 .. Len(v \o w) : (v \o w)[n] = w[m] =>
            (n \in 1 .. Len(v) /\ v[n] = w[m]) \/ n = Len(v) + m
    <3> SUFFICES ASSUME NEW n \in 1 .. Len(v \o w), (v \o w)[n] = w[m], n \notin 1 .. Len(v)
                 PROVE  n = Len(v) + m
      BY <1>1
    <3>1. PICK j \in 1 .. Len(w) : n = Len(v) + j
      BY <1>2
    <3>2. w[j] = w[m]
      BY <1>1, <3>1
    <3> QED BY <2>1, <3>1, <3>2
  <2>3. \A n \in 1 .. Len(v) : n \in 1 .. Len(v \o w) /\ (v \o w)[n] = v[n]
    BY <1>1
  <2>4. Len(v) + m \in 1 .. Len(v \o w) /\ (v \o w)[Len(v) + m] = w[m]
    BY <1>1
  <2>5. At(v \o w, w[m]) \subseteq At(v, w[m]) \cup {Len(v) + m}
    BY <1>6, <2>2
  <2>6. At(v, w[m]) \subseteq At(v \o w, w[m]) /\ Len(v) + m \in At(v \o w, w[m])
    BY <1>6, <2>3, <2>4
  <2> QED BY <2>5, <2>6
<1> QED BY <1>1, <1>5, <1>7, <1>8

LEMMA AtFinite ==
  ASSUME NEW D, NEW s \in Seq(D), NEW i
  PROVE  /\ IsFiniteSet(At(s, i)) /\ Cardinality(At(s, i)) \in Nat
         /\ \A n : Cardinality(At(s, i) \cup {n}) <= Cardinality(At(s, i)) + 1
<1>1. IsFiniteSet(1 .. Len(s)) /\ At(s, i) \in SUBSET (1 .. Len(s))
  BY FS_Interval DEF At
<1>2. IsFiniteSet(At(s, i)) /\ Cardinality(At(s, i)) \in Nat
  BY <1>1, FS_Subset, FS_CardinalityType
<1> HIDE DEF At
<1>3. ASSUME NEW n PROVE Cardinality(At(s, i) \cup {n}) <= Cardinality(At(s, i)) + 1
  <2>1. Cardinality(At(s, i) \cup {n}) =
            IF n \in At(s, i) THEN Cardinality(At(s, i)) ELSE Cardinality(At(s, i)) + 1
    BY <1>2, FS_AddElement
  <2> QED BY <1>2, <2>1
<1> QED BY <1>2, <1>3

LEMMA InsertAtFacts ==
  ASSUME NEW D, NEW s \in Seq(D), NEW at \in 1 .. Len(s) + 1, NEW i \in D,
         Distinct(s), i \notin ToSet(s)
  PROVE  LET t == InsertAt(s, at, i)
         IN  t \in Seq(D) /\ Distinct(t) /\ ToSet(t) = ToSet(s) \cup {i} /\ Len(t) = Len(s) + 1
<1> DEFINE t == InsertAt(s, at, i)
           a == SubSeq(s, 1, at - 1)
           b == SubSeq(s, at, Len(s))
<1>1. Len(s) \in Nat /\ at \in Nat /\ at >= 1 /\ at <= Len(s) + 1
  OBVIOUS
<1>2. /\ a \in Seq(D) /\ Len(a) = at - 1
      /\ \A n \in 1 .. at - 1 : a[n] = s[n]
  BY <1>1
<1>3. /\ b \in Seq(D) /\ Len(b) = Len(s) + 1 - at
      /\ \A n \in 1 .. Len(s) + 1 - at : b[n] = s[at - 1 + n]
  BY <1>1
<1>4. t = (a \o <<i>>) \o b
  BY DEF InsertAt
<1> HIDE DEF a, b, t
<1>5. /\ t \in Seq(D) /\ Len(t) = Len(s) + 1
      /\ \A n \in 1 .. Len(s) + 1 :
            t[n] = IF n < at THEN s[n] ELSE IF n = at THEN i ELSE s[n - 1]
  <2> DEFINE c == a \o <<i>>
  <2>1. c \in Seq(D) /\ Len(c) = at
        /\ \A n \in 1 .. at : c[n] = IF n < at THEN s[n] ELSE i
    <3>1. <<i>> \in Seq(D) /\ Len(<<i>>) = 1 /\ <<i>>[1] = i
      OBVIOUS
    <3> QED BY <1>1, <1>2, <3>1, ConcatProperties
  <2>4. t = c \o b
    BY <1>4
  <2> HIDE DEF c
  <2>2. c \o b \in Seq(D) /\ Len(c \o b) = Len(s) + 1
    <3>1. c \o b \in Seq(D) /\ Len(c \o b) = Len(c) + Len(b)
      BY <1>3, <2>1, ConcatProperties
    <3> QED BY <1>1, <1>3, <2>1, <3>1
  <2>3. ASSUME NEW n \in 1 .. Len(s) + 1
        PROVE  (c \o b)[n] = IF n < at THEN s[n] ELSE IF n = at THEN i ELSE s[n - 1]
    <3>1. CASE n <= at
      BY <1>1, <1>3, <2>1, <3>1 DEF c
    <3>2. CASE n > at
      <4>1. n - at \in 1 .. Len(s) + 1 - at /\ at - 1 + (n - at) = n - 1
        BY <1>1, <3>2
      <4>2. b[n - at] = s[n - 1]
        BY <1>3, <4>1
      <4>3. (c \o b)[n] = b[n - at]
        <5>1. n \in 1 .. Len(c) + Len(b) /\ ~(n <= Len(c)) /\ Len(c) = at
          BY <1>1, <1>3, <2>1, <3>2
        <5> QED BY <1>3, <2>1, <5>1, ConcatProperties
      <4> QED BY <1>1, <3>2, <4>2, <4>3
    <3>3. n <= at \/ n > at
      BY <1>1
    <3> QED BY <3>1, <3>2, <3>3, Zenon
  <2> QED BY <2>2, <2>3, <2>4
<1>6. ToSet(s) = {s[n] : n \in 1 .. Len(s)} /\ ToSet(t) = {t[n] : n \in 1 .. Len(s) + 1}
  <2>1. DOMAIN s = 1 .. Len(s) /\ DOMAIN t = 1 .. Len(t) /\ Len(t) = Len(s) + 1
    BY <1>5
  <2> QED BY <2>1 DEF ToSet
<1>7. \A n \in 1 .. Len(s) : \E m \in 1 .. Len(s) + 1 : t[m] = s[n]
  <2> SUFFICES ASSUME NEW n \in 1 .. Len(s)
               PROVE  \E m \in 1 .. Len(s) + 1 : t[m] = s[n]
    OBVIOUS
  <2>1. n < at => t[n] = s[n] /\ n \in 1 .. Len(s) + 1
    BY <1>1, <1>5
  <2>2. n >= at => t[n + 1] = s[n] /\ n + 1 \in 1 .. Len(s) + 1
    BY <1>1, <1>5
  <2> QED BY <1>1, <2>1, <2>2
<1>8. \A n \in 1 .. Len(s) + 1 : t[n] = i \/ \E m \in 1 .. Len(s) : t[n] = s[m]
  <2> SUFFICES ASSUME NEW n \in 1 .. Len(s) + 1, n # at
               PROVE  \E m \in 1 .. Len(s) : t[n] = s[m]
    BY <1>1, <1>5
  <2>1. n < at => t[n] = s[n] /\ n \in 1 .. Len(s)
    BY <1>1, <1>5
  <2>2. n > at => t[n] = s[n - 1] /\ n - 1 \in 1 .. Len(s)
    BY <1>1, <1>5
  <2> QED BY <1>1, <2>1, <2>2
<1>9. t[at] = i /\ at \in 1 .. Len(s) + 1
  BY <1>1, <1>5
<1>10. ToSet(t) = ToSet(s) \cup {i}
  <2>1. \A x \in ToSet(t) : x \in ToSet(s) \cup {i}
    BY <1>6, <1>8
  <2>2. \A x \in ToSet(s) \cup {i} : x \in ToSet(t)
    BY <1>6, <1>7, <1>9
  <2> QED BY <2>1, <2>2
<1>11. Distinct(t)
  <2> SUFFICES ASSUME NEW m \in 1 .. Len(s) + 1, NEW n \in 1 .. Len(s) + 1, t[m] = t[n]
               PROVE  m = n
    BY <1>5 DEF Distinct
  <2> DEFINE old(k) == IF k < at THEN k ELSE k - 1
  <2>1. \A k \in 1 .. Len(s) + 1 : k # at => old(k) \in 1 .. Len(s) /\ t[k] = s[old(k)]
    BY <1>1, <1>5
  <2>2. m = at <=> n = at
    BY <1>6, <1>9, <2>1
  <2>3. m # at /\ n # at => old(m) = old(n)
    BY <2>1 DEF Distinct
  <2> QED BY <1>1, <2>2, <2>3
<1> QED BY <1>5, <1>10, <1>11 DEF t

LEMMA RemoveAtFacts ==
  ASSUME NEW D, NEW s \in Seq(D), NEW at \in 1 .. Len(s), Distinct(s)
  PROVE  LET t == RemoveAt(s, at)
         IN  /\ t \in Seq(D) /\ Distinct(t) /\ ToSet(t) = ToSet(s) \ {s[at]}
             /\ Len(t) = Len(s) - 1
<1> DEFINE t == RemoveAt(s, at)
           a == SubSeq(s, 1, at - 1)
           b == SubSeq(s, at + 1, Len(s))
<1>1. Len(s) \in Nat /\ at \in Nat /\ at >= 1 /\ at <= Len(s)
  OBVIOUS
<1>2. /\ a \in Seq(D) /\ Len(a) = at - 1
      /\ \A n \in 1 .. at - 1 : a[n] = s[n]
  BY <1>1
<1>3. /\ b \in Seq(D) /\ Len(b) = Len(s) - at
      /\ \A n \in 1 .. Len(s) - at : b[n] = s[at + n]
  BY <1>1
<1>4. t = a \o b
  BY DEF RemoveAt
<1> HIDE DEF a, b, t
<1> DEFINE old(k) == IF k < at THEN k ELSE k + 1
<1>5. /\ t \in Seq(D) /\ Len(t) = Len(s) - 1
      /\ \A n \in 1 .. Len(s) - 1 : t[n] = s[old(n)] /\ old(n) \in 1 .. Len(s) /\ old(n) # at
  <2>1. t \in Seq(D) /\ Len(t) = Len(s) - 1
    <3>1. a \o b \in Seq(D) /\ Len(a \o b) = Len(a) + Len(b)
      BY <1>2, <1>3, ConcatProperties
    <3>2. Len(a) + Len(b) = Len(s) - 1
      BY <1>1, <1>2, <1>3
    <3> QED BY <1>4, <3>1, <3>2
  <2>2. ASSUME NEW n \in 1 .. Len(s) - 1 PROVE t[n] = s[old(n)]
    <3>1. CASE n < at
      BY <1>1, <1>2, <1>3, <1>4, <3>1
    <3>2. CASE n >= at
      <4>1. n - (at - 1) \in 1 .. Len(s) - at /\ at + (n - (at - 1)) = n + 1
        BY <1>1, <3>2
      <4>2. b[n - (at - 1)] = s[n + 1]
        BY <1>3, <4>1
      <4>3. t[n] = b[n - (at - 1)]
        BY <1>1, <1>2, <1>3, <1>4, <3>2
      <4> QED BY <1>1, <3>2, <4>2, <4>3
    <3> QED BY <1>1, <3>1, <3>2
  <2>3. \A n \in 1 .. Len(s) - 1 : old(n) \in 1 .. Len(s) /\ old(n) # at
    BY <1>1
  <2> QED BY <2>1, <2>2, <2>3
<1>6. ToSet(s) = {s[n] : n \in 1 .. Len(s)} /\ ToSet(t) = {t[n] : n \in 1 .. Len(s) - 1}
  <2>1. DOMAIN s = 1 .. Len(s) /\ DOMAIN t = 1 .. Len(t) /\ Len(t) = Len(s) - 1
    BY <1>5
  <2> QED BY <2>1 DEF ToSet
<1>7. \A n \in 1 .. Len(s) : n # at => \E m \in 1 .. Len(s) - 1 : t[m] = s[n]
  <2> SUFFICES ASSUME NEW n \in 1 .. Len(s), n # at
               PROVE  \E m \in 1 .. Len(s) - 1 : t[m] = s[n]
    OBVIOUS
  <2>1. n < at => n \in 1 .. Len(s) - 1 /\ old(n) = n
    BY <1>1
  <2>2. n > at => n - 1 \in 1 .. Len(s) - 1 /\ old(n - 1) = n
    BY <1>1
  <2> HIDE DEF old
  <2> QED BY <1>1, <1>5, <2>1, <2>2
<1>8. ToSet(t) = ToSet(s) \ {s[at]}
  <2>1. ASSUME NEW n \in 1 .. Len(s) - 1 PROVE t[n] \in ToSet(s) \ {s[at]}
    BY <1>5, <1>6 DEF Distinct
  <2>2. ASSUME NEW x \in ToSet(s) \ {s[at]} PROVE x \in ToSet(t)
    <3>1. PICK n \in 1 .. Len(s) : x = s[n]
      BY <1>6
    <3> QED BY <1>6, <1>7, <3>1
  <2> QED BY <1>6, <2>1, <2>2
<1>9. Distinct(t)
  <2> SUFFICES ASSUME NEW m \in 1 .. Len(s) - 1, NEW n \in 1 .. Len(s) - 1, t[m] = t[n]
               PROVE  m = n
    BY <1>5 DEF Distinct
  <2>1. old(m) = old(n)
    BY <1>5 DEF Distinct
  <2> QED BY <1>1, <2>1
<1> QED BY <1>5, <1>8, <1>9 DEF t
-----------------------------------------------------------------------------
(* Divisions *)

\* Which multiples of b an a is between.
LEMMA DivisionFacts ==
  ASSUME NEW a \in Nat, NEW b \in Nat \ {0}
  PROVE  /\ a \div b \in Nat
         /\ (a \div b) * b <= a /\ a < (a \div b) * b + b
         /\ (a \div b) * b \in Nat
OBVIOUS

LEMMA MultiplesOrdered ==
  ASSUME NEW j \in Nat, NEW k \in Nat, NEW b \in Nat \ {0}
  PROVE  /\ j <= k => j * b <= k * b
         /\ j < k => j * b + b <= k * b
         /\ (j + 1) * b = j * b + b /\ j * b \in Nat
<1>1. (j + 1) * b = j * b + b /\ j * b \in Nat /\ k * b \in Nat
  OBVIOUS
<1>2. j <= k => j * b <= k * b
  OBVIOUS
<1>3. j < k => (j + 1) * b <= k * b
  OBVIOUS
<1> QED BY <1>1, <1>2, <1>3

\* (a \div b) * b is the multiple k * b when a is from k * b on, below the next.
LEMMA MultipleBelow ==
  ASSUME NEW a \in Nat, NEW k \in Nat, NEW b \in Nat \ {0}
  PROVE  /\ a < k * b + b => (a \div b) * b <= k * b
         /\ k * b <= a => k * b <= (a \div b) * b
         /\ a < k * b => a \div b < k
<1> DEFINE q == a \div b
<1>1. q \in Nat /\ q * b <= a /\ a < q * b + b
  BY DivisionFacts
<1> HIDE DEF q
<1>2. k < q => k * b + b <= q * b
  BY <1>1, MultiplesOrdered
<1>3. q < k => q * b + b <= k * b
  BY <1>1, MultiplesOrdered
<1>4. q <= k => q * b <= k * b
  BY <1>1, MultiplesOrdered
<1>5. k <= q => k * b <= q * b
  BY <1>1, MultiplesOrdered
<1>6. k * b \in Nat /\ q * b \in Nat
  BY <1>1, MultiplesOrdered
<1>7. /\ a < k * b + b => q * b <= k * b
      /\ k * b <= a => k * b <= q * b
      /\ a < k * b => q < k
  BY <1>1, <1>2, <1>3, <1>4, <1>5, <1>6
<1> QED BY <1>7 DEF q

-----------------------------------------------------------------------------
(* The pages of a query *)

Kept(docs, from) ==
    {i \in from + 1 .. Len(docs) : i <= from + BucketSize /\ docs[i] \in Authored}

\* What a page holds, and when it has BucketSize documents.
LEMMA PageFacts ==
  ASSUME NEW docs \in Seq(Docs), NEW from \in Nat
  PROVE  /\ Page(docs, from, BucketSize) \in Seq(Docs)
         /\ ToSet(Page(docs, from, BucketSize)) = {docs[i] : i \in Kept(docs, from)}
         /\ Len(Page(docs, from, BucketSize)) \in 0 .. BucketSize
         /\ Len(Page(docs, from, BucketSize)) = BucketSize <=>
              /\ from + BucketSize <= Len(docs)
              /\ \A i \in from + 1 .. from + BucketSize : docs[i] \in Authored
<1> DEFINE w == Window(docs, from, BucketSize)
           S == {i \in DOMAIN w : w[i] \in Authored}
           at == InOrder(S)
           page == Page(docs, from, BucketSize)
<1>1. BucketSize \in Nat \ {0} /\ Authored \subseteq Docs /\ Len(docs) \in Nat
  BY BucketAssumption, DocsAssumption
<1>2. /\ w \in Seq(Docs) /\ Len(w) \in 0 .. BucketSize
      /\ Len(w) = BucketSize <=> from + BucketSize <= Len(docs)
      /\ \A i \in 1 .. Len(w) : w[i] = docs[from + i] /\ from + i \in 1 .. Len(docs)
      /\ \A i \in 1 .. BucketSize : from + i <= Len(docs) => i \in 1 .. Len(w)
  <2>1. /\ w \in Seq(Docs)
        /\ Len(w) = IF from + BucketSize <= Len(docs) THEN BucketSize
                    ELSE IF from <= Len(docs) THEN Len(docs) - from ELSE 0
        /\ \A i \in 1 .. Len(w) : w[i] = docs[from + i] /\ from + i \in 1 .. Len(docs)
    BY <1>1, WindowFacts
  <2> HIDE DEF w
  <2>2. /\ Len(w) \in 0 .. BucketSize
        /\ Len(w) = BucketSize <=> from + BucketSize <= Len(docs)
        /\ \A i \in 1 .. BucketSize : from + i <= Len(docs) => i \in 1 .. Len(w)
    BY <1>1, <2>1
  <2> QED BY <2>1, <2>2
<1>3. page = [n \in DOMAIN at |-> w[at[n]]]
  BY DEF Page
<1> HIDE DEF w, at, page
<1>4. S \subseteq 1 .. Len(w) /\ \A i \in S : w[i] \in Authored
  BY <1>2
<1>5. IsFiniteSet(1 .. Len(w)) /\ Cardinality(1 .. Len(w)) = Len(w)
  <2>1. 1 \in Int /\ Len(w) \in Int /\ Len(w) >= 0
    BY <1>1, <1>2
  <2>2. IsFiniteSet(1 .. Len(w))
          /\ Cardinality(1 .. Len(w)) = IF 1 > Len(w) THEN 0 ELSE Len(w) - 1 + 1
    BY <2>1, FS_Interval
  <2> QED BY <2>1, <2>2
<1>6. /\ IsFiniteSet(S) /\ Cardinality(S) \in 0 .. Len(w)
      /\ Cardinality(S) = Len(w) => S = 1 .. Len(w)
  BY <1>4, <1>5, FS_Subset, FS_CardinalityType
<1>7. /\ at \in [1 .. Cardinality(S) -> S]
      /\ \A i \in S : Rank(S, i) \in 1 .. Cardinality(S) /\ at[Rank(S, i)] = i
  <2>1. S \in SUBSET Int
    BY <1>4
  <2> HIDE DEF S
  <2> QED BY <1>6, <2>1, InOrderFacts DEF at
<1>8. /\ page = [n \in 1 .. Cardinality(S) |-> w[at[n]]]
      /\ \A n \in 1 .. Cardinality(S) : w[at[n]] \in Docs
  <2> HIDE DEF S
  <2> QED BY <1>1, <1>3, <1>4, <1>7
<1>9. page \in Seq(Docs) /\ Len(page) = Cardinality(S)
  <2> HIDE DEF S
  <2> QED BY <1>6, <1>8
<1>10. ToSet(page) = {docs[i] : i \in Kept(docs, from)}
  <2>1. ASSUME NEW n \in 1 .. Cardinality(S)
        PROVE  page[n] \in {docs[i] : i \in Kept(docs, from)}
    <3>1. at[n] \in S /\ page[n] = w[at[n]]
      BY <1>7, <1>8
    <3>2. from + at[n] \in Kept(docs, from) /\ w[at[n]] = docs[from + at[n]]
      BY <1>1, <1>2, <1>4, <3>1 DEF Kept
    <3> QED BY <3>1, <3>2
  <2>2. ASSUME NEW i \in Kept(docs, from)
        PROVE  \E n \in 1 .. Cardinality(S) : page[n] = docs[i]
    <3>1. i \in from + 1 .. Len(docs) /\ i <= from + BucketSize /\ docs[i] \in Authored
      BY DEF Kept
    <3>2. i - from \in 1 .. Len(w) /\ from + (i - from) = i
      <4>1. i - from \in 1 .. BucketSize /\ from + (i - from) = i /\ i <= Len(docs)
        BY <1>1, <3>1
      <4> QED BY <1>2, <4>1
    <3>3. w[i - from] = docs[i]
      BY <1>2, <3>2
    <3>4. i - from \in S
      BY <1>2, <3>1, <3>2, <3>3
    <3>5. Rank(S, i - from) \in 1 .. Cardinality(S) /\ page[Rank(S, i - from)] = docs[i]
      <4> HIDE DEF S
      <4> QED BY <1>7, <1>8, <3>3, <3>4
    <3> QED BY <3>5
  <2>3. ToSet(page) = {page[n] : n \in 1 .. Cardinality(S)}
    BY <1>8 DEF ToSet
  <2> HIDE DEF S
  <2> QED BY <2>1, <2>2, <2>3
<1>11. Len(page) = BucketSize <=>
          /\ from + BucketSize <= Len(docs)
          /\ \A i \in from + 1 .. from + BucketSize : docs[i] \in Authored
  <2>1. ASSUME Cardinality(S) = BucketSize
        PROVE  /\ from + BucketSize <= Len(docs)
               /\ \A i \in from + 1 .. from + BucketSize : docs[i] \in Authored
    <3>1. Len(w) = BucketSize /\ S = 1 .. BucketSize
      BY <1>2, <1>6, <2>1
    <3>2. ASSUME NEW i \in from + 1 .. from + BucketSize PROVE docs[i] \in Authored
      <4>1. i - from \in 1 .. BucketSize /\ from + (i - from) = i
        BY <1>1
      <4> QED BY <1>2, <1>4, <3>1, <4>1
    <3> QED BY <1>2, <3>1, <3>2
  <2>2. ASSUME from + BucketSize <= Len(docs),
               \A i \in from + 1 .. from + BucketSize : docs[i] \in Authored
        PROVE  Cardinality(S) = BucketSize
    <3>1. Len(w) = BucketSize
      BY <1>2, <2>2
    <3>2. ASSUME NEW i \in 1 .. Len(w) PROVE i \in S
      <4>1. from + i \in from + 1 .. from + BucketSize
        BY <1>1, <3>1
      <4> QED BY <1>2, <2>2, <4>1
    <3>3. S = 1 .. Len(w)
      BY <1>4, <3>2
    <3> QED BY <1>5, <3>1, <3>3
  <2> QED BY <1>9, <2>1, <2>2
<1>12. Len(page) \in 0 .. BucketSize
  BY <1>1, <1>2, <1>6, <1>9
<1> QED BY <1>9, <1>10, <1>11, <1>12 DEF page

\* The first documents, all of them with authors, and the page after them:
\* it either is full, of authored documents, or ends the search.
LEMMA LastPageEnds ==
  ASSUME NEW docs \in Seq(Docs), NEW k \in Nat, NEW from, from = k * BucketSize,
         from <= Len(docs), \A i \in 1 .. from : docs[i] \in Authored
  PROVE  LET page == Page(docs, from, BucketSize)
             before == {docs[i] : i \in 1 .. from}
         IN  IF LastPage(page)
             THEN before \cup ToSet(page) = BeforeAnyGap(docs)
             ELSE /\ from + BucketSize <= Len(docs)
                  /\ \A i \in 1 .. from + BucketSize : docs[i] \in Authored
                  /\ before \cup ToSet(page) = {docs[i] : i \in 1 .. from + BucketSize}
<1> DEFINE page == Page(docs, from, BucketSize)
           start(j) == ((j - 1) \div BucketSize) * BucketSize
<1>1. BucketSize \in Nat \ {0} /\ Len(docs) \in Nat /\ from \in Nat
      /\ (k + 1) * BucketSize = from + BucketSize
  BY BucketAssumption, MultiplesOrdered
<1>2. /\ ToSet(page) = {docs[i] : i \in Kept(docs, from)}
      /\ Len(page) \in 0 .. BucketSize
      /\ Len(page) = BucketSize <=>
              /\ from + BucketSize <= Len(docs)
              /\ \A i \in from + 1 .. from + BucketSize : docs[i] \in Authored
  BY <1>1, PageFacts
<1> HIDE DEF page
<1>3. CASE ~LastPage(page)
  <2>1. /\ from + BucketSize <= Len(docs)
        /\ \A i \in from + 1 .. from + BucketSize : docs[i] \in Authored
    BY <1>1, <1>2, <1>3 DEF LastPage
  <2>2. Kept(docs, from) = from + 1 .. from + BucketSize
    BY <1>1, <2>1 DEF Kept
  <2>3. \A i \in 1 .. from + BucketSize : i \in 1 .. from \/ i \in from + 1 .. from + BucketSize
    BY <1>1
  <2>4. (1 .. from) \cup Kept(docs, from) = 1 .. from + BucketSize
    BY <1>1, <2>2
  <2>5. \A i \in 1 .. from + BucketSize : docs[i] \in Authored
    BY <2>1, <2>3
  <2>6. {docs[i] : i \in 1 .. from} \cup ToSet(page) = {docs[i] : i \in 1 .. from + BucketSize}
    BY <1>2, <2>4
  <2> QED BY <1>3, <2>1, <2>5, <2>6 DEF page
<1>4. CASE LastPage(page)
  <2> DEFINE good == {j \in DOMAIN docs :
                /\ docs[j] \in Authored
                /\ \A i \in 1 .. start(j) : docs[i] \in Authored}
  <2>1. ~(/\ from + BucketSize <= Len(docs)
          /\ \A i \in from + 1 .. from + BucketSize : docs[i] \in Authored)
    BY <1>1, <1>2, <1>4 DEF LastPage
  <2>2. ASSUME NEW j \in 1 .. Len(docs)
        PROVE  /\ start(j) \in Nat /\ start(j) < j
               /\ j <= from + BucketSize => start(j) <= from
               /\ j > from + BucketSize => from + BucketSize <= start(j)
    <3>1. j - 1 \in Nat
      OBVIOUS
    <3>2. start(j) \in Nat /\ start(j) <= j - 1
      BY <1>1, <3>1, DivisionFacts
    <3>3. j - 1 < k * BucketSize + BucketSize => start(j) <= k * BucketSize
      BY <1>1, <3>1, MultipleBelow
    <3>4. (k + 1) * BucketSize <= j - 1 => (k + 1) * BucketSize <= start(j)
      <4>1. k + 1 \in Nat
        OBVIOUS
      <4> QED BY <1>1, <3>1, <4>1, MultipleBelow
    <3> HIDE DEF start
    <3> QED BY <1>1, <3>1, <3>2, <3>3, <3>4
  <2> HIDE DEF start
  <2>3. ASSUME NEW j \in 1 .. Len(docs), docs[j] \in Authored, j <= from + BucketSize
        PROVE  j \in good
    <3>1. start(j) \in Nat /\ start(j) <= from
      BY <2>2, <2>3
    <3>2. \A i \in 1 .. start(j) : i \in 1 .. from
      BY <1>1, <3>1
    <3> QED BY <2>3, <3>2
  <2>4. ASSUME NEW j \in good PROVE j \in 1 .. Len(docs) /\ docs[j] \in Authored
                                    /\ j <= from + BucketSize
    <3>1. j \in 1 .. Len(docs) /\ docs[j] \in Authored
          /\ \A i \in 1 .. start(j) : docs[i] \in Authored
      OBVIOUS
    <3>2. CASE j > from + BucketSize
      <4>1. from + BucketSize <= Len(docs)
        BY <1>1, <3>1, <3>2
      <4>2. \A i \in from + 1 .. from + BucketSize : i \in 1 .. start(j)
        BY <1>1, <2>2, <3>1, <3>2
      <4> QED BY <2>1, <3>1, <4>1, <4>2
    <3> QED BY <1>1, <3>1, <3>2
  <2>5. good = (1 .. from) \cup Kept(docs, from)
    <3>1. ASSUME NEW j \in 1 .. from PROVE j \in good
      BY <1>1, <2>3
    <3>2. ASSUME NEW j \in Kept(docs, from) PROVE j \in good
      BY <1>1, <2>3 DEF Kept
    <3>3. ASSUME NEW j \in good PROVE j \in (1 .. from) \cup Kept(docs, from)
      BY <1>1, <2>4 DEF Kept
    <3> HIDE DEF good
    <3> QED BY <3>1, <3>2, <3>3
  <2>6. BeforeAnyGap(docs) = {docs[j] : j \in good}
    BY DEF BeforeAnyGap, start
  <2> HIDE DEF good
  <2>7. {docs[i] : i \in 1 .. from} \cup ToSet(page) = BeforeAnyGap(docs)
    BY <1>2, <2>5, <2>6
  <2> QED BY <1>4, <2>7 DEF page
<1> QED BY <1>3, <1>4

-----------------------------------------------------------------------------
(* The buckets of the transaction *)

\* The documents of the buckets before b.
Bucketed(all, b) == UNION {ToSet(Buckets(all)[n]) : n \in 1 .. b - 1}

LEMMA BucketsHoldAll ==
  ASSUME NEW all \in Seq(Docs)
  PROVE  LET count == (Len(all) + BucketSize - 1) \div BucketSize
         IN  /\ count \in Nat /\ DOMAIN Buckets(all) = 1 .. count
             /\ Bucketed(all, count + 1) = ToSet(all)
<1> DEFINE length == Len(all)
           count == (length + BucketSize - 1) \div BucketSize
<1>1. BucketSize \in Nat \ {0} /\ length \in Nat /\ length + BucketSize - 1 \in Nat
  BY BucketAssumption
<1>2. count \in Nat /\ length + BucketSize - 1 < count * BucketSize + BucketSize
      /\ count * BucketSize \in Nat
  BY <1>1, DivisionFacts
<1>3. length <= count * BucketSize
  BY <1>1, <1>2
<1>4. DOMAIN Buckets(all) = 1 .. count
  BY DEF Buckets
<1>5. \A b \in 1 .. count : Buckets(all)[b] = Window(all, (b - 1) * BucketSize, BucketSize)
  BY DEF Buckets
<1> HIDE DEF count, length
<1>6. ASSUME NEW b \in 1 .. count
      PROVE  LET from == (b - 1) * BucketSize
                 w == Window(all, from, BucketSize)
             IN  /\ from \in Nat /\ w \in Seq(Docs)
                 /\ \A i \in 1 .. Len(w) : w[i] = all[from + i] /\ from + i \in 1 .. length
                 /\ \A i \in 1 .. BucketSize : from + i <= length => i \in 1 .. Len(w)
  <2> DEFINE from == (b - 1) * BucketSize
             w == Window(all, from, BucketSize)
  <2>1. from \in Nat
    <3>1. b - 1 \in Nat
      BY <1>2
    <3> QED BY <1>1, <3>1, MultiplesOrdered
  <2> HIDE DEF from
  <2>2. /\ w \in Seq(Docs)
        /\ Len(w) = IF from + BucketSize <= length THEN BucketSize
                    ELSE IF from <= length THEN length - from ELSE 0
        /\ \A i \in 1 .. Len(w) : w[i] = all[from + i] /\ from + i \in 1 .. length
    BY <1>1, <2>1, WindowFacts DEF length
  <2> HIDE DEF w
  <2>3. \A i \in 1 .. BucketSize : from + i <= length => i \in 1 .. Len(w)
    BY <1>1, <2>1, <2>2
  <2> QED BY <2>1, <2>2, <2>3 DEF from, w
<1>7. ASSUME NEW b \in 1 .. count PROVE ToSet(Buckets(all)[b]) \subseteq ToSet(all)
  <2> DEFINE from == (b - 1) * BucketSize
             w == Window(all, from, BucketSize)
  <2>1. w \in Seq(Docs) /\ \A i \in 1 .. Len(w) : w[i] = all[from + i] /\ from + i \in 1 .. length
    BY <1>6
  <2>2. Buckets(all)[b] = w
    BY <1>5
  <2> HIDE DEF w, from
  <2>3. DOMAIN w = 1 .. Len(w) /\ DOMAIN all = 1 .. length
    BY <2>1 DEF length
  <2> QED BY <2>1, <2>2, <2>3 DEF ToSet
<1>8. ASSUME NEW i \in 1 .. length
      PROVE  \E b \in 1 .. count : all[i] \in ToSet(Buckets(all)[b])
  <2> DEFINE q == (i - 1) \div BucketSize
             w == Window(all, q * BucketSize, BucketSize)
  <2>1. i - 1 \in Nat /\ i - 1 < count * BucketSize
    BY <1>1, <1>2, <1>3
  <2>2. /\ q \in Nat /\ q * BucketSize <= i - 1 /\ i - 1 < q * BucketSize + BucketSize
        /\ q * BucketSize \in Nat
    BY <1>1, <2>1, DivisionFacts
  <2>3. q < count
    BY <1>1, <1>2, <2>1, MultipleBelow
  <2> HIDE DEF q
  <2>4. q + 1 \in 1 .. count /\ (q + 1) - 1 = q
    BY <1>2, <2>2, <2>3
  <2>5. Buckets(all)[q + 1] = w
    BY <1>5, <2>4
  <2>6. /\ w \in Seq(Docs)
        /\ \A j \in 1 .. Len(w) : w[j] = all[q * BucketSize + j]
        /\ \A j \in 1 .. BucketSize : q * BucketSize + j <= length => j \in 1 .. Len(w)
    BY <1>6, <2>4
  <2>7. LET j == i - q * BucketSize
        IN  j \in 1 .. BucketSize /\ q * BucketSize + j = i /\ q * BucketSize + j <= length
    BY <1>1, <2>2
  <2> HIDE DEF w
  <2>8. i - q * BucketSize \in DOMAIN w /\ w[i - q * BucketSize] = all[i]
    BY <2>6, <2>7
  <2> QED BY <2>4, <2>5, <2>8 DEF ToSet
<1>9. Bucketed(all, count + 1) = ToSet(all)
  <2>1. (count + 1) - 1 = count
    BY <1>2
  <2>2. Bucketed(all, count + 1) = UNION {ToSet(Buckets(all)[n]) : n \in 1 .. count}
    BY <2>1 DEF Bucketed
  <2>3. ToSet(all) = {all[i] : i \in 1 .. length}
    BY DEF ToSet, length
  <2> QED BY <1>7, <1>8, <2>2, <2>3
<1> QED BY <1>2, <1>4, <1>9 DEF count, length

-----------------------------------------------------------------------------
(* The command *)

\* The documents of the first n queries that are to be saved.
Through(n) == UNION {BeforeAnyGap(upstream[event[k]]) : k \in 1 .. n}

Keys(docs) == {Key[d] : d \in docs}

UploadTyped ==
    /\ upstream \in [Queries -> Seq(Docs)] /\ event \in Seq(Queries)
    /\ query \in 1 .. Len(event) + 1
    /\ books \in Seq(Docs)
    /\ pc \in {"search", "save", "ACK", "REJECT"}

\* All the documents before the next page have authors and are collected.
Searching ==
    pc = "search" =>
        /\ bucket = 1 /\ inserted = {} /\ table = {}
        /\ \E k \in Nat : offset = k * BucketSize
        /\ query > Len(event) => offset = 0 /\ ToSet(books) = Through(Len(event))
        /\ query <= Len(event) =>
            LET docs == upstream[event[query]]
            IN  /\ offset <= Len(docs)
                /\ \A i \in 1 .. offset : docs[i] \in Authored
                /\ ToSet(books) = Through(query - 1) \cup {docs[i] : i \in 1 .. offset}

Saving ==
    pc = "save" =>
        /\ ToSet(books) = Through(Len(event)) /\ table = {}
        /\ bucket \in Nat \ {0} /\ bucket - 1 \in DOMAIN Buckets(books) \cup {0}
        /\ inserted = Keys(Bucketed(books, bucket))

UploadInv == UploadTyped /\ Searching /\ Saving /\ SavesThroughFirstGap

LEMMA ExpectedThrough ==
  ASSUME event \in Seq(Queries)
  PROVE  Expected = Keys(Through(Len(event)))
BY DEF Expected, Keys, Through, Searched, ToSet

LEMMA InitUpload == Init => UploadInv
<1> SUFFICES ASSUME Init PROVE UploadInv
  OBVIOUS
<1>1. upstream \in [Queries -> Seq(Docs)] /\ event \in Seq(Queries)
  BY EventsAssumption DEF Init
<1>2. /\ query = 1 /\ offset = 0 /\ books = <<>> /\ bucket = 1 /\ inserted = {}
      /\ table = {} /\ pc = "search"
  BY DEF Init
<1>3. UploadTyped
  BY <1>1, <1>2 DEF UploadTyped
<1>4. ToSet(<<>>) = {} /\ Through(0) = {}
  BY DEF ToSet, Through
<1>5. Searching
  <2>1. offset = 0 * BucketSize /\ 0 \in Nat
    BY <1>2, BucketAssumption
  <2>2. query > Len(event) => Len(event) = 0
    BY <1>1, <1>2
  <2>3. query <= Len(event) => event[query] \in Queries /\ 0 <= Len(upstream[event[query]])
    BY <1>1, <1>2
  <2>4. 1 .. 0 = {} /\ 1 - 1 = 0
    OBVIOUS
  <2> QED BY <1>2, <1>4, <2>1, <2>2, <2>3, <2>4 DEF Searching
<1> QED BY <1>2, <1>3, <1>5 DEF UploadInv, Saving, SavesThroughFirstGap

LEMMA SearchKeeps ==
  ASSUME UploadInv, Search
  PROVE  UploadInv'
<1> DEFINE docs == upstream[event[query]]
           page == Page(docs, offset, BucketSize)
<1>1. /\ pc = "search" /\ query <= Len(event) /\ books' = books \o page
      /\ IF LastPage(page) THEN query' = query + 1 /\ offset' = 0
                           ELSE offset' = offset + BucketSize /\ query' = query
      /\ UNCHANGED <<upstream, event, bucket, inserted, table, pc>>
  BY DEF Search
<1>2. /\ docs \in Seq(Docs) /\ Len(event) \in Nat /\ query \in 1 .. Len(event)
      /\ books \in Seq(Docs) /\ event \in Seq(Queries) /\ upstream \in [Queries -> Seq(Docs)]
  BY <1>1 DEF UploadInv, UploadTyped
<1>3. PICK k \in Nat : offset = k * BucketSize
  BY <1>1 DEF UploadInv, Searching
<1>4. /\ bucket = 1 /\ inserted = {} /\ table = {}
      /\ offset <= Len(docs) /\ \A i \in 1 .. offset : docs[i] \in Authored
      /\ ToSet(books) = Through(query - 1) \cup {docs[i] : i \in 1 .. offset}
  BY <1>1 DEF UploadInv, Searching
<1>5. BucketSize \in Nat \ {0} /\ offset \in Nat
      /\ (k + 1) * BucketSize = offset + BucketSize
  BY <1>3, BucketAssumption, MultiplesOrdered
<1>6. page \in Seq(Docs)
  BY <1>2, <1>5, PageFacts
<1>7. IF LastPage(page)
      THEN {docs[i] : i \in 1 .. offset} \cup ToSet(page) = BeforeAnyGap(docs)
      ELSE /\ offset + BucketSize <= Len(docs)
           /\ \A i \in 1 .. offset + BucketSize : docs[i] \in Authored
           /\ {docs[i] : i \in 1 .. offset} \cup ToSet(page) = {docs[i] : i \in 1 .. offset + BucketSize}
  BY <1>2, <1>3, <1>4, LastPageEnds
<1> HIDE DEF page
<1>8. /\ books' \in Seq(Docs) /\ ToSet(books') = ToSet(books) \cup ToSet(page)
  <2>1. \A v, w \in Seq(Docs) : v \o w \in Seq(Docs) /\ ToSet(v \o w) = ToSet(v) \cup ToSet(w)
    BY ConcatFacts
  <2> QED BY <1>1, <1>2, <1>6, <2>1
<1>9. pc' = "search" /\ ~(pc' = "save") /\ ~(pc' \in {"ACK", "REJECT"})
  BY <1>1
<1>10. CASE ~LastPage(page)
  <2>1. UploadTyped'
    BY <1>1, <1>2, <1>8, <1>10 DEF UploadTyped
  <2>2. ToSet(books') = Through(query - 1) \cup {docs[i] : i \in 1 .. offset + BucketSize}
    BY <1>4, <1>7, <1>8, <1>10
  <2>3. Through(query - 1)' = Through(query - 1)
    BY <1>1, <1>10 DEF Through
  <2>4. offset' = (k + 1) * BucketSize /\ k + 1 \in Nat /\ query' <= Len(event')
        /\ ~(query' > Len(event'))
    BY <1>1, <1>2, <1>5, <1>10
  <2>5. docs' = docs /\ offset' = offset + BucketSize
    BY <1>1, <1>10
  <2>6. Searching'
    BY <1>1, <1>4, <1>7, <1>10, <2>2, <2>3, <2>4, <2>5 DEF Searching
  <2> QED BY <1>9, <2>1, <2>6 DEF UploadInv, Saving, SavesThroughFirstGap
<1>11. CASE LastPage(page)
  <2>1. UploadTyped'
    BY <1>1, <1>2, <1>8, <1>11 DEF UploadTyped
  <2>2. ToSet(books') = Through(query)
    <3> DEFINE gap(n) == BeforeAnyGap(upstream[event[n]])
    <3>1. 1 .. query = (1 .. query - 1) \cup {query}
      BY <1>2
    <3>2. /\ Through(query) = UNION {gap(n) : n \in 1 .. query}
          /\ Through(query - 1) = UNION {gap(n) : n \in 1 .. query - 1}
          /\ BeforeAnyGap(docs) = gap(query)
      BY DEF Through
    <3> HIDE DEF gap
    <3>3. Through(query) = Through(query - 1) \cup BeforeAnyGap(docs)
      BY <3>1, <3>2
    <3> QED BY <1>4, <1>7, <1>8, <1>11, <3>3
  <2>3. /\ query' = query + 1 /\ query' - 1 = query
        /\ query' > Len(event) => query = Len(event)
    BY <1>1, <1>2, <1>11
  <2>4. \A n : Through(n)' = Through(n)
    BY <1>1 DEF Through
  <2>5. offset' = 0 /\ offset' = 0 * BucketSize /\ 0 \in Nat /\ 1 .. 0 = {}
    BY <1>1, <1>5, <1>11
  <2>6. query' <= Len(event) => upstream[event[query']] \in Seq(Docs)
    BY <1>2, <2>3
  <2>7. Searching'
    BY <1>1, <1>4, <2>2, <2>3, <2>4, <2>5, <2>6 DEF Searching
  <2> QED BY <1>9, <2>1, <2>7 DEF UploadInv, Saving, SavesThroughFirstGap
<1> QED BY <1>10, <1>11

LEMMA StepUpload == UploadInv /\ [Next]_vars => UploadInv'
<1> SUFFICES ASSUME UploadInv, [Next]_vars PROVE UploadInv'
  OBVIOUS
<1> DEFINE count == (Len(books) + BucketSize - 1) \div BucketSize
<1>1. /\ count \in Nat /\ DOMAIN Buckets(books) = 1 .. count
      /\ Bucketed(books, count + 1) = ToSet(books)
  BY BucketsHoldAll DEF UploadInv, UploadTyped
<1> HIDE DEF count
<1>2. Expected = Keys(Through(Len(event)))
  BY ExpectedThrough DEF UploadInv, UploadTyped
<1>3. ASSUME pc = "save", bucket \notin DOMAIN Buckets(books)
      PROVE  inserted = Expected /\ table = {}
  <2>1. bucket = count + 1
    BY <1>1, <1>3 DEF UploadInv, Saving
  <2> QED BY <1>1, <1>2, <1>3, <2>1 DEF UploadInv, Saving
<1>4. ASSUME UNCHANGED <<upstream, event, query, books>>
      PROVE  \A n : /\ Through(n)' = Through(n) /\ Expected' = Expected
                    /\ Buckets(books)' = Buckets(books)
                    /\ Bucketed(books, n)' = Bucketed(books, n)
  BY <1>4 DEF Through, Expected, Searched, Buckets, Bucketed
<1>5. CASE Search
  BY <1>5, SearchKeeps
<1>6. CASE Begin
  <2>1. /\ pc = "search" /\ query > Len(event) /\ pc' = "save"
        /\ UNCHANGED <<upstream, event, query, offset, books, bucket, inserted, table>>
    BY <1>6 DEF Begin
  <2>2. bucket = 1 /\ inserted = {} /\ table = {} /\ ToSet(books) = Through(Len(event))
    BY <2>1 DEF UploadInv, Searching
  <2>3. Bucketed(books, 1) = {} /\ Keys({}) = {}
    BY DEF Bucketed, Keys
  <2>4. Saving'
    BY <1>4, <2>1, <2>2, <2>3 DEF Saving
  <2> QED BY <2>1, <2>4 DEF UploadInv, UploadTyped, Searching, SavesThroughFirstGap
<1>7. CASE SearchFails
  <2>1. /\ pc = "search" /\ pc' = "REJECT" /\ table' = table
        /\ UNCHANGED <<upstream, event, query, offset, books, bucket, inserted>>
    BY <1>7 DEF SearchFails
  <2>2. table = {}
    BY <2>1 DEF UploadInv, Searching
  <2> QED BY <2>1, <2>2 DEF UploadInv, UploadTyped, Searching, Saving, SavesThroughFirstGap
<1>8. CASE SaveBucket
  <2>1. /\ pc = "save" /\ bucket \in 1 .. count /\ pc' = "save" /\ bucket' = bucket + 1
        /\ inserted' = inserted \cup {Key[d] : d \in ToSet(Buckets(books)[bucket])}
        /\ UNCHANGED <<upstream, event, query, offset, books, table>>
    BY <1>1, <1>8 DEF SaveBucket
  <2>2. Bucketed(books, bucket + 1) = Bucketed(books, bucket) \cup ToSet(Buckets(books)[bucket])
    <3>1. \A n \in 1 .. (bucket + 1) - 1 : n \in 1 .. bucket - 1 \/ n = bucket
      BY <1>1, <2>1
    <3>2. \A n \in (1 .. bucket - 1) \cup {bucket} : n \in 1 .. (bucket + 1) - 1
      BY <1>1, <2>1
    <3> QED BY <3>1, <3>2 DEF Bucketed
  <2>3. inserted' = Keys(Bucketed(books, bucket + 1))
    BY <2>1, <2>2 DEF Keys, UploadInv, Saving
  <2>4. bucket' \in Nat \ {0} /\ bucket' - 1 \in DOMAIN Buckets(books)
    BY <1>1, <2>1
  <2>5. Saving'
    BY <1>4, <2>1, <2>3, <2>4 DEF UploadInv, Saving
  <2> QED BY <2>1, <2>5 DEF UploadInv, UploadTyped, Searching, SavesThroughFirstGap
<1>9. CASE Commit \/ SaveFails \/ CommitLost
  <2>1. /\ pc' \in {"ACK", "REJECT"} /\ UNCHANGED <<upstream, event, query, offset, books, bucket>>
        /\ pc = "save"
    BY <1>9 DEF Commit, SaveFails, CommitLost
  <2>2. Expected' = Expected
    BY <1>4, <2>1
  <2>3. /\ pc' = "ACK" => table' = Expected
        /\ table' \in {{}, Expected}
    BY <1>3, <1>9 DEF Commit, SaveFails, CommitLost, UploadInv, Saving
  <2> QED BY <2>1, <2>2, <2>3 DEF UploadInv, UploadTyped, Searching, Saving, SavesThroughFirstGap
<1>10. CASE Ended \/ UNCHANGED vars
  <2>1. UNCHANGED <<upstream, event, query, offset, books, bucket, inserted, table, pc>>
    BY <1>10 DEF Ended, vars
  <2>2. UploadTyped' /\ SavesThroughFirstGap'
    BY <1>4, <2>1 DEF UploadInv, UploadTyped, SavesThroughFirstGap
  <2>3. Searching' /\ Saving'
    BY <1>4, <2>1 DEF UploadInv, Searching, Saving
  <2> QED BY <2>2, <2>3 DEF UploadInv
<1> QED BY <1>5, <1>6, <1>7, <1>8, <1>9, <1>10 DEF Next

LEMMA UploadInvariance == Spec => []UploadInv
BY InitUpload, StepUpload, PTL DEF Spec

\* For any upstream, any event and pages of any length, an acknowledged event
\* saved, of every query, the books through the first page with an authorless
\* document, and a rejected one saved all of them or none.
THEOREM UploadSavesThroughGap == Spec => []SavesThroughFirstGap
<1>1. UploadInv => SavesThroughFirstGap
  BY DEF UploadInv
<1> QED BY <1>1, UploadInvariance, PTL

\* No search begins past the end of what Open Library has.
THEOREM UploadStopsInTime == Spec => []NeverSearchesPastTheEnd
<1>1. UploadInv => NeverSearchesPastTheEnd
  BY DEF UploadInv, Searching, NeverSearchesPastTheEnd
<1> QED BY <1>1, UploadInvariance, PTL

-----------------------------------------------------------------------------
(* The walk through a list, of books as they are ordered *)

Live == ToSet(heap)

\* Rows the walk went past without listing them.
Skipped == {i \in Live \cap Initial : i \notin ToSet(listed) /\ Rank(Live, i) <= skip}

Unlisted == {i \in Initial \ retired : i \notin ToSet(listed)}

Listings(i) == Cardinality(At(listed, i))

WalkTyped ==
    /\ heap \in Seq(Ids) /\ Distinct(heap)
    /\ Initial \subseteq Live \cup retired
    /\ skip \in Nat /\ listed \in Seq(Ids) /\ added \in Nat /\ removed \in Nat

SkipsForDeletions ==
    IF step = "done" THEN Cardinality(Unlisted) <= removed ELSE Cardinality(Skipped) <= removed

\* A row that is still ahead was listed only if rows created since moved it.
RepeatsForCreations ==
    \A i \in Ids :
        /\ Listings(i) <= 1 + added
        /\ i \notin Live \cup retired => Listings(i) = 0
        /\ step # "done" /\ i \in Live /\ Rank(Live, i) > skip => Listings(i) <= added

WalkInv == WalkTyped /\ SkipsForDeletions /\ RepeatsForCreations

LEMMA WalkPage ==
  ASSUME OrderedById
  PROVE  Slice = Window(InOrder(Live), skip, Limit)
<1>1. Rows = InOrder(Live)
  BY DEF Rows, Live
<1> QED BY <1>1 DEF Slice

LEMMA WalkProperties ==
  /\ MissesOnlyForDeletions <=> (step = "done" => Cardinality(Unlisted) <= removed)
  /\ RepeatsOnlyForCreations <=> \A i \in Ids : Listings(i) <= 1 + added
<1>1. Missed = Unlisted
  BY DEF Missed, Unlisted
<1>2. \A i : Times(i) = Listings(i)
  BY DEF Times, Listings, At
<1> QED BY <1>1, <1>2 DEF MissesOnlyForDeletions, RepeatsOnlyForCreations

\* The rows there are.
LEMMA LiveFacts ==
  ASSUME heap \in Seq(Ids), Distinct(heap)
  PROVE  Live \subseteq Ids /\ Live \in SUBSET Int /\ IsFiniteSet(Live)
<1>1. Live = {heap[n] : n \in 1 .. Len(heap)} /\ Len(heap) \in Nat
      /\ \A n \in 1 .. Len(heap) : heap[n] \in Ids
  BY DEF Live, ToSet
<1>2. Live \subseteq Ids /\ Ids \subseteq Nat
  BY <1>1, IdsAssumption
<1> DEFINE f == [n \in 1 .. Len(heap) |-> heap[n]]
<1>3. f \in Surjection(1 .. Len(heap), Live)
  BY <1>1 DEF Surjection
<1>4. IsFiniteSet(1 .. Len(heap))
  BY <1>1, FS_Interval
<1>5. IsFiniteSet(Live)
  <2> HIDE DEF f
  <2> QED BY <1>3, <1>4, FS_Surjection
<1> QED BY <1>2, <1>5

LEMMA WalkPageFacts ==
  ASSUME WalkTyped
  PROVE  LET page == Window(InOrder(Live), skip, Limit)
         IN  /\ page \in Seq(Ids) /\ Distinct(page)
             /\ ToSet(page) = {i \in Live : Rank(Live, i) > skip /\ Rank(Live, i) <= skip + Limit}
             /\ Len(page) # Limit => \A i \in Live : Rank(Live, i) <= skip + Limit
             /\ \A i \in Live : Rank(Live, i) \in Nat
<1> DEFINE s == InOrder(Live)
           page == Window(s, skip, Limit)
           c == Cardinality(Live)
<1>1. Live \subseteq Ids /\ Live \in SUBSET Int /\ IsFiniteSet(Live) /\ skip \in Nat /\ Limit \in Nat \ {0}
  BY LiveFacts, IdsAssumption, LimitAssumption DEF WalkTyped
<1>2. /\ s \in [1 .. c -> Live] /\ c \in Nat
      /\ \A n \in 1 .. c : Rank(Live, s[n]) = n
      /\ \A i \in Live : Rank(Live, i) \in 1 .. c /\ s[Rank(Live, i)] = i
  BY <1>1, InOrderFacts
<1> HIDE DEF s, c
<1>3. s \in Seq(Ids) /\ Len(s) = c
  <2>1. s \in [1 .. c -> Ids]
    BY <1>1, <1>2
  <2> QED BY <1>2, <2>1
<1>4. /\ page \in Seq(Ids)
      /\ Len(page) = IF skip + Limit <= c THEN Limit ELSE IF skip <= c THEN c - skip ELSE 0
      /\ \A n \in 1 .. Len(page) : page[n] = s[skip + n] /\ skip + n \in 1 .. c
  <2>1. /\ page \in Seq(Ids)
        /\ Len(page) = IF skip + Limit <= Len(s) THEN Limit
                       ELSE IF skip <= Len(s) THEN Len(s) - skip ELSE 0
        /\ \A n \in 1 .. Len(page) : page[n] = s[skip + n] /\ skip + n \in 1 .. Len(s)
    <3>1. Limit \in Nat
      BY <1>1
    <3> QED BY <1>1, <1>3, <3>1, WindowFacts
  <2> HIDE DEF page
  <2> QED BY <1>3, <2>1
<1> HIDE DEF page
<1>5. Len(page) \in Nat /\ Len(page) <= Limit
      /\ \A n \in 1 .. Limit : skip + n <= c => n \in 1 .. Len(page)
  BY <1>1, <1>2, <1>4
<1>6. \A n \in 1 .. Len(page) : page[n] \in Live /\ Rank(Live, page[n]) = skip + n
  BY <1>2, <1>4
<1>7. Distinct(page)
  <2> SUFFICES ASSUME NEW m \in 1 .. Len(page), NEW n \in 1 .. Len(page), page[m] = page[n]
               PROVE  m = n
    BY DEF Distinct
  <2>1. skip + m = skip + n
    BY <1>6
  <2> QED BY <1>1, <1>5, <2>1
<1>8. ToSet(page) = {page[n] : n \in 1 .. Len(page)}
  BY <1>4 DEF ToSet
<1>9. ToSet(page) = {i \in Live : Rank(Live, i) > skip /\ Rank(Live, i) <= skip + Limit}
  <2>1. ASSUME NEW n \in 1 .. Len(page)
        PROVE  page[n] \in Live /\ Rank(Live, page[n]) > skip /\ Rank(Live, page[n]) <= skip + Limit
    BY <1>1, <1>5, <1>6
  <2>2. ASSUME NEW i \in Live, Rank(Live, i) > skip, Rank(Live, i) <= skip + Limit
        PROVE  i \in ToSet(page)
    <3>1. Rank(Live, i) \in 1 .. c /\ s[Rank(Live, i)] = i
      BY <1>2
    <3> DEFINE n == Rank(Live, i) - skip
    <3>2. n \in 1 .. Limit /\ skip + n = Rank(Live, i) /\ skip + n <= c
      BY <1>1, <1>2, <2>2, <3>1
    <3>3. n \in 1 .. Len(page)
      BY <1>5, <3>2
    <3>4. page[n] = i
      BY <1>4, <3>1, <3>2, <3>3
    <3> QED BY <1>8, <3>3, <3>4
  <2> QED BY <1>8, <2>1, <2>2
<1>10. ASSUME Len(page) # Limit, NEW i \in Live PROVE Rank(Live, i) <= skip + Limit
  <2>1. Rank(Live, i) \in 1 .. c
    BY <1>2
  <2> QED BY <1>1, <1>2, <1>4, <1>10, <2>1
<1>11. \A i \in Live : Rank(Live, i) \in Nat
  BY <1>2
<1> QED BY <1>4, <1>7, <1>9, <1>10, <1>11 DEF page, s

\* How ranks move when a row comes or goes.
LEMMA RankMoves ==
  ASSUME NEW S \in SUBSET Int, IsFiniteSet(S), NEW k \in Int, NEW i \in Int
  PROVE  /\ Rank(S, i) <= Rank(S \cup {k}, i)
         /\ Rank(S \ {k}, i) <= Rank(S, i) /\ Rank(S, i) <= Rank(S \ {k}, i) + 1
         /\ Rank(S, i) \in Nat /\ Rank(S \cup {k}, i) \in Nat /\ Rank(S \ {k}, i) \in Nat
<1> DEFINE I == {j \in S : j <= i}
<1>1. IsFiniteSet(I) /\ Cardinality(I) \in Nat
  BY FS_Subset, FS_CardinalityType
<1>2. Rank(S, i) = Cardinality(I)
  BY DEF Rank
<1>3. Rank(S \cup {k}, i) = Cardinality(IF k <= i THEN I \cup {k} ELSE I)
  <2>1. {j \in S \cup {k} : j <= i} = IF k <= i THEN I \cup {k} ELSE I
    OBVIOUS
  <2> QED BY <2>1 DEF Rank
<1>4. Rank(S \ {k}, i) = Cardinality(I \ {k})
  <2>1. {j \in S \ {k} : j <= i} = I \ {k}
    OBVIOUS
  <2> QED BY <2>1 DEF Rank
<1> HIDE DEF I
<1>5. Cardinality(I \cup {k}) = IF k \in I THEN Cardinality(I) ELSE Cardinality(I) + 1
  BY <1>1, FS_AddElement
<1>6. Cardinality(I \ {k}) = IF k \in I THEN Cardinality(I) - 1 ELSE Cardinality(I)
  BY <1>1, FS_RemoveElement
<1>7. Cardinality(I \ {k}) \in Nat
  BY <1>1, FS_RemoveElement, FS_CardinalityType
<1> QED BY <1>1, <1>2, <1>3, <1>4, <1>5, <1>6, <1>7

LEMMA SkippedFinite ==
  /\ IsFiniteSet(Skipped) /\ Cardinality(Skipped) \in Nat
  /\ IsFiniteSet(Unlisted) /\ Cardinality(Unlisted) \in Nat
<1>1. IsFiniteSet(Initial) /\ Skipped \in SUBSET Initial /\ Unlisted \in SUBSET Initial
  BY IdsAssumption DEF Skipped, Unlisted
<1> QED BY <1>1, FS_Subset, FS_CardinalityType

LEMMA InitWalk == ASSUME WalkInit PROVE WalkInv
<1> DEFINE c == Cardinality(Initial)
<1>1. /\ heap \in [1 .. c -> Initial] /\ retired = {}
      /\ \A m, n \in 1 .. c : m # n => heap[m] # heap[n]
      /\ step = "count" /\ skip = 0 /\ listed = <<>> /\ added = 0 /\ removed = 0
  BY DEF WalkInit, SetToSeqs
<1>2. IsFiniteSet(Initial) /\ c \in Nat
  BY FS_CardinalityType, IdsAssumption
<1> HIDE DEF c
<1>3. heap \in Seq(Ids) /\ Len(heap) = c
  <2>1. heap \in [1 .. c -> Ids]
    BY <1>1, IdsAssumption
  <2> QED BY <1>2, <2>1
<1>4. Distinct(heap)
  BY <1>1, <1>3 DEF Distinct
<1>5. Live = Initial
  <2>1. heap \in Injection(1 .. c, Initial)
    BY <1>1 DEF Injection, IsInjective
  <2>2. IsFiniteSet(1 .. c) /\ Cardinality(1 .. c) = c
    BY <1>2, FS_Interval
  <2>3. heap \in Surjection(1 .. c, Initial)
    BY <1>2, <2>1, <2>2, FS_Injection DEF c
  <2>4. \A i \in Initial : \E n \in 1 .. c : heap[n] = i
    BY <2>3 DEF Surjection
  <2>5. Live = {heap[n] : n \in 1 .. c}
    BY <1>1 DEF Live, ToSet
  <2> QED BY <1>1, <2>4, <2>5
<1>6. \A i : Listings(i) = 0
  <2>1. \A i : At(listed, i) = {}
    BY <1>1 DEF At
  <2> QED BY <2>1, FS_EmptySet DEF Listings
<1>7. Skipped = {}
  <2>1. \A i \in Live : Rank(Live, i) >= 1 /\ Rank(Live, i) \in Int
    <3>1. Live \in SUBSET Int /\ IsFiniteSet(Live)
      BY <1>3, <1>4, LiveFacts
    <3>2. \A i \in Live : i \in Int
      BY <3>1
    <3> QED BY <3>1, <3>2, RankType
  <2> QED BY <1>1, <2>1 DEF Skipped
<1>8. WalkTyped
  BY <1>1, <1>3, <1>4, <1>5 DEF WalkTyped
<1>9. SkipsForDeletions
  BY <1>1, <1>7, FS_EmptySet DEF SkipsForDeletions
<1>10. RepeatsForCreations
  BY <1>1, <1>6 DEF RepeatsForCreations
<1> QED BY <1>8, <1>9, <1>10 DEF WalkInv

LEMMA SmallerSet ==
  ASSUME NEW S, NEW T \in SUBSET S, IsFiniteSet(S)
  PROVE  /\ IsFiniteSet(T) /\ Cardinality(T) \in Nat /\ Cardinality(S) \in Nat
         /\ Cardinality(T) <= Cardinality(S)
BY FS_Subset, FS_CardinalityType

\* A page: nothing it passes goes unlisted, and what it lists was ahead.
LEMMA ListKeeps ==
  ASSUME OrderedById, WalkInv, List
  PROVE  WalkInv'
<1> DEFINE page == Window(InOrder(Live), skip, Limit)
<1>1. /\ step = "list" /\ listed' = listed \o page
      /\ IF Len(page) = Limit THEN skip' = skip + Limit /\ step' = "count"
                              ELSE skip' = skip /\ step' = "done"
      /\ UNCHANGED <<heap, retired, added, removed>>
  <2>1. Slice = page
    BY WalkPage
  <2> HIDE DEF page
  <2> QED BY <2>1 DEF List, More
<1>2. /\ WalkTyped /\ Live' = Live /\ Limit \in Nat
      /\ \A i \in Live : i \in Ids
  BY <1>1, LiveFacts, IdsAssumption, LimitAssumption DEF WalkInv, WalkTyped, Live
<1>3. /\ page \in Seq(Ids) /\ Distinct(page)
      /\ ToSet(page) = {i \in Live : Rank(Live, i) > skip /\ Rank(Live, i) <= skip + Limit}
      /\ Len(page) # Limit => \A i \in Live : Rank(Live, i) <= skip + Limit
      /\ \A i \in Live : Rank(Live, i) \in Nat
  BY <1>2, WalkPageFacts
<1> HIDE DEF page
<1>4. /\ listed \in Seq(Ids) /\ skip \in Nat /\ added \in Nat /\ removed \in Nat
      /\ Initial \subseteq Live \cup retired
  BY <1>2 DEF WalkTyped
<1>5. /\ listed' \in Seq(Ids) /\ ToSet(listed') = ToSet(listed) \cup ToSet(page)
      /\ \A i : i \notin ToSet(page) => At(listed', i) = At(listed, i)
      /\ \A m \in 1 .. Len(page) :
             At(listed', page[m]) = At(listed, page[m]) \cup {Len(listed) + m}
  <2> DEFINE t == listed \o page
  <2>1. /\ t \in Seq(Ids) /\ ToSet(t) = ToSet(listed) \cup ToSet(page)
        /\ \A i : i \notin ToSet(page) => At(t, i) = At(listed, i)
        /\ \A m \in 1 .. Len(page) : At(t, page[m]) = At(listed, page[m]) \cup {Len(listed) + m}
    <3>1. listed \in Seq(Ids) /\ page \in Seq(Ids) /\ Distinct(page)
      BY <1>3, <1>4
    <3>2. \A m \in 1 .. Len(page) : At(t, page[m]) = At(listed, page[m]) \cup {Len(listed) + m}
      BY <3>1, ConcatFacts
    <3>3. t \in Seq(Ids) /\ ToSet(t) = ToSet(listed) \cup ToSet(page)
      BY <3>1, ConcatFacts
    <3>4. \A i : i \notin ToSet(page) => At(t, i) = At(listed, i)
      BY <3>1, ConcatFacts
    <3> QED BY <3>2, <3>3, <3>4
  <2>2. listed' = t
    BY <1>1
  <2> HIDE DEF t
  <2> QED BY <2>1, <2>2
<1>6. WalkTyped'
  BY <1>1, <1>2, <1>4, <1>5 DEF WalkTyped
<1>7. Cardinality(Skipped) <= removed
  BY <1>1 DEF WalkInv, SkipsForDeletions
<1>8. ASSUME Len(page) = Limit PROVE SkipsForDeletions'
  <2>1. skip' = skip + Limit /\ step' = "count"
    BY <1>1, <1>8
  <2>2. Skipped' \in SUBSET Skipped
    <3>1. ASSUME NEW i \in Live, i \notin ToSet(listed'), Rank(Live, i) <= skip'
          PROVE  i \notin ToSet(listed) /\ Rank(Live, i) <= skip
      BY <1>3, <1>4, <1>5, <2>1, <3>1
    <3>2. Skipped' = {i \in Live \cap Initial : i \notin ToSet(listed') /\ Rank(Live, i) <= skip'}
      BY <1>2 DEF Skipped
    <3> QED BY <3>1, <3>2 DEF Skipped
  <2>3. Cardinality(Skipped') <= Cardinality(Skipped) /\ Cardinality(Skipped') \in Nat
        /\ Cardinality(Skipped) \in Nat
    BY <2>2, SmallerSet, SkippedFinite
  <2> QED BY <1>1, <1>4, <1>7, <2>1, <2>3 DEF SkipsForDeletions
<1>9. ASSUME Len(page) # Limit PROVE SkipsForDeletions'
  <2>1. step' = "done"
    BY <1>1, <1>9
  <2>2. Unlisted' \in SUBSET Skipped
    <3>1. Unlisted' = {i \in Initial \ retired : i \notin ToSet(listed')}
      BY <1>1 DEF Unlisted
    <3>2. ASSUME NEW i \in Initial \ retired, i \notin ToSet(listed')
          PROVE  i \in Skipped
      <4>1. i \in Live /\ i \notin ToSet(listed) /\ i \notin ToSet(page)
        BY <1>4, <1>5, <3>2
      <4>2. Rank(Live, i) <= skip + Limit /\ Rank(Live, i) \in Nat
        BY <1>3, <1>9, <4>1
      <4>3. ~(Rank(Live, i) > skip)
        BY <1>3, <4>1, <4>2
      <4>4. Rank(Live, i) <= skip
        BY <1>4, <4>2, <4>3
      <4> QED BY <4>1, <4>4 DEF Skipped
    <3> QED BY <3>1, <3>2
  <2>3. Cardinality(Unlisted') <= Cardinality(Skipped) /\ Cardinality(Unlisted') \in Nat
        /\ Cardinality(Skipped) \in Nat
    BY <2>2, SmallerSet, SkippedFinite
  <2> QED BY <1>1, <1>4, <1>7, <2>1, <2>3 DEF SkipsForDeletions
<1>10. SkipsForDeletions'
  BY <1>8, <1>9, Zenon
<1>11. RepeatsForCreations'
  <2>1. SUFFICES ASSUME NEW i \in Ids
        PROVE  /\ Listings(i)' <= 1 + added
               /\ i \notin Live \cup retired => Listings(i)' = 0
               /\ step' # "done" /\ i \in Live /\ Rank(Live, i) > skip' => Listings(i)' <= added
    BY <1>1, <1>2 DEF RepeatsForCreations
  <2>2. /\ Listings(i) <= 1 + added
        /\ i \notin Live \cup retired => Listings(i) = 0
        /\ i \in Live /\ Rank(Live, i) > skip => Listings(i) <= added
    BY <1>1 DEF WalkInv, RepeatsForCreations
  <2>3. /\ Listings(i) = Cardinality(At(listed, i)) /\ Listings(i)' = Cardinality(At(listed', i))
        /\ Listings(i) \in Nat /\ Listings(i)' \in Nat
        /\ \A n : Cardinality(At(listed, i) \cup {n}) <= Listings(i) + 1
    <3>1. Listings(i) = Cardinality(At(listed, i)) /\ Listings(i)' = Cardinality(At(listed', i))
      BY DEF Listings, At
    <3>2. /\ Cardinality(At(listed, i)) \in Nat
          /\ \A n : Cardinality(At(listed, i) \cup {n}) <= Cardinality(At(listed, i)) + 1
      BY <1>4, AtFinite
    <3>3. Cardinality(At(listed', i)) \in Nat
      BY <1>5, AtFinite
    <3> QED BY <3>1, <3>2, <3>3
  <2>4. CASE i \notin ToSet(page)
    <3>1. Listings(i)' = Listings(i)
      BY <1>5, <2>3, <2>4
    <3>2. step' # "done" /\ i \in Live /\ Rank(Live, i) > skip' => Rank(Live, i) > skip
      BY <1>1, <1>2, <1>3, <1>4
    <3> QED BY <2>2, <3>1, <3>2
  <2>5. CASE i \in ToSet(page)
    <3>1. PICK m \in 1 .. Len(page) : page[m] = i
      BY <1>3, <2>5 DEF ToSet
    <3>2. Listings(i)' <= Listings(i) + 1
      BY <1>5, <2>3, <3>1
    <3>3. i \in Live /\ Rank(Live, i) > skip /\ Rank(Live, i) <= skip + Limit
          /\ Rank(Live, i) \in Nat
      BY <1>3, <2>5
    <3>4. ~(step' # "done" /\ Rank(Live, i) > skip')
      BY <1>1, <1>2, <1>4, <3>3
    <3> QED BY <1>4, <2>2, <2>3, <3>2, <3>3, <3>4
  <2> QED BY <2>4, <2>5
<1> QED BY <1>6, <1>10, <1>11 DEF WalkInv

LEMMA ListingsNat ==
  ASSUME listed \in Seq(Ids), NEW i PROVE Listings(i) \in Nat
BY AtFinite DEF Listings

\* A new row pushes no row back, and is itself one the walk has not listed.
LEMMA CreateKeeps ==
  ASSUME WalkInv, NEW k \in Ids, Create(k)
  PROVE  WalkInv'
<1>1. /\ step # "done" /\ k \notin Live \cup retired
      /\ \E at \in 1 .. Len(heap) + 1 : heap' = InsertAt(heap, at, k)
      /\ added' = added + 1 /\ UNCHANGED <<retired, step, total, skip, listed, removed>>
  BY DEF Create, MayChange, Live
<1>2. /\ heap \in Seq(Ids) /\ Distinct(heap) /\ Initial \subseteq Live \cup retired
      /\ skip \in Nat /\ listed \in Seq(Ids) /\ added \in Nat /\ removed \in Nat
      /\ Live \subseteq Ids /\ Live \in SUBSET Int /\ IsFiniteSet(Live) /\ Ids \subseteq Nat
  BY LiveFacts, IdsAssumption DEF WalkInv, WalkTyped
<1>3. heap' \in Seq(Ids) /\ Distinct(heap') /\ Live' = Live \cup {k}
  <2>1. PICK at \in 1 .. Len(heap) + 1 : heap' = InsertAt(heap, at, k)
    BY <1>1
  <2>2. k \notin ToSet(heap)
    BY <1>1 DEF Live
  <2>3. heap' \in Seq(Ids) /\ Distinct(heap') /\ ToSet(heap') = ToSet(heap) \cup {k}
    BY <1>2, <2>1, <2>2, InsertAtFacts
  <2> QED BY <2>3 DEF Live
<1>4. WalkTyped'
  BY <1>1, <1>2, <1>3 DEF WalkTyped
<1>5. SkipsForDeletions'
  <2>1. Skipped' \in SUBSET Skipped
    <3>1. Skipped' = {i \in Live' \cap Initial : i \notin ToSet(listed) /\ Rank(Live', i) <= skip}
      BY <1>1 DEF Skipped
    <3>2. ASSUME NEW i \in Live' \cap Initial, Rank(Live', i) <= skip
          PROVE  i \in Live /\ Rank(Live, i) <= skip
      <4>1. i \in Live
        BY <1>1, <1>2, <1>3
      <4>2. /\ Rank(Live, i) <= Rank(Live', i)
            /\ Rank(Live, i) \in Nat /\ Rank(Live', i) \in Nat
        <5>1. k \in Int /\ i \in Int
          BY <1>2, <4>1
        <5> QED BY <1>2, <1>3, <5>1, RankMoves
      <4> QED BY <1>2, <3>2, <4>1, <4>2
    <3> QED BY <3>1, <3>2 DEF Skipped
  <2>2. Cardinality(Skipped') <= Cardinality(Skipped) /\ Cardinality(Skipped') \in Nat
        /\ Cardinality(Skipped) \in Nat
    BY <2>1, SmallerSet, SkippedFinite
  <2>3. Cardinality(Skipped) <= removed
    BY <1>1 DEF WalkInv, SkipsForDeletions
  <2> QED BY <1>1, <1>2, <2>2, <2>3 DEF SkipsForDeletions
<1>6. RepeatsForCreations'
  <2>1. ASSUME NEW i \in Ids
        PROVE  /\ Listings(i) \in Nat /\ Listings(i) <= added'
               /\ i \notin (Live \cup retired)' => Listings(i) = 0
    <3>1. Listings(i) \in Nat
      BY <1>2, ListingsNat
    <3>2. Listings(i) <= 1 + added /\ (i \notin Live \cup retired => Listings(i) = 0)
      BY DEF WalkInv, RepeatsForCreations
    <3> QED BY <1>1, <1>2, <1>3, <3>1, <3>2
  <2>2. \A i : Listings(i)' = Listings(i)
    BY <1>1 DEF Listings
  <2>3. \A n \in Nat : n <= added' => n <= 1 + added'
    BY <1>1, <1>2
  <2> QED BY <2>1, <2>2, <2>3 DEF RepeatsForCreations
<1> QED BY <1>4, <1>5, <1>6 DEF WalkInv

\* A deletion moves at most one row from ahead of the walk to behind it.
LEMMA DeleteKeeps ==
  ASSUME WalkInv, NEW k \in Ids, Delete(k)
  PROVE  WalkInv'
<1>1. /\ step # "done"
      /\ \E at \in 1 .. Len(heap) : heap[at] = k /\ heap' = RemoveAt(heap, at)
      /\ retired' = retired \cup {k} /\ removed' = removed + 1
      /\ UNCHANGED <<step, total, skip, listed, added>>
  BY DEF Delete, MayChange
<1>2. /\ heap \in Seq(Ids) /\ Distinct(heap) /\ Initial \subseteq Live \cup retired
      /\ skip \in Nat /\ listed \in Seq(Ids) /\ added \in Nat /\ removed \in Nat
      /\ Live \subseteq Ids /\ Live \in SUBSET Int /\ IsFiniteSet(Live) /\ Ids \subseteq Nat
  BY LiveFacts, IdsAssumption DEF WalkInv, WalkTyped
<1>3. heap' \in Seq(Ids) /\ Distinct(heap') /\ Live' = Live \ {k} /\ k \in Live
  <2>1. PICK at \in 1 .. Len(heap) : heap[at] = k /\ heap' = RemoveAt(heap, at)
    BY <1>1
  <2>2. heap' \in Seq(Ids) /\ Distinct(heap') /\ ToSet(heap') = ToSet(heap) \ {k}
    BY <1>2, <2>1, RemoveAtFacts
  <2>3. k \in ToSet(heap)
    BY <1>2, <2>1 DEF ToSet
  <2> QED BY <2>2, <2>3 DEF Live
<1>4. WalkTyped'
  BY <1>1, <1>2, <1>3 DEF WalkTyped
<1>5. \A i \in Live' : /\ Rank(Live', i) <= Rank(Live, i) /\ Rank(Live, i) <= Rank(Live', i) + 1
                       /\ Rank(Live, i) \in Nat /\ Rank(Live', i) \in Nat
                       /\ i \in Live
  <2>1. \A i \in Live' : i \in Int /\ i \in Live /\ k \in Int
    BY <1>2, <1>3
  <2> QED BY <1>2, <1>3, <2>1, RankMoves
<1>6. SkipsForDeletions'
  <2> DEFINE next == CHOOSE i \in Live : Rank(Live, i) = skip + 1
  <2>1. \A i \in Live : Rank(Live, i) = skip + 1 => i = next
    BY <1>2, RankBijective
  <2> HIDE DEF next
  <2>2. Skipped' \in SUBSET (Skipped \cup {next})
    <3>1. Skipped' = {i \in Live' \cap Initial : i \notin ToSet(listed) /\ Rank(Live', i) <= skip}
      BY <1>1 DEF Skipped
    <3>2. ASSUME NEW i \in Live' \cap Initial, Rank(Live', i) <= skip
          PROVE  i \in Live /\ (Rank(Live, i) <= skip \/ i = next)
      <4>1. i \in Live /\ (Rank(Live, i) <= skip \/ Rank(Live, i) = skip + 1)
        BY <1>2, <1>5, <3>2
      <4> QED BY <2>1, <4>1
    <3> QED BY <3>1, <3>2 DEF Skipped
  <2>3. /\ IsFiniteSet(Skipped \cup {next}) /\ Cardinality(Skipped) \in Nat
        /\ Cardinality(Skipped \cup {next}) <= Cardinality(Skipped) + 1
    <3>1. IsFiniteSet(Skipped) /\ Cardinality(Skipped) \in Nat
      BY SkippedFinite
    <3>2. /\ IsFiniteSet(Skipped \cup {next})
          /\ Cardinality(Skipped \cup {next}) =
                IF next \in Skipped THEN Cardinality(Skipped) ELSE Cardinality(Skipped) + 1
      BY <3>1, FS_AddElement
    <3> QED BY <3>1, <3>2
  <2>4. /\ Cardinality(Skipped') <= Cardinality(Skipped \cup {next})
        /\ Cardinality(Skipped') \in Nat /\ Cardinality(Skipped \cup {next}) \in Nat
    BY <2>2, <2>3, SmallerSet
  <2>5. Cardinality(Skipped) <= removed
    BY <1>1 DEF WalkInv, SkipsForDeletions
  <2> QED BY <1>1, <1>2, <2>3, <2>4, <2>5 DEF SkipsForDeletions
<1>7. RepeatsForCreations'
  <2>1. SUFFICES ASSUME NEW i \in Ids
        PROVE  /\ Listings(i) <= 1 + added
               /\ i \notin (Live \cup retired)' => Listings(i) = 0
               /\ i \in Live' /\ Rank(Live', i) > skip => Listings(i) <= added
    BY <1>1 DEF RepeatsForCreations, Listings
  <2>2. /\ Listings(i) <= 1 + added
        /\ i \notin Live \cup retired => Listings(i) = 0
        /\ i \in Live /\ Rank(Live, i) > skip => Listings(i) <= added
    BY <1>1 DEF WalkInv, RepeatsForCreations
  <2>3. i \in Live' /\ Rank(Live', i) > skip => i \in Live /\ Rank(Live, i) > skip
    BY <1>2, <1>5
  <2>4. i \notin (Live \cup retired)' => i \notin Live \cup retired
    BY <1>1, <1>3
  <2> QED BY <2>2, <2>3, <2>4
<1> QED BY <1>4, <1>6, <1>7 DEF WalkInv

\* A patch changes the heap and not which rows there are.
LEMMA UpdateKeeps ==
  ASSUME WalkInv, NEW k \in Ids, Update(k)
  PROVE  heap' \in Seq(Ids) /\ Distinct(heap') /\ Live' = Live
<1>1. PICK from \in 1 .. Len(heap), to \in 1 .. Len(heap) :
          heap[from] = k /\ heap' = InsertAt(RemoveAt(heap, from), to, k)
  BY DEF Update
<1>2. heap \in Seq(Ids) /\ Distinct(heap)
  BY DEF WalkInv, WalkTyped
<1> DEFINE t == RemoveAt(heap, from)
<1>3. t \in Seq(Ids) /\ Distinct(t) /\ ToSet(t) = ToSet(heap) \ {k} /\ Len(t) = Len(heap) - 1
  BY <1>1, <1>2, RemoveAtFacts
<1>4. heap' = InsertAt(t, to, k)
  BY <1>1
<1> HIDE DEF t
<1>5. to \in 1 .. Len(t) + 1 /\ k \notin ToSet(t) /\ k \in ToSet(heap)
  <2>1. to \in 1 .. Len(t) + 1
    BY <1>2, <1>3
  <2>2. k \in ToSet(heap)
    BY <1>1, <1>2 DEF ToSet
  <2> QED BY <1>3, <2>1, <2>2
<1>6. heap' \in Seq(Ids) /\ Distinct(heap') /\ ToSet(heap') = ToSet(t) \cup {k}
  BY <1>3, <1>4, <1>5, InsertAtFacts
<1> QED BY <1>3, <1>5, <1>6 DEF Live

\* What a step does that lists nothing and changes neither rows nor counts.
LEMMA WalkFrame ==
  ASSUME WalkInv, heap' \in Seq(Ids), Distinct(heap'), Live' = Live, step' = step \/ (step = "count" /\ step' = "list"),
         UNCHANGED <<retired, skip, listed, added, removed>>
  PROVE  WalkInv'
<1>1. WalkTyped'
  BY DEF WalkInv, WalkTyped
<1>2. Skipped' = Skipped /\ Unlisted' = Unlisted /\ (step' = "done" <=> step = "done")
  BY DEF Skipped, Unlisted
<1>3. SkipsForDeletions'
  BY <1>2 DEF WalkInv, SkipsForDeletions
<1>4. RepeatsForCreations'
  BY <1>2 DEF WalkInv, RepeatsForCreations, Listings
<1> QED BY <1>1, <1>3, <1>4 DEF WalkInv

LEMMA StepWalk == ASSUME OrderedById, WalkInv, [WalkNext]_(walkVars) PROVE WalkInv'
<1>1. CASE List
  BY <1>1, ListKeeps
<1>2. CASE \E k \in Ids : Create(k)
  BY <1>2, CreateKeeps
<1>3. CASE \E k \in Ids : Delete(k)
  BY <1>3, DeleteKeeps
<1>4. CASE \E k \in Ids : Update(k)
  <2>1. PICK k \in Ids : Update(k)
    BY <1>4
  <2>2. UNCHANGED <<retired, step, skip, listed, added, removed>>
    BY <2>1 DEF Update
  <2>3. heap' \in Seq(Ids) /\ Distinct(heap') /\ Live' = Live
    BY <2>1, UpdateKeeps
  <2> QED BY <2>2, <2>3, WalkFrame
<1>5. CASE Count \/ Walked \/ UNCHANGED walkVars
  <2>1. UNCHANGED <<heap, retired, skip, listed, added, removed>>
        /\ (step' = step \/ (step = "count" /\ step' = "list"))
    BY <1>5 DEF Count, Walked, walkVars
  <2>2. heap' \in Seq(Ids) /\ Distinct(heap') /\ Live' = Live
    BY <2>1 DEF WalkInv, WalkTyped, Live
  <2> QED BY <2>1, <2>2, WalkFrame
<1> QED BY <1>1, <1>2, <1>3, <1>4, <1>5 DEF WalkNext

LEMMA WalkInvariance == ASSUME OrderedById PROVE WalkSpec => []WalkInv
<1>1. WalkInit => WalkInv
  BY InitWalk
<1>2. WalkInv /\ [WalkNext]_(walkVars) => WalkInv'
  BY StepWalk
<1> QED BY <1>1, <1>2, PTL DEF WalkSpec

\* In a list ordered by id, of any rows in pages of any length, a walk misses
\* no more of the rows that stay than are deleted while it lasts.
THEOREM WalksMissForDeletions ==
  ASSUME OrderedById
  PROVE  WalkSpec => []MissesOnlyForDeletions
<1>1. WalkInv => MissesOnlyForDeletions
  BY WalkProperties DEF WalkInv, SkipsForDeletions
<1> QED BY <1>1, WalkInvariance, PTL

\* And it lists no row more than once and once more per row created.
THEOREM WalksRepeatForCreations ==
  ASSUME OrderedById
  PROVE  WalkSpec => []RepeatsOnlyForCreations
<1>1. WalkInv => RepeatsOnlyForCreations
  BY WalkProperties DEF WalkInv, RepeatsForCreations
<1> QED BY <1>1, WalkInvariance, PTL
=============================================================================
