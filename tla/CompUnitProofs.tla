--------------------------- MODULE CompUnitProofs ---------------------------
(***************************************************************************)
(* do-comp-unit.sh for any directories, objects, expressions and builds.   *)
(* The invariants follow the stages of the script: ReportInv is about what *)
(* kmax reported, SatInv about the objects the .config builds, FoundInv    *)
(* about the pool's results for the two halves, DepInv about the pairs and *)
(* their inverse.                                                          *)
(***************************************************************************)
EXTENDS CompUnit, FiniteSetTheorems, WellFoundedInduction, TLAPS

-----------------------------------------------------------------------------
\* Sorting.

\* A nonempty set of numbers has a least element.
LEMMA LeastExists ==
  ASSUME NEW S \in SUBSET Nat, S # {}
  PROVE  \E x \in S : \A y \in S : x <= y
<1>1. PICK x \in S : \A y \in S : <<y, x>> \notin OpToRel(<, Nat)
  BY NatLessThanWellFounded, WFMin
<1>2. \A y \in S : ~(y < x)
  BY <1>1 DEF OpToRel
<1> QED
  BY <1>2

\* How many members of S are smaller than x.
Rank(S, x) == Cardinality({y \in S : y < x})

\* Ranks are numbers below the size of the set, and grow with the members.
LEMMA RankOrder ==
  ASSUME NEW S \in SUBSET Nat, IsFiniteSet(S)
  PROVE  /\ Cardinality(S) \in Nat
         /\ \A x \in S : Rank(S, x) \in 0..(Cardinality(S) - 1)
         /\ \A x, z \in S : x < z => Rank(S, x) < Rank(S, z)
<1> DEFINE B(x) == {y \in S : y < x}
<1>1. Cardinality(S) \in Nat
  BY FS_CardinalityType
<1>2. ASSUME NEW x PROVE IsFiniteSet(B(x)) /\ Cardinality(B(x)) \in Nat
  <2>1. B(x) \in SUBSET S
    OBVIOUS
  <2> QED
    BY <2>1, FS_Subset, FS_CardinalityType
<1>3. ASSUME NEW x \in S
      PROVE  /\ IsFiniteSet(B(x) \cup {x})
             /\ Cardinality(B(x) \cup {x}) = Cardinality(B(x)) + 1
  <2>1. x \notin B(x)
    OBVIOUS
  <2> HIDE DEF B
  <2> QED
    BY <1>2, <2>1, FS_AddElement
<1>4. ASSUME NEW x \in S PROVE Cardinality(B(x)) + 1 <= Cardinality(S)
  <2>1. B(x) \cup {x} \in SUBSET S
    OBVIOUS
  <2>2. Cardinality(B(x) \cup {x}) <= Cardinality(S)
    BY <2>1, FS_Subset
  <2> QED
    BY <1>3, <2>2
<1>5. ASSUME NEW x \in S, NEW z \in S, x < z
      PROVE  Cardinality(B(x)) + 1 <= Cardinality(B(z))
  <2>1. B(x) \cup {x} \in SUBSET B(z)
    <3>1. \A y \in S : y \in Nat
      OBVIOUS
    <3>2. \A y \in S : y < x => y < z
      BY <1>5, <3>1
    <3> QED
      BY <1>5, <3>2
  <2>2. Cardinality(B(x) \cup {x}) <= Cardinality(B(z))
    BY <1>2, <2>1, FS_Subset
  <2> QED
    BY <1>3, <2>2
<1>6. \A x \in S : Rank(S, x) \in 0..(Cardinality(S) - 1)
  <2> SUFFICES ASSUME NEW x \in S PROVE Rank(S, x) \in 0..(Cardinality(S) - 1)
    OBVIOUS
  <2>1. Rank(S, x) \in Nat /\ Rank(S, x) + 1 <= Cardinality(S)
    BY <1>2, <1>4 DEF Rank
  <2> QED
    BY <1>1, <2>1
<1>7. ASSUME NEW x \in S, NEW z \in S, x < z PROVE Rank(S, x) < Rank(S, z)
  <2>1. /\ Rank(S, x) \in Nat /\ Rank(S, z) \in Nat
        /\ Rank(S, x) + 1 <= Rank(S, z)
    BY <1>2, <1>5, <1>7 DEF Rank
  <2> QED
    BY <2>1
<1> QED
  BY <1>1, <1>6, <1>7

\* Every rank below the size of the set is taken: by the least member, or by
\* what has one rank less without it.
LEMMA RankTaken ==
  ASSUME NEW S \in SUBSET Nat, IsFiniteSet(S), NEW n \in Nat, n < Cardinality(S)
  PROVE  \E x \in S : Rank(S, x) = n
<1> DEFINE Good(T, k) == \E x \in T : Rank(T, x) = k
           Bad == {k \in Nat : \E T \in SUBSET Nat : /\ IsFiniteSet(T) /\ k < Cardinality(T)
                                                     /\ ~Good(T, k)}
<1>1. SUFFICES Bad = {}
  <2> HIDE DEF Good
  <2>1. ~Good(S, n) => n \in Bad
    OBVIOUS
  <2> QED
    BY <1>1, <2>1 DEF Good
<1>2. SUFFICES ASSUME Bad # {} PROVE FALSE
  OBVIOUS
<1>3. PICK k \in Bad : \A j \in Bad : k <= j
  <2>1. Bad \in SUBSET Nat
    OBVIOUS
  <2> HIDE DEF Bad
  <2> QED
    BY <1>2, <2>1, LeastExists
<1>4. PICK T \in SUBSET Nat : IsFiniteSet(T) /\ k < Cardinality(T) /\ ~Good(T, k)
  <2> HIDE DEF Good
  <2> QED
    BY <1>3
<1>5. k \in Nat
  BY <1>3
<1>6. T # {} /\ Cardinality(T) \in Nat
  BY <1>4, <1>5, FS_EmptySet, FS_CardinalityType
<1>7. PICK m \in T : \A y \in T : m <= y
  BY <1>6, LeastExists
<1>8. CASE k = 0
  <2>1. {y \in T : y < m} = {}
    <3>1. \A y \in T : y \in Nat /\ m \in Nat
      OBVIOUS
    <3>2. \A y \in T : ~(y < m)
      BY <1>7, <3>1
    <3> QED
      BY <3>2
  <2>2. Rank(T, m) = 0
    BY <2>1, FS_EmptySet DEF Rank
  <2> QED
    BY <1>4, <1>8, <2>2
<1>9. CASE k # 0
  <2> DEFINE U == T \ {m}
  <2>1. IsFiniteSet(U) /\ Cardinality(U) = Cardinality(T) - 1 /\ U \in SUBSET Nat
    BY <1>4, FS_RemoveElement
  <2>2. k - 1 \in Nat /\ k - 1 < Cardinality(U) /\ k - 1 \notin Bad
    BY <1>3, <1>4, <1>5, <1>6, <1>9, <2>1
  <2>3. Good(U, k - 1)
    <3> HIDE DEF Good, U
    <3> QED
      BY <2>1, <2>2
  <2>4. PICK x \in U : Rank(U, x) = k - 1
    BY <2>3
  <2>5. /\ {y \in T : y < x} = {y \in U : y < x} \cup {m}
        /\ m \notin {y \in U : y < x}
    BY <1>7, <2>4
  <2>6. IsFiniteSet({y \in U : y < x})
    <3>1. {y \in U : y < x} \in SUBSET U
      OBVIOUS
    <3> QED
      BY <2>1, <3>1, FS_Subset
  <2>7. Rank(T, x) = Rank(U, x) + 1
    <3> HIDE DEF U
    <3> QED
      BY <2>5, <2>6, FS_AddElement DEF Rank
  <2> QED
    BY <1>4, <1>5, <2>4, <2>7
<1> QED
  BY <1>8, <1>9

\* Nth numbers the members of a set from 0, in order.
LEMMA NthSpec ==
  ASSUME NEW S \in SUBSET Nat, IsFiniteSet(S)
  PROVE  /\ \A n \in 0..(Cardinality(S) - 1) : Nth(S, n) \in S
         /\ \A m, n \in 0..(Cardinality(S) - 1) : m < n <=> Nth(S, m) < Nth(S, n)
         /\ \A m, n \in 0..(Cardinality(S) - 1) : Nth(S, m) = Nth(S, n) => m = n
         /\ \A x \in S : \E n \in 0..(Cardinality(S) - 1) : Nth(S, n) = x
<1> DEFINE C == Cardinality(S)
<1>1. /\ C \in Nat
      /\ \A x \in S : Rank(S, x) \in 0..(C - 1)
      /\ \A x, z \in S : x < z => Rank(S, x) < Rank(S, z)
  BY RankOrder
<1>2. ASSUME NEW n \in 0..(C - 1)
      PROVE  Nth(S, n) \in S /\ Rank(S, Nth(S, n)) = n
  <2>1. \E x \in S : Rank(S, x) = n
    BY <1>1, RankTaken
  <2> QED
    BY <2>1 DEF Nth, Rank
<1> HIDE DEF C
<1>3. ASSUME NEW x \in S, NEW z \in S, Rank(S, x) = Rank(S, z) PROVE x = z
  <2>1. x \in Nat /\ z \in Nat /\ Rank(S, x) \in Nat /\ Rank(S, z) \in Nat
    BY <1>1
  <2>2. ~(x < z) /\ ~(z < x)
    BY <1>1, <1>3, <2>1
  <2> QED
    BY <2>1, <2>2
<1>4. \A x \in S : Nth(S, Rank(S, x)) = x
  BY <1>1, <1>2, <1>3
<1>5. ASSUME NEW m \in 0..(C - 1), NEW n \in 0..(C - 1)
      PROVE  /\ m < n <=> Nth(S, m) < Nth(S, n)
             /\ Nth(S, m) = Nth(S, n) => m = n
  <2> DEFINE x == Nth(S, m)
             z == Nth(S, n)
  <2>1. x \in S /\ z \in S /\ Rank(S, x) = m /\ Rank(S, z) = n
    BY <1>2
  <2> HIDE DEF x, z
  <2>2. /\ x < z => m < n
        /\ z < x => n < m
        /\ x = z => m = n
    BY <1>1, <2>1
  <2>3. x \in Nat /\ z \in Nat /\ m \in Nat /\ n \in Nat
    BY <1>1, <2>1
  <2>4. (m < n <=> x < z) /\ (x = z => m = n)
    BY <2>2, <2>3
  <2> QED
    BY <2>4 DEF x, z
<1> QED
  BY <1>1, <1>2, <1>4, <1>5 DEF C

\* Sorted lists every member once.
LEMMA SortedSpec ==
  ASSUME NEW S \in SUBSET Nat, IsFiniteSet(S)
  PROVE  /\ Sorted(S) \in Seq(S)
         /\ Len(Sorted(S)) = Cardinality(S)
         /\ Range(Sorted(S)) = S
<1> DEFINE C == Cardinality(S)
<1>1. /\ \A n \in 0..(C - 1) : Nth(S, n) \in S
      /\ \A x \in S : \E n \in 0..(C - 1) : Nth(S, n) = x
  BY NthSpec
<1>2. C \in Nat
  BY FS_CardinalityType
<1> HIDE DEF C
<1>3. \A i \in 1..C : i - 1 \in 0..(C - 1)
  BY <1>2
<1>4. Sorted(S) = [i \in 1..C |-> Nth(S, i - 1)]
  BY DEF Sorted, C
<1>5. Sorted(S) \in [1..C -> S] /\ Len(Sorted(S)) = C /\ Sorted(S) \in Seq(S)
  BY <1>1, <1>2, <1>3, <1>4
<1>6. Range(Sorted(S)) \subseteq S
  BY <1>5 DEF Range
<1>7. ASSUME NEW x \in S PROVE x \in Range(Sorted(S))
  <2>1. PICK n \in 0..(C - 1) : Nth(S, n) = x
    BY <1>1
  <2>2. n + 1 \in 1..C /\ (n + 1) - 1 = n
    BY <1>2
  <2>3. Sorted(S)[n + 1] = x /\ n + 1 \in DOMAIN Sorted(S)
    BY <1>4, <2>1, <2>2
  <2> QED
    BY <2>3 DEF Range
<1> QED
  BY <1>5, <1>6, <1>7 DEF C

-----------------------------------------------------------------------------
\* Joining sequences.

\* FlattenSeq, unfolded: c[i] joins the first i sequences.
LEMMA FlattenSteps ==
  ASSUME NEW R, NEW q \in Seq(Seq(R)), Len(q) # 0
  PROVE  \E c : /\ FlattenSeq(q) = c[Len(q)]
                /\ c[1] = q[1]
                /\ \A i \in 2..Len(q) : c[i] = c[i - 1] \o q[i]
<1> DEFINE N == Len(q)
           G(f) == [i \in 1..N |-> IF i = 1 THEN q[i] ELSE f[i - 1] \o q[i]]
           c == CHOOSE f : f = G(f)
           Part(n, f) == /\ f[1] = q[1]
                         /\ \A i \in 2..n : f[i] = f[i - 1] \o q[i]
           Bad == {n \in 1..N : ~\E f : Part(n, f)}
<1>1. N \in Nat /\ N >= 1
  OBVIOUS
<1>2. FlattenSeq(q) = c[N]
  BY DEF FlattenSeq
<1> HIDE DEF c, N
<1>3. Bad = {}
  <2>1. SUFFICES ASSUME Bad # {} PROVE FALSE
    OBVIOUS
  <2>2. Bad \in SUBSET Nat
    <3> HIDE DEF Part
    <3> QED
      BY <1>1
  <2>3. PICK n \in Bad : \A m \in Bad : n <= m
    <3> HIDE DEF Bad
    <3> QED
      BY <2>1, <2>2, LeastExists
  <2>4. n \in 1..N /\ ~\E f : Part(n, f)
    BY <2>3
  <2>5. n # 1
    <3>1. Part(1, q)
      OBVIOUS
    <3> QED
      BY <2>4, <3>1
  <2>6. n - 1 \in 1..N /\ n - 1 \notin Bad
    <3> HIDE DEF Bad
    <3> QED
      BY ONLY <1>1, <2>3, <2>4, <2>5
  <2>7. PICK f : Part(n - 1, f)
    <3> HIDE DEF Part
    <3> QED
      BY <2>6
  <2> DEFINE g == [i \in 1..n |-> IF i = n THEN f[n - 1] \o q[n] ELSE f[i]]
  <2>8. Part(n, g)
    <3>1. n \in Nat /\ n > 1
      BY <1>1, <2>4, <2>5
    <3>2. g[1] = q[1]
      BY <2>7, <3>1
    <3>3. ASSUME NEW i \in 2..n PROVE g[i] = g[i - 1] \o q[i]
      <4>1. CASE i = n
        <5>1. n - 1 \in 1..n /\ n - 1 # n /\ n \in 1..n
          BY <3>1
        <5> QED
          BY <4>1, <5>1
      <4>2. CASE i # n
        <5>1. i \in 2..(n - 1) /\ i \in 1..n /\ i - 1 \in 1..n /\ i - 1 # n
          BY <3>1, <4>2
        <5>2. f[i] = f[i - 1] \o q[i]
          BY <2>7, <5>1
        <5>3. g[i] = f[i] /\ g[i - 1] = f[i - 1]
          BY <4>2, <5>1
        <5> QED
          BY <5>2, <5>3
      <4> QED
        BY <4>1, <4>2
    <3> HIDE DEF g
    <3> QED
      BY <3>2, <3>3
  <2> HIDE DEF g
  <2> QED
    BY <2>4, <2>8
<1>4. PICK f : Part(N, f)
  <2>1. N \notin Bad /\ N \in 1..N
    <3> HIDE DEF Bad
    <3> QED
      BY ONLY <1>1, <1>3
  <2> HIDE DEF Part
  <2> QED
    BY <2>1
<1> DEFINE h == [i \in 1..N |-> f[i]]
<1>5. h = G(h)
  <2>1. ASSUME NEW i \in 1..N PROVE h[i] = G(h)[i]
    <3>1. CASE i = 1
      BY <1>4, <3>1
    <3>2. CASE i # 1
      <4>1. i \in 2..N /\ i - 1 \in 1..N
        BY <1>1, <3>2
      <4> QED
        BY <1>4, <3>2, <4>1
    <3> QED
      BY <3>1, <3>2
  <2> QED
    BY <2>1
<1>6. c = G(c)
  <2> HIDE DEF G, h
  <2> QED
    BY <1>5 DEF c
<1>7. ASSUME NEW i \in 1..N
      PROVE  c[i] = IF i = 1 THEN q[i] ELSE c[i - 1] \o q[i]
  <2>1. G(c)[i] = IF i = 1 THEN q[i] ELSE c[i - 1] \o q[i]
    OBVIOUS
  <2> HIDE DEF G
  <2> QED
    BY <1>6, <2>1
<1>8. c[1] = q[1] /\ \A i \in 2..N : c[i] = c[i - 1] \o q[i]
  <2>1. 1 \in 1..N /\ \A i \in 2..N : i \in 1..N /\ i # 1
    BY ONLY <1>1
  <2> QED
    BY ONLY <1>7, <2>1
<1> QED
  BY <1>2, <1>8 DEF N

\* Two sequences joined have the elements of both.
LEMMA JoinRange ==
  ASSUME NEW R, NEW s \in Seq(R), NEW u \in Seq(R)
  PROVE  /\ s \o u \in Seq(R) /\ Len(s \o u) = Len(s) + Len(u)
         /\ Range(s \o u) = Range(s) \cup Range(u)
<1> DEFINE t == s \o u
<1>1. /\ Len(s) \in Nat /\ Len(u) \in Nat
      /\ DOMAIN s = 1..Len(s) /\ DOMAIN u = 1..Len(u)
  OBVIOUS
<1>2. /\ t \in Seq(R) /\ Len(t) = Len(s) + Len(u)
      /\ DOMAIN t = 1..(Len(s) + Len(u))
      /\ \A i \in 1..Len(s) : t[i] = s[i]
      /\ \A i \in 1..Len(u) : t[Len(s) + i] = u[i]
  OBVIOUS
<1> HIDE DEF t
<1>3. ASSUME NEW i \in DOMAIN s PROVE s[i] \in Range(t)
  BY <1>1, <1>2 DEF Range
<1>4. ASSUME NEW i \in DOMAIN u PROVE u[i] \in Range(t)
  <2>1. Len(s) + i \in DOMAIN t
    BY <1>1, <1>2
  <2> QED
    BY <1>1, <1>2, <2>1 DEF Range
<1>5. ASSUME NEW i \in DOMAIN t PROVE t[i] \in Range(s) \cup Range(u)
  <2>1. i \in 1..Len(s) \/ (i - Len(s) \in 1..Len(u) /\ Len(s) + (i - Len(s)) = i)
    BY <1>1, <1>2
  <2>2. CASE i \in 1..Len(s)
    BY <1>1, <1>2, <2>2 DEF Range
  <2>3. CASE i - Len(s) \in 1..Len(u) /\ Len(s) + (i - Len(s)) = i
    BY <1>1, <1>2, <2>3 DEF Range
  <2> QED
    BY <2>1, <2>2, <2>3
<1>6. Range(t) = Range(s) \cup Range(u)
  BY <1>3, <1>4, <1>5 DEF Range
<1> QED
  BY <1>2, <1>6 DEF t

\* The joined sequence has the elements of all, and ends as one of them does.
LEMMA FlattenSpec ==
  ASSUME NEW R, NEW q \in Seq(Seq(R))
  PROVE  /\ FlattenSeq(q) \in Seq(R)
         /\ \A j \in DOMAIN q : Range(q[j]) \subseteq Range(FlattenSeq(q))
         /\ \A r \in Range(FlattenSeq(q)) : \E j \in DOMAIN q : r \in Range(q[j])
         /\ FlattenSeq(q) # <<>> =>
              \E j \in DOMAIN q : /\ q[j] # <<>>
                                  /\ FlattenSeq(q)[Len(FlattenSeq(q))] = q[j][Len(q[j])]
<1> DEFINE N == Len(q)
           Joined(n, s) ==
             /\ s \in Seq(R)
             /\ \A j \in 1..n : Range(q[j]) \subseteq Range(s)
             /\ \A r \in Range(s) : \E j \in 1..n : r \in Range(q[j])
             /\ s # <<>> => \E j \in 1..n : q[j] # <<>> /\ s[Len(s)] = q[j][Len(q[j])]
<1>1. N \in Nat /\ DOMAIN q = 1..N /\ \A j \in 1..N : q[j] \in Seq(R)
  OBVIOUS
<1>2. CASE N = 0
  <2>1. FlattenSeq(q) = q /\ q = <<>>
    BY <1>2 DEF FlattenSeq
  <2> QED
    BY <1>1, <1>2, <2>1 DEF Range
<1>3. CASE N # 0
  <2>1. PICK c : /\ FlattenSeq(q) = c[N]
                 /\ c[1] = q[1]
                 /\ \A i \in 2..N : c[i] = c[i - 1] \o q[i]
    BY <1>3, FlattenSteps
  <2> DEFINE Bad == {n \in 1..N : ~Joined(n, c[n])}
  <2> HIDE DEF N
  <2>2. Bad = {}
    <3>1. SUFFICES ASSUME Bad # {} PROVE FALSE
      OBVIOUS
    <3>2. Bad \in SUBSET Nat
      <4> HIDE DEF Joined
      <4> QED
        BY <1>1
    <3>3. PICK n \in Bad : \A m \in Bad : n <= m
      <4> HIDE DEF Bad
      <4> QED
        BY <3>1, <3>2, LeastExists
    <3>4. n \in 1..N /\ ~Joined(n, c[n])
      BY <3>3
    <3>5. CASE n = 1
      BY <1>1, <2>1, <3>4, <3>5
    <3>6. CASE n # 1
      <4>1. n - 1 \in 1..N /\ n - 1 \notin Bad /\ n \in 2..N
        <5> HIDE DEF Bad
        <5> QED
          BY ONLY <1>1, <3>3, <3>4, <3>6
      <4> DEFINE s == c[n - 1]
                 t == s \o q[n]
      <4>2. Joined(n - 1, s)
        <5> HIDE DEF Joined
        <5> QED
          BY <4>1
      <4>3. c[n] = t
        BY <2>1, <4>1
      <4> HIDE DEF s
      <4>4. /\ s \in Seq(R) /\ q[n] \in Seq(R)
            /\ Len(s) \in Nat /\ Len(q[n]) \in Nat
        BY <1>1, <3>4, <4>2
      <4>5. /\ t \in Seq(R) /\ Len(t) = Len(s) + Len(q[n])
            /\ DOMAIN t = 1..(Len(s) + Len(q[n]))
            /\ \A i \in 1..Len(s) : t[i] = s[i]
            /\ \A i \in 1..Len(q[n]) : t[Len(s) + i] = q[n][i]
        BY <4>4
      <4> HIDE DEF t
      <4>6. Range(t) = Range(s) \cup Range(q[n])
        BY <4>4, JoinRange DEF t
      <4>7. \A j \in 1..n : j \in 1..(n - 1) \/ j = n
        BY <1>1, <3>4
      <4>8. \A j \in 1..(n - 1) : j \in 1..n
        BY <1>1, <3>4
      <4>9. n \in 1..n
        BY <3>4
      <4>10. t # <<>> => \E j \in 1..n : q[j] # <<>> /\ t[Len(t)] = q[j][Len(q[j])]
        <5>1. CASE q[n] # <<>>
          <6>1. Len(q[n]) \in 1..Len(q[n])
            BY <4>4, <5>1
          <6>2. t[Len(t)] = q[n][Len(q[n])]
            BY <4>5, <6>1
          <6> QED
            BY <4>9, <5>1, <6>2
        <5>2. CASE q[n] = <<>> /\ s # <<>>
          <6>1. Len(q[n]) = 0 /\ Len(s) \in 1..Len(s)
            BY <4>4, <5>2
          <6>2. t[Len(t)] = s[Len(s)]
            BY <4>4, <4>5, <6>1
          <6> QED
            BY <4>2, <4>8, <5>2, <6>2
        <5>3. CASE q[n] = <<>> /\ s = <<>>
          BY <4>5, <5>3
        <5> QED
          BY <5>1, <5>2, <5>3
      <4>11. Joined(n, t)
        BY <4>2, <4>5, <4>6, <4>7, <4>8, <4>9, <4>10
      <4> QED
        BY <3>4, <4>3, <4>11
    <3> QED
      BY <3>5, <3>6
  <2>3. Joined(N, c[N])
    <3>1. N \in 1..N
      BY ONLY <1>1, <1>3
    <3> HIDE DEF Joined
    <3> QED
      BY <2>2, <3>1
  <2> QED
    BY <1>1, <2>1, <2>3
<1> QED
  BY <1>2, <1>3

\* The greatest of a finite set of numbers.
LEMMA GreatestExists ==
  ASSUME NEW S \in SUBSET Nat, IsFiniteSet(S), S # {}
  PROVE  \E x \in S : \A y \in S : y <= x
<1> DEFINE C == Cardinality(S)
<1>1. C \in Nat /\ C # 0
  BY FS_CardinalityType, FS_EmptySet
<1>2. /\ \A n \in 0..(C - 1) : Nth(S, n) \in S
      /\ \A m, n \in 0..(C - 1) : m < n <=> Nth(S, m) < Nth(S, n)
      /\ \A x \in S : \E n \in 0..(C - 1) : Nth(S, n) = x
  BY NthSpec
<1> HIDE DEF C
<1>3. C - 1 \in 0..(C - 1) /\ \A m \in 0..(C - 1) : ~(C - 1 < m)
  BY <1>1
<1>4. ASSUME NEW y \in S PROVE y <= Nth(S, C - 1)
  <2>1. PICK m \in 0..(C - 1) : Nth(S, m) = y
    BY <1>2
  <2>2. ~(Nth(S, C - 1) < y)
    BY <1>2, <1>3, <2>1
  <2>3. Nth(S, C - 1) \in Nat /\ y \in Nat
    BY <1>2, <1>3
  <2> QED
    BY <2>2, <2>3
<1> QED
  BY <1>2, <1>3, <1>4

-----------------------------------------------------------------------------
\* Reports and lines.

\* A record of kmax.out.
Report == [unit : Nat, expr : DOMAIN Expr \cup {0}]

\* What kmax has reported so far.
ReportInv ==
  /\ in \in DOMAIN Input
  /\ DOMAIN out \subseteq Dir /\ \A d \in DOMAIN out : out[d] \in Seq(Report)
  /\ IF stage = "kmax" THEN todo \subseteq Dir /\ Dir \ todo \subseteq DOMAIN out
     ELSE DOMAIN out = Dir
  /\ lines \subseteq Object \X DOMAIN Expr

\* Whatever order find lists the directories in, the lines are the records of
\* objects with a condition, but for the last record of one directory.
LEMMA NormalizedSpec ==
  ASSUME ReportInv, DOMAIN out = Dir, NEW order \in SetToSeqs(Dir)
  PROVE  /\ \A r \in Range(Normalized(order)) : r \in Report
         /\ \E last \in {<<>>} \cup {out[d] : d \in Dir} :
              \A d \in Dir : \A i \in DOMAIN out[d] :
                \/ out[d][i] \in Range(Normalized(order))
                \/ last # <<>> /\ out[d][i] = last[Len(last)]
<1> DEFINE C == Cardinality(Dir)
           q == [i \in DOMAIN order |-> out[order[i]]]
           all == FlattenSeq(q)
           n == Len(all)
           norm == Normalized(order)
<1>1. C \in Nat /\ order \in [1..C -> Dir]
  BY UnitAssumption, FS_CardinalityType DEF SetToSeqs
\* find lists every directory.
<1>2. \A d \in Dir : \E i \in 1..C : order[i] = d
  <2>1. \A i, j \in 1..C : i # j => order[i] # order[j]
    BY DEF SetToSeqs
  <2>2. order \in Injection(1..C, Dir)
    BY <1>1, <2>1 DEF Injection, IsInjective
  <2>3. IsFiniteSet(1..C) /\ Cardinality(1..C) = C
    BY <1>1, FS_Interval
  <2>4. order \in Surjection(1..C, Dir)
    BY <2>2, <2>3, UnitAssumption, FS_Injection
  <2> QED
    BY <2>4 DEF Surjection
<1> HIDE DEF C
<1>3. q \in Seq(Seq(Report)) /\ DOMAIN q = 1..C /\ \A i \in 1..C : q[i] = out[order[i]]
  <2>1. DOMAIN order = 1..C /\ \A i \in 1..C : out[order[i]] \in Seq(Report)
    BY <1>1 DEF ReportInv
  <2> HIDE DEF Report
  <2> QED
    BY <1>1, <2>1
<1>4. norm = SubSeq(all, 1, n - 1)
  BY DEF Normalized
<1> HIDE DEF q, norm
<1>5. /\ all \in Seq(Report)
      /\ \A j \in DOMAIN q : Range(q[j]) \subseteq Range(all)
      /\ all # <<>> => \E j \in DOMAIN q : q[j] # <<>> /\ all[n] = q[j][Len(q[j])]
  <2> HIDE DEF Report
  <2> QED
    BY <1>3, FlattenSpec
<1> HIDE DEF all
<1>6. n \in Nat /\ DOMAIN all = 1..n
  BY <1>5
<1>7. /\ \A i \in 1..(n - 1) : all[i] \in Range(norm)
      /\ \A r \in Range(norm) : r \in Range(all)
  <2>1. CASE n = 0
    <3>1. norm = <<>>
      BY <1>4, <1>5, <2>1
    <3> QED
      BY <2>1, <3>1 DEF Range
  <2>2. CASE n # 0
    <3>1. n - 1 \in Nat /\ n - 1 <= n
      BY <1>6, <2>2
    <3>2. DOMAIN norm = 1..(n - 1) /\ \A i \in 1..(n - 1) : norm[i] = all[i]
      BY <1>4, <1>5, <1>6, <3>1
    <3>3. \A i \in 1..(n - 1) : i \in DOMAIN all
      BY <1>6
    <3> QED
      BY <3>2, <3>3 DEF Range
  <2> QED
    BY <2>1, <2>2
<1>8. \A r \in Range(norm) : r \in Report
  <2>1. \A i \in DOMAIN all : all[i] \in Report
    <3> HIDE DEF Report
    <3> QED
      BY <1>5, <1>6
  <2> QED
    BY <1>7, <2>1 DEF Range
<1>9. ASSUME NEW d \in Dir, NEW i \in DOMAIN out[d]
      PROVE  out[d][i] \in Range(norm) \/ (n # 0 /\ out[d][i] = all[n])
  <2>1. PICK j \in 1..C : order[j] = d
    BY <1>2
  <2>2. out[d][i] \in Range(all)
    <3>1. out[d][i] \in Range(q[j])
      BY <1>3, <2>1 DEF Range
    <3> QED
      BY <1>3, <1>5, <3>1
  <2>3. PICK k \in 1..n : out[d][i] = all[k]
    BY <1>6, <2>2 DEF Range
  <2> HIDE DEF n
  <2>4. k = n \/ k \in 1..(n - 1)
    BY ONLY <1>6, k \in 1..n
  <2>5. n # 0
    BY ONLY <1>6, k \in 1..n
  <2> QED
    BY <1>7, <2>3, <2>4, <2>5
<1>10. PICK last \in {<<>>} \cup {out[d] : d \in Dir} :
         n # 0 => last # <<>> /\ all[n] = last[Len(last)]
  <2>1. CASE n = 0
    BY <2>1
  <2>2. CASE n # 0
    <3>1. PICK j \in 1..C : q[j] # <<>> /\ all[n] = q[j][Len(q[j])]
      BY <1>3, <1>5, <2>2
    <3>2. q[j] \in {out[d] : d \in Dir}
      BY <1>1, <1>3
    <3> QED
      BY <3>1, <3>2
  <2> QED
    BY <2>1, <2>2
<1> QED
  BY <1>8, <1>9, <1>10 DEF norm

\* Every step keeps the reports in order.
LEMMA ReportNext ==
  ASSUME ReportInv, [Next]_vars
  PROVE  ReportInv'
<1>1. ASSUME NEW d \in Dir, kmaxall_cmd(d) PROVE ReportInv'
  <2>1. PICK report \in {Input[in].kmax[d], <<>>} :
          out' = [x \in DOMAIN out \cup {d} |-> IF x = d THEN report ELSE out[x]]
    BY <1>1 DEF kmaxall_cmd
  <2>2. report \in Seq(Report)
    <3>1. Input[in].kmax \in [Dir -> Seq(Report)]
      BY UnitAssumption DEF ReportInv, Report
    <3>2. Input[in].kmax[d] \in Seq(Report) /\ <<>> \in Seq(Report)
      <4> HIDE DEF Report
      <4> QED
        BY <3>1
    <3> QED
      BY <2>1, <3>2
  <2> QED
    BY <1>1, <2>1, <2>2 DEF kmaxall_cmd, ReportInv
<1>2. CASE Normalize
  <2>1. DOMAIN out = Dir /\ UNCHANGED <<in, out>> /\ stage' = "load"
    BY <1>2 DEF Normalize, ReportInv
  <2>2. CASE BlankLine
    BY <1>2, <2>1, <2>2 DEF Normalize, ReportInv
  <2>3. CASE ~BlankLine
    <3>1. PICK order \in SetToSeqs(Dir) :
            lines' = {<<r.unit, r.expr>> : r \in {x \in Range(Normalized(order)) : Kept(x)}}
      BY <1>2, <2>3 DEF Normalize
    <3>2. \A r \in Range(Normalized(order)) : r \in Report
      BY <2>1, NormalizedSpec
    <3>3. lines' \subseteq Object \X DOMAIN Expr
      BY <3>1, <3>2 DEF Kept, Report
    <3> QED
      BY <2>1, <3>3 DEF ReportInv
  <2> QED
    BY <2>2, <2>3
<1>3. CASE LoadExprs \/ \E o \in Object : execute_check_sat(o)
  BY <1>3 DEF LoadExprs, execute_check_sat, ReportInv
<1>4. CASE EndSat \/ EndHalf \/ \E p \in 0..(Cardinality(sat) - 1) : CheckHalf(p)
  BY <1>4 DEF EndSat, EndHalf, CheckHalf, Halves, ReportInv
<1>5. CASE GenDep \/ load_btobj_deps \/ UNCHANGED vars
  BY <1>5 DEF GenDep, load_btobj_deps, vars, ReportInv
<1> QED
  BY <1>1, <1>2, <1>3, <1>4, <1>5 DEF Next

\* Once the lines are there, nothing changes them or the reports.
LEMMA LostNext ==
  ASSUME ReportInv, LostOnlyLast, [Next]_vars
  PROVE  LostOnlyLast'
<1>1. CASE Normalize
  <2>1. DOMAIN out = Dir /\ UNCHANGED <<in, out>>
    BY <1>1 DEF Normalize, ReportInv
  <2>2. BlankLine' <=> BlankLine
    BY <2>1 DEF BlankLine
  <2>3. CASE BlankLine
    BY <1>1, <2>2, <2>3 DEF Normalize, LostOnlyLast
  <2>4. CASE ~BlankLine
    <3>1. PICK order \in SetToSeqs(Dir) :
            lines' = {<<r.unit, r.expr>> : r \in {x \in Range(Normalized(order)) : Kept(x)}}
      BY <1>1, <2>4 DEF Normalize
    <3>2. PICK last \in {<<>>} \cup {out[d] : d \in Dir} :
            \A d \in Dir : \A i \in DOMAIN out[d] :
              \/ out[d][i] \in Range(Normalized(order))
              \/ last # <<>> /\ out[d][i] = last[Len(last)]
      BY <2>1, NormalizedSpec
    <3>3. ASSUME NEW r \in Range(Normalized(order)), r.unit \in Object, r.expr # 0
          PROVE  <<r.unit, r.expr>> \in lines'
      BY <3>1, <3>3 DEF Kept
    <3>4. \A d \in Dir : \A i \in DOMAIN out[d] :
            \/ out[d][i].unit \notin Object \/ out[d][i].expr = 0
            \/ <<out[d][i].unit, out[d][i].expr>> \in lines'
            \/ last # <<>> /\ out[d][i] = last[Len(last)]
      BY <3>2, <3>3
    <3> QED
      BY <2>1, <2>2, <2>4, <3>4 DEF LostOnlyLast
  <2> QED
    BY <2>3, <2>4
<1>2. CASE \E d \in Dir : kmaxall_cmd(d)
  BY <1>2 DEF kmaxall_cmd, LostOnlyLast
<1>3. CASE UNCHANGED <<in, out, lines>> /\ stage # "kmax"
  BY <1>3 DEF LostOnlyLast, BlankLine
<1>4. CASE UNCHANGED vars
  BY <1>4 DEF vars, LostOnlyLast, BlankLine
<1>5. LoadExprs \/ EndSat \/ (\E o \in Object : execute_check_sat(o))
        => UNCHANGED <<in, out, lines>> /\ stage # "kmax"
  BY DEF LoadExprs, EndSat, execute_check_sat
<1>6. EndHalf \/ (\E p \in 0..(Cardinality(sat) - 1) : CheckHalf(p))
        => UNCHANGED <<in, out, lines>> /\ stage # "kmax"
  BY DEF EndHalf, CheckHalf, Halves
<1>7. GenDep \/ load_btobj_deps => UNCHANGED <<in, out, lines>> /\ stage # "kmax"
  BY DEF GenDep, load_btobj_deps
<1> QED
  BY <1>1, <1>2, <1>3, <1>4, <1>5, <1>6, <1>7 DEF Next

\* Nothing is reported at first.
LEMMA ReportInit ==
  ASSUME Init
  PROVE  ReportInv /\ LostOnlyLast
BY DEF Init, ReportInv, LostOnlyLast

\* For any directories and any order of the files, kreader-normalize.py loses
\* at most the record of one object, the last of a directory
\* (kreader-normalize.py:15-27).
THEOREM OneRecordLost == Spec => []LostOnlyLast
<1>1. ReportInv /\ LostOnlyLast /\ [Next]_vars => (ReportInv /\ LostOnlyLast)'
  BY ReportNext, LostNext
<1> QED
  BY <1>1, ReportInit, PTL DEF Spec

-----------------------------------------------------------------------------
\* The two halves.

\* Between them the two passes look at every later object once: the halves
\* meet at floor(n / 2) without gap and without overlap, also for an odd number
\* of objects and for a parent in either half (get-build-deps.py:135, 146).
THEOREM HalvesMeet ==
  ASSUME NEW n \in Nat, Cardinality(sat) = n, NEW p \in 0..(n - 1)
  PROVE  /\ Candidates("left", p) \cup Candidates("right", p)
              = {c \in (p + 1)..(n - 1) : Covers(p, c)}
         /\ Candidates("left", p) \cap Candidates("right", p) = {}
<1>1. half \in Nat /\ half <= n
  BY DEF half
<1>2. Candidates("left", p) = {c \in (p + 1)..(half - 1) : Covers(p, c)}
  BY DEF Candidates
<1>3. Candidates("right", p)
        = {c \in (IF p + 1 > half THEN p + 1 ELSE half)..(n - 1) : Covers(p, c)}
  BY DEF Candidates
<1> QED
  BY <1>1, <1>2, <1>3

-----------------------------------------------------------------------------
\* Objects and pairs.

\* The ids of objs_sat.
Ids == 0..(Cardinality(sat) - 1)

\* An object has an expression of the table, and those in sat satisfy theirs.
SatInv ==
  /\ DOMAIN obj_z3 \subseteq Object /\ \A o \in DOMAIN obj_z3 : obj_z3[o] \in DOMAIN Expr
  /\ sat \subseteq DOMAIN obj_z3
  /\ stage \in {"kmax", "load"} => sat = {}
  /\ stage = "sat" => todo \subseteq DOMAIN obj_z3
  /\ \A o \in sat : Sat(o, kcvars(o))

\* The pool has looked at every parent that is no longer to do, in both halves
\* once they are over, and has found all candidates.
FoundInv ==
  /\ stage \in {"kmax", "load", "sat", "gendep", "revdeps", "done"} \cup Halves
  /\ stage \in {"kmax", "load", "sat"} => DOMAIN found = {}
  /\ stage \in Halves => ~raised /\ todo \subseteq Ids
  /\ stage = "left" => DOMAIN found = {"left"} \X (Ids \ todo)
  /\ stage = "right" => DOMAIN found = ({"left"} \X Ids) \cup ({"right"} \X (Ids \ todo))
  /\ stage \in {"gendep", "revdeps", "done"} =>
       DOMAIN found = IF raised THEN {} ELSE Halves \X Ids
  /\ \A k \in DOMAIN found : found[k] = Candidates(k[1], k[2])

\* What gen-dep.py and load_btobj_deps make of the pairs.
DepInv ==
  /\ PairedOnce
  /\ IF stage \in {"revdeps", "done"} THEN DOMAIN dep \subseteq sat ELSE DOMAIN dep = {}
  /\ IF stage = "done"
     THEN revdeps = [c \in UNION {Range(dep[p]) : p \in DOMAIN dep} |->
                       {p \in DOMAIN dep : c \in Range(dep[p])}]
     ELSE DOMAIN revdeps = {}

\* Each step keeps SatInv.
LEMMA SatNext ==
  ASSUME ReportInv, SatInv, [Next]_vars
  PROVE  SatInv'
<1>1. CASE LoadExprs
  <2> DEFINE named == IF Input[in].builtin = {} THEN Object ELSE Input[in].builtin
             objs == {l[1] : l \in lines} \cap named
             exprs(o) == {l[2] : l \in {x \in lines : x[1] = o}}
  <2>1. /\ obj_z3' = [o \in objs |-> CHOOSE e \in exprs(o) : \A x \in exprs(o) : x <= e]
        /\ todo' = objs /\ stage' = "sat" /\ sat' = {}
    BY <1>1 DEF LoadExprs, SatInv
  <2>2. objs \subseteq Object
    BY DEF ReportInv
  <2>3. ASSUME NEW o \in objs
        PROVE  (CHOOSE e \in exprs(o) : \A x \in exprs(o) : x <= e) \in DOMAIN Expr
    <3>1. exprs(o) \subseteq DOMAIN Expr /\ exprs(o) # {}
      BY DEF ReportInv
    <3>2. exprs(o) \in SUBSET Nat /\ IsFiniteSet(exprs(o))
      BY <3>1, UnitAssumption, FS_Subset
    <3> HIDE DEF exprs
    <3>3. \E e \in exprs(o) : \A x \in exprs(o) : x <= e
      BY <3>1, <3>2, GreatestExists
    <3> QED
      BY <3>1, <3>3
  <2> HIDE DEF objs, exprs
  <2> QED
    BY <2>1, <2>2, <2>3 DEF SatInv
<1>2. ASSUME NEW o \in Object, execute_check_sat(o) PROVE SatInv'
  <2>1. /\ stage = "sat" /\ stage' = "sat" /\ todo' \subseteq todo
        /\ UNCHANGED <<in, obj_z3>>
    BY <1>2 DEF execute_check_sat
  <2>2. o \in DOMAIN obj_z3
    BY <1>2 DEF execute_check_sat, SatInv
  <2>3. sat' = sat \/ (sat' = sat \cup {o} /\ Sat(o, kcvars(o)))
    BY <1>2 DEF execute_check_sat
  <2>4. ASSUME NEW x PROVE Sat(x, kcvars(x))' <=> Sat(x, kcvars(x))
    BY <2>1 DEF Sat, kcvars
  <2> QED
    BY <2>1, <2>2, <2>3, <2>4 DEF SatInv
<1>3. ASSUME UNCHANGED <<in, obj_z3, sat>>, stage' = "sat" => stage = "sat" /\ todo' \subseteq todo,
             stage' \in {"kmax", "load"} => stage \in {"kmax", "load"}
      PROVE  SatInv'
  <2>1. ASSUME NEW x PROVE Sat(x, kcvars(x))' <=> Sat(x, kcvars(x))
    BY <1>3 DEF Sat, kcvars
  <2> QED
    BY <1>3, <2>1 DEF SatInv
<1>4. CASE (\E d \in Dir : kmaxall_cmd(d)) \/ Normalize
  BY <1>3, <1>4 DEF kmaxall_cmd, Normalize
<1>5. CASE EndSat \/ EndHalf \/ \E p \in 0..(Cardinality(sat) - 1) : CheckHalf(p)
  BY <1>3, <1>5 DEF EndSat, EndHalf, CheckHalf, Halves
<1>6. CASE GenDep \/ load_btobj_deps \/ UNCHANGED vars
  BY <1>3, <1>6 DEF GenDep, load_btobj_deps, vars
<1> QED
  BY <1>1, <1>2, <1>4, <1>5, <1>6 DEF Next

\* The objects in sat are finitely many numbers.
LEMMA SatFinite ==
  ASSUME SatInv
  PROVE  sat \in SUBSET Nat /\ IsFiniteSet(sat) /\ Cardinality(sat) \in Nat
<1>1. sat \in SUBSET Object
  BY DEF SatInv
<1> QED
  BY <1>1, UnitAssumption, FS_Subset, FS_CardinalityType

\* An id stands for an object of sat.
LEMMA IdsSpec ==
  ASSUME SatInv
  PROVE  /\ \A p \in Ids : objs_sat(p) \in sat
         /\ \A p, c \in Ids : p < c <=> objs_sat(p) < objs_sat(c)
         /\ \A p, c \in Ids : objs_sat(p) = objs_sat(c) => p = c
         /\ \A o \in sat : \E p \in Ids : objs_sat(p) = o
BY SatFinite, NthSpec DEF Ids, objs_sat

\* A candidate comes after its parent and is an id.
LEMMA CandidatesRange ==
  ASSUME SatInv, NEW h \in Halves, NEW p \in Ids, NEW c \in Candidates(h, p)
  PROVE  p < c /\ c < Cardinality(sat)
<1>1. Cardinality(sat) \in Nat
  BY SatFinite
<1>2. half \in Nat /\ half <= Cardinality(sat)
  BY <1>1 DEF half
<1>3. h = "left" \/ h = "right"
  BY DEF Halves
<1> QED
  BY <1>1, <1>2, <1>3 DEF Candidates, Ids

\* The solver turns no candidate down: the parent's variables include the
\* candidate's, so it asks what was asked of the candidate before.
LEMMA SolverKeeps ==
  ASSUME SatInv, NEW h \in Halves, NEW p \in Ids
  PROVE  check_build_deps(p, Candidates(h, p)) = Candidates(h, p)
<1>1. SUFFICES ASSUME NEW c \in Candidates(h, p)
               PROVE  Sat(objs_sat(c), kcvars(objs_sat(p)))
  BY DEF check_build_deps
<1>2. c \in Ids /\ Covers(p, c)
  <2>1. c \in Int /\ Covers(p, c)
    BY SatFinite DEF Candidates, half
  <2>2. p \in Nat /\ Cardinality(sat) \in Nat
    BY SatFinite DEF Ids
  <2> QED
    BY <2>1, <2>2, CandidatesRange DEF Ids
<1> DEFINE o == objs_sat(c)
           V == kcvars(objs_sat(p))
<1>3. o \in sat /\ kcvars(o) \subseteq V
  BY <1>2, IdsSpec DEF Covers
<1> HIDE DEF o, V
<1>4. obj_z3[o] \in DOMAIN Expr
  BY <1>3 DEF SatInv
<1>5. PICK a \in Expr[obj_z3[o]].holds :
        a \cap kcvars(o) = Input[in].config \cap kcvars(o) \cap kcvars(o)
  BY <1>3 DEF SatInv, Sat
<1>6. a \subseteq kcvars(o)
  BY <1>4, <1>5, UnitAssumption DEF kcvars
<1>7. a \cap V = Input[in].config \cap V \cap kcvars(o)
  BY <1>3, <1>5, <1>6
<1>8. Sat(o, V)
  BY <1>5, <1>7 DEF Sat
<1> QED
  BY <1>8 DEF o, V

\* Candidates only depend on the objects.
LEMMA CandidatesKept ==
  ASSUME UNCHANGED <<sat, obj_z3>>, NEW h, NEW p
  PROVE  Candidates(h, p)' = Candidates(h, p)
BY DEF Candidates, half, Covers, kcvars, objs_sat

\* Each step keeps FoundInv.
LEMMA FoundNext ==
  ASSUME SatInv, FoundInv, [Next]_vars
  PROVE  FoundInv'
<1>1. ASSUME NEW p \in Ids, CheckHalf(p) PROVE FoundInv'
  <2>1. /\ stage \in Halves /\ stage' = stage /\ p \in todo /\ todo' = todo \ {p}
        /\ UNCHANGED <<raised, sat, obj_z3>>
        /\ found' = [x \in DOMAIN found \cup {<<stage, p>>} |->
                       IF x = <<stage, p>> THEN check_build_deps(p, Candidates(stage, p))
                       ELSE found[x]]
    BY <1>1 DEF CheckHalf
  <2>2. Ids' = Ids
    BY <2>1 DEF Ids
  <2>3. DOMAIN found' = DOMAIN found \cup {<<stage, p>>}
    BY <2>1
  <2>4. ASSUME NEW k \in DOMAIN found' PROVE found'[k] = Candidates(k[1], k[2])'
    <3>1. Candidates(k[1], k[2])' = Candidates(k[1], k[2])
      BY <2>1, CandidatesKept
    <3>2. CASE k = <<stage, p>>
      BY <2>1, <3>1, <3>2, SolverKeeps
    <3>3. CASE k # <<stage, p>>
      BY <2>1, <2>3, <3>1, <3>3 DEF FoundInv
    <3> QED
      BY <3>2, <3>3
  <2>5. CASE stage = "left"
    <3>1. DOMAIN found' = {"left"} \X (Ids \ todo')
      BY <2>1, <2>3, <2>5 DEF FoundInv
    <3> QED
      BY <2>1, <2>2, <2>4, <2>5, <3>1 DEF FoundInv, Halves
  <2>6. CASE stage = "right"
    <3>1. DOMAIN found' = ({"left"} \X Ids) \cup ({"right"} \X (Ids \ todo'))
      BY <2>1, <2>3, <2>6 DEF FoundInv
    <3> QED
      BY <2>1, <2>2, <2>4, <2>6, <3>1 DEF FoundInv, Halves
  <2> QED
    BY <2>1, <2>5, <2>6 DEF Halves
<1>2. ASSUME DOMAIN found = {}, found' = found, stage \in {"kmax", "load", "sat"},
             stage' \in {"kmax", "load", "sat"}
      PROVE  FoundInv'
  BY <1>2 DEF FoundInv, Halves
<1>3. CASE (\E d \in Dir : kmaxall_cmd(d)) \/ Normalize
  BY <1>2, <1>3 DEF kmaxall_cmd, Normalize, FoundInv
<1>4. CASE LoadExprs \/ \E o \in Object : execute_check_sat(o)
  BY <1>2, <1>4 DEF LoadExprs, execute_check_sat, FoundInv
<1>5. ASSUME UNCHANGED <<sat, obj_z3, found>>
      PROVE  /\ Ids' = Ids
             /\ (\A k \in DOMAIN found : found[k] = Candidates(k[1], k[2]))
                  => (\A k \in DOMAIN found : found[k] = Candidates(k[1], k[2]))'
  <2>1. Ids' = Ids
    BY <1>5 DEF Ids
  <2>2. ASSUME NEW k PROVE Candidates(k[1], k[2])' = Candidates(k[1], k[2])
    BY <1>5, CandidatesKept
  <2> QED
    BY <1>5, <2>1, <2>2
<1>6. CASE EndSat
  <2>1. /\ UNCHANGED <<sat, obj_z3, found, raised>> /\ DOMAIN found = {}
        /\ IF raised THEN stage' = "gendep" ELSE stage' = "left" /\ todo' = Ids
    BY <1>6 DEF EndSat, FoundInv, Ids
  <2> QED
    BY <1>5, <2>1 DEF FoundInv, Halves
<1>7. CASE EndHalf
  <2>1. /\ UNCHANGED <<sat, obj_z3, found, raised>> /\ todo = {} /\ stage \in Halves
        /\ IF stage = "left" THEN stage' = "right" /\ todo' = Ids ELSE stage' = "gendep"
    BY <1>7 DEF EndHalf, Ids
  <2>2. CASE stage = "left"
    BY <1>5, <2>1, <2>2 DEF FoundInv, Halves
  <2>3. CASE stage = "right"
    BY <1>5, <2>1, <2>3 DEF FoundInv, Halves
  <2> QED
    BY <2>1, <2>2, <2>3 DEF Halves
<1>8. CASE GenDep \/ load_btobj_deps
  <2>1. /\ UNCHANGED <<sat, obj_z3, found, raised>> /\ stage \in {"gendep", "revdeps"}
        /\ stage' \in {"revdeps", "done"}
    BY <1>8 DEF GenDep, load_btobj_deps
  <2> QED
    BY <1>5, <2>1 DEF FoundInv, Halves
<1>9. CASE UNCHANGED vars
  <2>1. UNCHANGED <<sat, obj_z3, found, raised, stage, todo>>
    BY <1>9 DEF vars
  <2> QED
    BY <1>5, <2>1 DEF FoundInv
<1> QED
  BY <1>1, <1>3, <1>4, <1>6, <1>7, <1>8, <1>9 DEF Next, Ids

-----------------------------------------------------------------------------
\* builtin-objs.dep and its inverse.

\* The ids that come after p with no further variable stand for the later
\* objects whose variables are among those of the object p stands for.
LEMMA LaterSpec ==
  ASSUME SatInv, NEW p \in Ids,
         NEW L, L = {c \in (p + 1)..(Cardinality(sat) - 1) : Covers(p, c)},
         NEW later, later = {c \in sat : /\ objs_sat(p) < c
                                         /\ kcvars(c) \subseteq kcvars(objs_sat(p))}
  PROVE  /\ L \subseteq Ids /\ IsFiniteSet(L)
         /\ later = {objs_sat(c) : c \in L}
         /\ Cardinality(later) = Cardinality(L)
<1>1. Cardinality(sat) \in Nat
  BY SatFinite
<1>2. \A c : c \in (p + 1)..(Cardinality(sat) - 1) <=> c \in Ids /\ p < c
  BY <1>1 DEF Ids
<1>3. L = {c \in Ids : p < c /\ Covers(p, c)}
  BY <1>2
<1>4. L \subseteq Ids /\ IsFiniteSet(L)
  <2>1. IsFiniteSet(Ids)
    BY <1>1, FS_Interval DEF Ids
  <2>2. L \in SUBSET Ids
    BY <1>3
  <2> QED
    BY <2>1, <2>2, FS_Subset
<1>5. ASSUME NEW c \in L PROVE objs_sat(c) \in later
  BY <1>3, IdsSpec DEF Covers
<1>6. ASSUME NEW o \in later PROVE \E c \in L : o = objs_sat(c)
  <2>1. PICK c \in Ids : objs_sat(c) = o
    BY IdsSpec
  <2>2. p < c /\ Covers(p, c)
    BY <2>1, IdsSpec DEF Covers
  <2> QED
    BY <1>3, <2>1, <2>2
<1>7. later = {objs_sat(c) : c \in L}
  BY <1>5, <1>6
<1>8. Cardinality(later) = Cardinality(L)
  <2> DEFINE f == [c \in L |-> objs_sat(c)]
  <2>1. f \in [L -> later] /\ \A c \in L : f[c] = objs_sat(c)
    BY <1>5
  <2> HIDE DEF f
  <2>2. \A a, c \in L : f[a] = f[c] => a = c
    BY <1>4, <2>1, IdsSpec
  <2>3. f \in Bijection(L, later)
    BY <1>6, <2>1, <2>2 DEF Bijection, Injection, Surjection, IsInjective
  <2>4. ExistsBijection(L, later)
    BY <2>3 DEF ExistsBijection
  <2> QED
    BY <1>4, <2>4, FS_Bijection
<1> QED
  BY <1>4, <1>7, <1>8

\* The candidates of the two halves, left first, are those ids once each.
LEMMA CandidatesListed ==
  ASSUME SatInv, NEW p \in Ids,
         NEW L, L = {c \in (p + 1)..(Cardinality(sat) - 1) : Covers(p, c)},
         NEW all, all = Sorted(Candidates("left", p)) \o Sorted(Candidates("right", p))
  PROVE  all \in Seq(L) /\ Range(all) = L /\ Len(all) = Cardinality(L)
<1> DEFINE A == Candidates("left", p)
           B == Candidates("right", p)
<1>1. Cardinality(sat) \in Nat
  BY SatFinite
<1>2. A \cup B = L /\ A \cap B = {}
  BY <1>1, HalvesMeet DEF Ids
<1>3. L \subseteq Ids /\ IsFiniteSet(L)
  BY LaterSpec
<1> HIDE DEF A, B
<1>4. /\ A \in SUBSET L /\ B \in SUBSET L /\ IsFiniteSet(A) /\ IsFiniteSet(B)
      /\ A \in SUBSET Nat /\ B \in SUBSET Nat
  <2>1. A \in SUBSET L /\ B \in SUBSET L
    BY <1>2
  <2>2. Ids \subseteq Nat
    BY <1>1 DEF Ids
  <2> QED
    BY <1>3, <2>1, <2>2, FS_Subset
<1>5. Cardinality(L) = Cardinality(A) + Cardinality(B)
  <2>1. Cardinality(A) \in Nat /\ Cardinality(B) \in Nat
    BY <1>4, FS_CardinalityType
  <2>2. Cardinality(A \cup B) = Cardinality(A) + Cardinality(B) - Cardinality(A \cap B)
    BY <1>4, FS_Union
  <2>3. Cardinality(A \cap B) = 0
    BY <1>2, FS_EmptySet
  <2>4. Cardinality(L) = Cardinality(A \cup B)
    BY <1>2
  <2> QED
    BY ONLY <2>1, <2>2, <2>3, <2>4
<1> DEFINE s == Sorted(A)
           u == Sorted(B)
<1>6. /\ s \in Seq(A) /\ Len(s) = Cardinality(A) /\ Range(s) = A
      /\ u \in Seq(B) /\ Len(u) = Cardinality(B) /\ Range(u) = B
  BY <1>4, SortedSpec
<1>7. all = s \o u
  BY DEF A, B
<1> HIDE DEF s, u
<1>8. s \in Seq(L) /\ u \in Seq(L)
  <2>1. A \subseteq L /\ B \subseteq L
    BY <1>2
  <2> QED
    BY ONLY <1>6, <2>1
<1>9. /\ s \o u \in Seq(L) /\ Len(s \o u) = Len(s) + Len(u)
      /\ Range(s \o u) = Range(s) \cup Range(u)
  BY ONLY <1>8, JoinRange
<1> QED
  BY ONLY <1>2, <1>5, <1>6, <1>7, <1>9

\* gen-dep.py, when every expression could be evaluated: an object that has a
\* later one gets all of them, once each, and the others get no entry.
LEMMA GroupedOnce ==
  ASSUME SatInv, FoundInv, stage = "gendep", ~raised, GenDep
  PROVE  /\ DOMAIN dep' \subseteq sat
         /\ \A p \in sat :
              LET later == {c \in sat : p < c /\ kcvars(c) \subseteq kcvars(p)}
              IN  IF p \in DOMAIN dep'
                  THEN Range(dep'[p]) = later /\ Len(dep'[p]) = Cardinality(later)
                  ELSE later = {}
<1> DEFINE all(p)  == Sorted(found[<<"left", p>>]) \o Sorted(found[<<"right", p>>])
           parents == {k[2] : k \in {x \in DOMAIN found : found[x] # {}}}
           id(o)   == CHOOSE p \in parents : objs_sat(p) = o
           L(p)    == {c \in (p + 1)..(Cardinality(sat) - 1) : Covers(p, c)}
           Later(o) == {c \in sat : o < c /\ kcvars(c) \subseteq kcvars(o)}
           list(o) == [i \in DOMAIN all(id(o)) |-> objs_sat(all(id(o))[i])]
<1>1. dep' = [o \in {objs_sat(p) : p \in parents} |-> list(o)]
  BY DEF GenDep
<1>2. Cardinality(sat) \in Nat
  BY SatFinite
<1>3. ASSUME NEW p \in Ids
      PROVE  /\ found[<<"left", p>>] = Candidates("left", p)
             /\ found[<<"right", p>>] = Candidates("right", p)
             /\ <<"left", p>> \in DOMAIN found /\ <<"right", p>> \in DOMAIN found
  BY DEF FoundInv, Halves
<1>4. ASSUME NEW p \in Ids
      PROVE  all(p) \in Seq(L(p)) /\ Range(all(p)) = L(p) /\ Len(all(p)) = Cardinality(L(p))
  BY <1>3, CandidatesListed
<1>5. ASSUME NEW p \in Ids
      PROVE  /\ L(p) \subseteq Ids
             /\ Later(objs_sat(p)) = {objs_sat(c) : c \in L(p)}
             /\ Cardinality(Later(objs_sat(p))) = Cardinality(L(p))
  BY LaterSpec
<1>6. parents \subseteq Ids
  BY DEF FoundInv, Halves
<1>7. ASSUME NEW p \in Ids PROVE p \in parents <=> L(p) # {}
  <2>1. Candidates("left", p) \cup Candidates("right", p) = L(p)
    BY <1>2, HalvesMeet DEF Ids
  <2>2. ASSUME NEW k \in DOMAIN found, k[2] = p
        PROVE  k = <<"left", p>> \/ k = <<"right", p>>
    BY <2>2 DEF FoundInv, Halves
  <2>3. p \in parents <=> found[<<"left", p>>] # {} \/ found[<<"right", p>>] # {}
    <3>1. ASSUME p \in parents
          PROVE  found[<<"left", p>>] # {} \/ found[<<"right", p>>] # {}
      <4>1. PICK k \in DOMAIN found : found[k] # {} /\ k[2] = p
        BY <3>1
      <4> QED
        BY <2>2, <4>1
    <3>2. ASSUME NEW k \in DOMAIN found, found[k] # {} PROVE k[2] \in parents
      BY <3>2
    <3>3. <<"left", p>>[2] = p /\ <<"right", p>>[2] = p
      OBVIOUS
    <3> QED
      BY <1>3, <3>1, <3>2, <3>3
  <2> HIDE DEF L, parents
  <2> QED
    BY <1>3, <2>1, <2>3
<1> HIDE DEF all, parents, L, Later
<1>8. ASSUME NEW p \in Ids, p \in parents
      PROVE  /\ objs_sat(p) \in DOMAIN dep'
             /\ Range(dep'[objs_sat(p)]) = Later(objs_sat(p))
             /\ Len(dep'[objs_sat(p)]) = Cardinality(Later(objs_sat(p)))
  <2>1. id(objs_sat(p)) = p
    BY <1>6, <1>8, IdsSpec
  <2> DEFINE o == objs_sat(p)
             n == Len(all(p))
  <2>2. n \in Nat /\ DOMAIN all(p) = 1..n
    BY <1>4
  <2>3. o \in DOMAIN dep' /\ dep'[o] = [i \in 1..n |-> objs_sat(all(p)[i])]
    BY <1>1, <1>8, <2>1, <2>2
  <2>4. Len(dep'[o]) = n
    <3> HIDE DEF n
    <3> QED
      BY <2>2, <2>3
  <2>5. Range(dep'[o]) = {objs_sat(c) : c \in L(p)}
    <3>1. Range(dep'[o]) = {objs_sat(all(p)[i]) : i \in 1..n}
      <4> HIDE DEF n
      <4> QED
        BY <2>3 DEF Range
    <3>2. L(p) = {all(p)[i] : i \in 1..n}
      BY <1>4, <2>2 DEF Range
    <3> HIDE DEF n
    <3> QED
      BY <3>1, <3>2
  <2> QED
    BY <1>4, <1>5, <2>3, <2>4, <2>5
<1>9. DOMAIN dep' \subseteq sat
  BY <1>1, <1>6, IdsSpec
<1>10. ASSUME NEW o \in sat
       PROVE  IF o \in DOMAIN dep'
              THEN Range(dep'[o]) = Later(o) /\ Len(dep'[o]) = Cardinality(Later(o))
              ELSE Later(o) = {}
  <2>1. PICK p \in Ids : objs_sat(p) = o
    BY IdsSpec
  <2>2. CASE p \in parents
    BY <1>8, <2>1, <2>2
  <2>3. CASE p \notin parents
    <3>1. Later(o) = {}
      BY <1>5, <1>7, <2>1, <2>3
    <3>2. o \notin DOMAIN dep'
      BY <1>1, <1>6, <2>1, <2>3, IdsSpec
    <3> QED
      BY <3>1, <3>2
  <2> QED
    BY <2>2, <2>3
<1> QED
  BY <1>9, <1>10 DEF Later

\* Each step keeps DepInv.
LEMMA DepNext ==
  ASSUME SatInv, FoundInv, DepInv, [Next]_vars
  PROVE  DepInv'
<1>1. CASE GenDep
  <2>1. /\ stage = "gendep" /\ stage' = "revdeps"
        /\ UNCHANGED <<obj_z3, raised, sat, revdeps>>
    BY <1>1 DEF GenDep
  <2>2. /\ DOMAIN dep' \subseteq sat
        /\ \A p \in sat :
             LET later == {c \in sat : ~raised /\ p < c /\ kcvars(c) \subseteq kcvars(p)}
             IN  IF p \in DOMAIN dep'
                 THEN Range(dep'[p]) = later /\ Len(dep'[p]) = Cardinality(later)
                 ELSE later = {}
    <3>1. CASE ~raised
      BY <1>1, <2>1, <3>1, GroupedOnce
    <3>2. CASE raised
      <4>1. DOMAIN found = {}
        BY <2>1, <3>2 DEF FoundInv
      <4>2. DOMAIN dep' = {}
        BY <1>1, <4>1 DEF GenDep
      <4> QED
        BY <3>2, <4>2
    <3> QED
      BY <3>1, <3>2
  <2>3. PairedOnce'
    BY <2>1, <2>2 DEF PairedOnce, kcvars
  <2> QED
    BY <2>1, <2>2, <2>3 DEF DepInv
<1>2. CASE load_btobj_deps
  <2>1. /\ stage = "revdeps" /\ stage' = "done"
        /\ UNCHANGED <<obj_z3, raised, sat, dep>>
        /\ revdeps' = [c \in UNION {Range(dep[p]) : p \in DOMAIN dep} |->
                         {p \in DOMAIN dep : c \in Range(dep[p])}]
    BY <1>2 DEF load_btobj_deps
  <2>2. PairedOnce'
    BY <2>1 DEF DepInv, PairedOnce, kcvars
  <2> QED
    BY <2>1, <2>2 DEF DepInv
<1>3. ASSUME stage \notin {"revdeps", "done"}, stage' \notin {"revdeps", "done"},
             UNCHANGED <<dep, revdeps>>
      PROVE  DepInv'
  BY <1>3 DEF DepInv, PairedOnce
<1>4. CASE (\E d \in Dir : kmaxall_cmd(d)) \/ Normalize
  BY <1>3, <1>4 DEF kmaxall_cmd, Normalize
<1>5. CASE LoadExprs \/ \E o \in Object : execute_check_sat(o)
  BY <1>3, <1>5 DEF LoadExprs, execute_check_sat
<1>6. CASE EndSat \/ EndHalf \/ \E p \in 0..(Cardinality(sat) - 1) : CheckHalf(p)
  BY <1>3, <1>6 DEF EndSat, EndHalf, CheckHalf, Halves
<1>7. CASE UNCHANGED vars
  <2>1. UNCHANGED <<stage, obj_z3, raised, sat, dep, revdeps>>
    BY <1>7 DEF vars
  <2>2. PairedOnce'
    BY <2>1 DEF DepInv, PairedOnce, kcvars
  <2> QED
    BY <2>1, <2>2 DEF DepInv
<1> QED
  BY <1>1, <1>2, <1>4, <1>5, <1>6, <1>7 DEF Next

\* The inductive invariant.
UnitInv == ReportInv /\ SatInv /\ FoundInv /\ DepInv

\* UnitInv holds throughout.
LEMMA UnitInductive == Spec => []UnitInv
<1>1. Init => UnitInv
  <2> SUFFICES ASSUME Init PROVE UnitInv
    OBVIOUS
  <2>1. ReportInv
    BY ReportInit
  <2>2. SatInv
    BY DEF Init, SatInv
  <2>3. FoundInv
    BY DEF Init, FoundInv, Halves
  <2>4. DepInv
    BY DEF Init, DepInv, PairedOnce
  <2> QED
    BY <2>1, <2>2, <2>3, <2>4 DEF UnitInv
<1>2. UnitInv /\ [Next]_vars => UnitInv'
  <2> SUFFICES ASSUME UnitInv, [Next]_vars PROVE UnitInv'
    OBVIOUS
  <2>1. ReportInv /\ SatInv /\ FoundInv /\ DepInv
    BY DEF UnitInv
  <2>2. ReportInv' /\ SatInv' /\ FoundInv' /\ DepInv'
    BY <2>1, ReportNext, SatNext, FoundNext, DepNext
  <2> QED
    BY <2>2 DEF UnitInv
<1> QED
  BY <1>1, <1>2, PTL DEF Spec

\* The tables of do-comp-unit.sh only ever name directories, objects and
\* expressions there are, and every id is in range, for any build
\* (get-obj-kconf-expr.py, get-build-deps.py).
THEOREM UnitTypeCorrect == Spec => []TypeOK
<1>1. UnitInv => TypeOK
  <2> SUFFICES ASSUME UnitInv PROVE TypeOK
    OBVIOUS
  <2>1. ReportInv /\ SatInv /\ FoundInv /\ DepInv
    BY DEF UnitInv
  <2>2. ASSUME NEW k \in DOMAIN found
        PROVE  /\ k[1] \in Halves /\ k[2] < Cardinality(sat)
               /\ \A c \in found[k] : k[2] < c /\ c < Cardinality(sat)
    <3>1. k[1] \in Halves /\ k[2] \in Ids
      BY <2>1 DEF FoundInv, Halves
    <3>2. k[2] < Cardinality(sat)
      BY <2>1, <3>1, SatFinite DEF Ids
    <3>3. found[k] = Candidates(k[1], k[2])
      BY <2>1 DEF FoundInv
    <3> QED
      BY <2>1, <3>1, <3>2, <3>3, CandidatesRange
  <2>3. DOMAIN dep \subseteq sat
    BY <2>1 DEF DepInv
  <2>4. DOMAIN revdeps \subseteq sat
    <3>1. CASE stage = "done"
      <4>1. ASSUME NEW p \in DOMAIN dep PROVE Range(dep[p]) \subseteq sat
        BY <2>1, <2>3, <3>1 DEF DepInv, PairedOnce
      <4> QED
        BY <2>1, <3>1, <4>1 DEF DepInv
    <3>2. CASE stage # "done"
      BY <2>1, <3>2 DEF DepInv
    <3> QED
      BY <3>1, <3>2
  <2> QED
    BY <2>1, <2>2, <2>3, <2>4 DEF TypeOK, ReportInv, SatInv, FoundInv
<1> QED
  BY <1>1, UnitInductive, PTL

\* For any number of objects, every later object whose variables are among a
\* parent's is paired with it once, and nothing else is
\* (get-build-deps.py:104-153, 177-209, gen-dep.py).
THEOREM PairedExactlyOnce == Spec => []PairedOnce
<1>1. UnitInv => PairedOnce
  BY DEF UnitInv, DepInv
<1> QED
  BY <1>1, UnitInductive, PTL

\* For any build, looking the related objects up once is enough
\* (gen_objdep.py:35-50, 249-257).
THEOREM LookupOnceSuffices == Spec => []LinkedTransitive
<1>1. UnitInv => LinkedTransitive
  <2> SUFFICES ASSUME UnitInv, stage = "done",
                      NEW c \in DOMAIN revdeps, NEW b \in revdeps[c], b \in DOMAIN revdeps,
                      NEW a \in revdeps[b]
               PROVE  a \in revdeps[c]
    BY DEF LinkedTransitive
  <2>1. SatInv /\ DepInv
    BY DEF UnitInv
  <2>2. /\ \A x \in DOMAIN revdeps : revdeps[x] = {p \in DOMAIN dep : x \in Range(dep[p])}
        /\ DOMAIN dep \subseteq sat
    BY <2>1 DEF DepInv
  <2>3. \A p \in DOMAIN dep :
          Range(dep[p]) = {x \in sat : ~raised /\ p < x /\ kcvars(x) \subseteq kcvars(p)}
    BY <2>1, <2>2 DEF DepInv, PairedOnce
  <2>4. /\ a \in sat /\ b \in sat /\ c \in sat /\ ~raised /\ a < b /\ b < c
        /\ kcvars(b) \subseteq kcvars(a) /\ kcvars(c) \subseteq kcvars(b)
    BY <2>2, <2>3
  <2>5. a < c
    <3>1. a \in Nat /\ b \in Nat /\ c \in Nat
      BY <2>1, <2>4, SatFinite
    <3> QED
      BY <2>4, <3>1
  <2>6. a \in DOMAIN dep /\ c \in Range(dep[a])
    BY <2>2, <2>3, <2>4, <2>5
  <2> QED
    BY <2>2, <2>6
<1> QED
  BY <1>1, UnitInductive, PTL

=============================================================================
