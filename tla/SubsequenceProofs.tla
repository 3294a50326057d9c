------------------------- MODULE SubsequenceProofs -------------------------
(***************************************************************************)
(* Kept is what it says: every element of the kind, once for each of its    *)
(* places, in the order of the list.  And what the operators on lists and   *)
(* finite sets do that the console's proofs keep meeting: folds over sets,  *)
(* sets listed in an order, lists of lists, insertion and removal.          *)
(***************************************************************************)
EXTENDS Subsequence, SequencesExt, FiniteSetTheorems, FunctionTheorems, SequenceTheorems, TLAPS

(***************************************************************************)
(* The members of a set in the order of a sequence.  place[k] is where the  *)
(* k-th of them stands in the sequence.                                     *)
(***************************************************************************)
Places(s, S) == {i \in DOMAIN s : s[i] \in S}
UpTo(s, S, i) == {h \in Places(s, S) : h <= i}

\* The places before one are fewer than those before a later one.
LEMMA UpToGrows ==
  ASSUME NEW T, NEW s \in Seq(T), NEW S, NEW i \in Places(s, S), NEW k \in Places(s, S)
  PROVE  /\ IsFiniteSet(Places(s, S))
         /\ Cardinality(UpTo(s, S, i)) \in 1..Cardinality(Places(s, S))
         /\ i < k => Cardinality(UpTo(s, S, i)) < Cardinality(UpTo(s, S, k))
<1>1. /\ IsFiniteSet(Places(s, S)) /\ Places(s, S) \subseteq Nat
      /\ Cardinality(Places(s, S)) \in Nat
  <2>1. DOMAIN s = 1..Len(s) /\ Len(s) \in Nat
    BY LenProperties
  <2>2. IsFiniteSet(1..Len(s)) /\ Places(s, S) \in SUBSET (1..Len(s))
    BY <2>1, FS_Interval DEF Places
  <2>3. IsFiniteSet(Places(s, S))
    BY <2>2, FS_Subset
  <2> QED BY <2>2, <2>3, FS_CardinalityType
<1>2. ASSUME NEW n \in Places(s, S)
      PROVE  /\ IsFiniteSet(UpTo(s, S, n)) /\ Cardinality(UpTo(s, S, n)) \in Nat \ {0}
             /\ Cardinality(UpTo(s, S, n)) <= Cardinality(Places(s, S))
  <2>1. UpTo(s, S, n) \in SUBSET Places(s, S) /\ n \in UpTo(s, S, n)
    BY <1>1 DEF UpTo
  <2>2. /\ IsFiniteSet(UpTo(s, S, n))
        /\ Cardinality(UpTo(s, S, n)) <= Cardinality(Places(s, S))
    BY <1>1, <2>1, FS_Subset
  <2>3. Cardinality(UpTo(s, S, n)) \in Nat /\ Cardinality(UpTo(s, S, n)) # 0
    BY <2>1, <2>2, FS_CardinalityType, FS_EmptySet
  <2> QED BY <2>2, <2>3
<1>3. ASSUME i < k
      PROVE  Cardinality(UpTo(s, S, i)) < Cardinality(UpTo(s, S, k))
  <2>1. /\ UpTo(s, S, i) \in SUBSET UpTo(s, S, k)
        /\ k \in UpTo(s, S, k) /\ k \notin UpTo(s, S, i)
    BY <1>1, <1>3 DEF UpTo
  <2>2. /\ Cardinality(UpTo(s, S, i)) <= Cardinality(UpTo(s, S, k))
        /\ Cardinality(UpTo(s, S, i)) # Cardinality(UpTo(s, S, k))
    BY <2>1, <1>2, FS_Subset
  <2> QED BY <2>2, <1>2
<1> QED BY <1>1, <1>2, <1>3

\* Kept is the sequence itself at an increasing choice of places, that of all the
\* members (no element is lost, none comes twice, and they keep their order).
LEMMA KeptInOrder ==
  ASSUME NEW T, NEW s \in Seq(T), NEW S
  PROVE  /\ Kept(s, S) \in Seq(T)
         /\ Len(Kept(s, S)) = Cardinality(Places(s, S))
         /\ \E place \in Bijection(1..Len(Kept(s, S)), Places(s, S)) :
              /\ \A k \in DOMAIN place : Kept(s, S)[k] = s[place[k]]
              /\ \A k, l \in DOMAIN place : k < l => place[k] < place[l]
<1> DEFINE at == Places(s, S)
           n == Cardinality(at)
           rank == [i \in at |-> Cardinality(UpTo(s, S, i))]
           place == [k \in 1..n |-> CHOOSE i \in at : Cardinality(UpTo(s, S, i)) = k]
<1>1. IsFiniteSet(at) /\ at \subseteq DOMAIN s /\ n \in Nat /\ at \subseteq Int
  <2>1. DOMAIN s = 1..Len(s) /\ Len(s) \in Nat
    BY LenProperties
  <2>2. IsFiniteSet(1..Len(s)) /\ at \in SUBSET (1..Len(s))
    BY <2>1, FS_Interval DEF Places
  <2>3. IsFiniteSet(at)
    BY <2>2, FS_Subset
  <2> QED BY <2>1, <2>2, <2>3, FS_CardinalityType
<1>2. rank \in Injection(at, 1..n)
  <2>1. rank \in [at -> 1..n]
    BY UpToGrows
  <2>2. ASSUME NEW i \in at, NEW k \in at, rank[i] = rank[k] PROVE i = k
    <3>1. /\ i < k => rank[i] < rank[k]
          /\ k < i => rank[k] < rank[i]
      BY UpToGrows
    <3>2. rank[i] \in Int /\ rank[k] \in Int /\ i \in Int /\ k \in Int
      BY <2>1, <1>1
    <3> QED BY <3>1, <3>2, <2>2
  <2> HIDE DEF rank
  <2> QED BY <2>1, <2>2, Fun_IsInj
<1>3. \A k \in 1..n : \E i \in at : rank[i] = k
  <2>1. IsFiniteSet(1..n) /\ Cardinality(1..n) = n
    BY <1>1, FS_Interval
  <2>2. rank \in Surjection(at, 1..n)
    <3> HIDE DEF rank
    <3> QED BY <1>2, <2>1, FS_Injection
  <2> HIDE DEF rank, n, at
  <2> QED BY ONLY <2>2, Fun_SurjectionProperties
<1>4. \A k \in 1..n : place[k] \in at /\ rank[place[k]] = k
  BY <1>3
<1>5. \A i \in at : rank[i] \in 1..n /\ place[rank[i]] = i
  <2> SUFFICES ASSUME NEW i \in at PROVE rank[i] \in 1..n /\ place[rank[i]] = i
    OBVIOUS
  <2>1. rank[i] \in 1..n
    <3> HIDE DEF rank, n
    <3>1. rank \in [at -> 1..n]
      BY ONLY <1>2, Fun_InjectionProperties
    <3> QED BY <3>1
  <2>2. place[rank[i]] \in at /\ rank[place[rank[i]]] = rank[i]
    BY <1>4, <2>1
  <2> HIDE DEF rank, place
  <2> QED BY <1>2, <2>1, <2>2, Fun_InjectionProperties
<1>6. place \in Bijection(1..n, at)
  <2>1. place \in [1..n -> at]
    BY <1>4
  <2>2. \A k, l \in 1..n : place[k] = place[l] => k = l
    <3> HIDE DEF place, rank
    <3> QED BY <1>4
  <2>3. \A i \in at : \E k \in 1..n : place[k] = i
    <3> HIDE DEF place, rank
    <3> QED BY <1>5
  <2> HIDE DEF place
  <2> QED BY <2>1, <2>2, <2>3, Fun_IsBij
<1>7. \A k, l \in 1..n : k < l => place[k] < place[l]
  <2> SUFFICES ASSUME NEW k \in 1..n, NEW l \in 1..n, k < l PROVE place[k] < place[l]
    OBVIOUS
  <2>1. place[k] \in at /\ place[l] \in at /\ rank[place[k]] = k /\ rank[place[l]] = l
    BY <1>4
  <2>2. /\ place[l] < place[k] => l < k
    BY <2>1, UpToGrows
  <2>3. place[k] # place[l]
    BY <2>1
  <2> QED BY <1>1, <2>1, <2>2, <2>3
<1>8. Kept(s, S) = [k \in 1..n |-> s[place[k]]]
  <2> DEFINE nth(k) == CHOOSE i \in at : Cardinality(UpTo(s, S, i)) = k
  <2>1. Kept(s, S) = [k \in 1..n |-> s[nth(k)]]
    BY DEF Kept, Places, UpTo
  <2>2. \A k \in 1..n : place[k] = nth(k)
    OBVIOUS
  <2> HIDE DEF nth, place, n
  <2> QED BY <2>1, <2>2
<1>9. Kept(s, S) \in Seq(T) /\ Len(Kept(s, S)) = n
  <2>1. \A k \in 1..n : s[place[k]] \in T
    <3> HIDE DEF place
    <3> QED BY <1>1, <1>4, LenProperties
  <2> HIDE DEF place
  <2> QED BY <1>1, <1>8, <2>1
<1>10. DOMAIN place = 1..n
  OBVIOUS
<1> HIDE DEF place
<1> QED BY <1>6, <1>7, <1>8, <1>9, <1>10

\* A bounded set of numbers that is not empty has a greatest and a least one.
LEMMA Extremes ==
  ASSUME NEW n \in Nat, NEW S \in SUBSET (1..n), S # {}
  PROVE  /\ \E i \in S : \A k \in S : i <= k
         /\ \E i \in S : \A k \in S : k <= i
<1> DEFINE s == [i \in 1..n |-> i]
           c == Len(Kept(s, S))
<1>1. s \in Seq(Nat) /\ Places(s, S) = S
  <2>1. \A i \in 1..n : i \in Nat
    OBVIOUS
  <2>2. s \in Seq(Nat) /\ DOMAIN s = 1..n
    OBVIOUS
  <2> QED BY <2>2 DEF Places
<1>2. /\ Kept(s, S) \in Seq(Nat) /\ c = Cardinality(S) /\ IsFiniteSet(S)
      /\ \E place \in Bijection(1..c, S) :
           \A k, l \in DOMAIN place : k < l => place[k] < place[l]
  <2>1. IsFiniteSet(S)
    <3>1. 1 \in Int /\ n \in Int
      OBVIOUS
    <3>2. IsFiniteSet(1..n)
      BY <3>1, FS_Interval
    <3> QED BY <3>2, FS_Subset
  <2> HIDE DEF s
  <2> QED BY <1>1, <2>1, KeptInOrder
<1>3. PICK place \in Bijection(1..c, S) :
        \A k, l \in DOMAIN place : k < l => place[k] < place[l]
  BY <1>2
<1>4. c \in Nat /\ c # 0
  BY <1>2, FS_CardinalityType, FS_EmptySet
<1> HIDE DEF c, s
<1>5. /\ place \in [1..c -> S]
      /\ \A i \in S : \E k \in 1..c : place[k] = i
  <2>1. place \in Bijection(1..c, S)
    BY <1>3
  <2>2. place \in Surjection(1..c, S)
    BY ONLY <2>1, Fun_BijectionProperties
  <2> QED BY <2>2 DEF Surjection
<1>6. place[1] \in S /\ place[c] \in S
  BY <1>4, <1>5
<1>7. \A k \in 1..c : place[1] <= place[k] /\ place[k] <= place[c]
  <2> SUFFICES ASSUME NEW k \in 1..c PROVE place[1] <= place[k] /\ place[k] <= place[c]
    OBVIOUS
  <2>1. place[k] \in Nat /\ place[1] \in Nat /\ place[c] \in Nat
    BY <1>5, <1>6, S \subseteq Nat
  <2>2. 1 < k => place[1] < place[k]
    BY <1>3, <1>4, <1>5
  <2>3. k < c => place[k] < place[c]
    BY <1>3, <1>4, <1>5
  <2> QED BY <1>4, <2>1, <2>2, <2>3
<1>8. \A i \in S : place[1] <= i /\ i <= place[c]
  BY <1>5, <1>7
<1> QED BY <1>6, <1>8

(***************************************************************************)
(* Induction on a bounded number, as a fact about a set: the least number   *)
(* outside of it would have its predecessor inside.                         *)
(***************************************************************************)
LEMMA Upward ==
  ASSUME NEW n \in Nat, NEW S, 0 \in S, \A i \in 1..n : i - 1 \in S => i \in S
  PROVE  0..n \subseteq S
<1> DEFINE T == {i \in 1..n : i \notin S}
<1>1. ASSUME T # {} PROVE FALSE
  <2>1. T \in SUBSET (1..n)
    OBVIOUS
  <2> HIDE DEF T
  <2>2. PICK i \in T : \A k \in T : i <= k
    BY <1>1, <2>1, Extremes
  <2> USE DEF T
  <2>3. i \in 1..n /\ i \notin S
    BY <2>2
  <2>4. i = 1 \/ i - 1 \in 1..n
    BY <2>3
  <2>5. i - 1 \in S
    <3>1. CASE i = 1
      BY <3>1
    <3>2. CASE i # 1
      <4>1. i - 1 \in 1..n /\ ~ (i <= i - 1)
        BY <2>3, <2>4, <3>2
      <4>2. i - 1 \notin T
        BY <2>2, <4>1
      <4> QED BY <4>1, <4>2
    <3> QED BY <3>1, <3>2
  <2> QED BY <2>3, <2>5
<1> QED BY <1>1

\* What is computed step by step along a list, and what a fold computes, which takes the
\* last of a set of places off: both equations have a solution.
Stepwise(f, k, base, step) == f[0] = base /\ \A i \in 1..k : f[i] = step[<<f[i - 1], i>>]
Folded(f, k, base, step) ==
  \A z \in SUBSET (1..k) :
    f[z] = IF z = {} THEN base ELSE step[<<f[z \ {Max(z)}], Max(z)>>]

\* Numbers from 0 to n can be defined one from the one before it.
LEMMA Recursion ==
  ASSUME NEW n \in Nat, NEW A, NEW base \in A, NEW step \in [A \X (1..n) -> A]
  PROVE  \E f \in [0..n -> A] : Stepwise(f, n, base, step)
<1> DEFINE S == {k \in 0..n : \E f \in [0..k -> A] : Stepwise(f, k, base, step)}
<1>1. 0 \in S
  <2> DEFINE g == [i \in 0..0 |-> base]
  <2>1. g \in [0..0 -> A] /\ g[0] = base
    OBVIOUS
  <2>2. Stepwise(g, 0, base, step)
    BY <2>1, 1..0 = {} DEF Stepwise
  <2> HIDE DEF g
  <2> QED BY <2>1, <2>2
<1>2. ASSUME NEW k \in 1..n, k - 1 \in S PROVE k \in S
  <2>1. PICK f \in [0..(k - 1) -> A] : Stepwise(f, k - 1, base, step)
    BY <1>2
  <2> DEFINE x == step[<<f[k - 1], k>>]
             g == [i \in 0..k |-> IF i = k THEN x ELSE f[i]]
  <2>2. f[k - 1] \in A /\ x \in A
    BY <2>1
  <2>3. g \in [0..k -> A]
    BY <2>1, <2>2
  <2>4. g[0] = base
    BY <2>1 DEF Stepwise
  <2>5. ASSUME NEW i \in 1..k PROVE g[i] = step[<<g[i - 1], i>>]
    <3>1. i - 1 \in 0..(k - 1) /\ i \in 0..k /\ i - 1 \in 0..k /\ i - 1 # k
      OBVIOUS
    <3>2. g[i - 1] = f[i - 1]
      BY <3>1
    <3>3. CASE i = k
      BY <3>1, <3>2, <3>3
    <3>4. CASE i # k
      <4>1. i \in 1..(k - 1)
        BY <3>4
      <4>2. g[i] = f[i] /\ f[i] = step[<<f[i - 1], i>>]
        BY <2>1, <3>4, <4>1 DEF Stepwise
      <4> QED BY <3>2, <4>2
    <3> QED BY <3>3, <3>4
  <2>6. k \in 0..n
    OBVIOUS
  <2> HIDE DEF g
  <2>7. Stepwise(g, k, base, step)
    BY <2>4, <2>5 DEF Stepwise
  <2> QED BY <2>3, <2>6, <2>7
<1>3. 0..n \subseteq S
  <2> HIDE DEF S
  <2> QED BY <1>1, <1>2, Upward
<1>4. n \in S
  <2> HIDE DEF S
  <2> QED BY <1>3
<1> QED BY <1>4

\* MapThenFoldSet over the subsets of 1..n, as a function of the subset.
LEMMA Folding ==
  ASSUME NEW n \in Nat, NEW A, NEW base \in A, NEW step \in [A \X (1..n) -> A]
  PROVE  \E f \in [SUBSET (1..n) -> A] : Folded(f, n, base, step)
<1> DEFINE S == {k \in 0..n : \E f \in [SUBSET (1..k) -> A] : Folded(f, k, base, step)}
<1>1. 0 \in S
  <2> DEFINE g == [z \in SUBSET (1..0) |-> base]
  <2>1. g \in [SUBSET (1..0) -> A]
    OBVIOUS
  <2>2. \A z \in SUBSET (1..0) : z = {} /\ g[z] = base
    OBVIOUS
  <2> HIDE DEF g
  <2>3. Folded(g, 0, base, step)
    BY <2>2 DEF Folded
  <2>4. \E f \in [SUBSET (1..0) -> A] : Folded(f, 0, base, step)
    BY <2>1, <2>3, Zenon
  <2>5. 0 \in 0..n
    OBVIOUS
  <2> QED BY <2>4, <2>5
<1>2. ASSUME NEW k \in 1..n, k - 1 \in S PROVE k \in S
  <2>1. PICK f \in [SUBSET (1..(k - 1)) -> A] : Folded(f, k - 1, base, step)
    BY <1>2
  <2> DEFINE g == [z \in SUBSET (1..k) |-> IF k \in z THEN step[<<f[z \ {k}], k>>] ELSE f[z]]
  <2>2. ASSUME NEW z \in SUBSET (1..k)
        PROVE  z \ {k} \in SUBSET (1..(k - 1)) /\ (k \notin z => z \in SUBSET (1..(k - 1)))
    OBVIOUS
  <2>3. g \in [SUBSET (1..k) -> A]
    <3>1. ASSUME NEW z \in SUBSET (1..k)
          PROVE  (IF k \in z THEN step[<<f[z \ {k}], k>>] ELSE f[z]) \in A
      BY <2>1, <2>2
    <3> QED BY <3>1
  <2>4. ASSUME NEW z \in SUBSET (1..k)
        PROVE  g[z] = IF z = {} THEN base ELSE step[<<g[z \ {Max(z)}], Max(z)>>]
    <3>1. CASE k \in z
      <4>1. Max(z) = k
        <5>1. \A y \in z : y <= k /\ y \in Int
          OBVIOUS
        <5>2. \A x \in z : (\A y \in z : x >= y) => x = k
          BY <3>1, <5>1
        <5> QED BY <3>1, <5>1, <5>2 DEF Max
      <4>2. g[z] = step[<<f[z \ {k}], k>>]
        BY <3>1
      <4>3. g[z \ {k}] = f[z \ {k}]
        BY <2>2
      <4> QED BY <3>1, <4>1, <4>2, <4>3
    <3>2. CASE k \notin z
      <4>1. g[z] = f[z] /\ z \in SUBSET (1..(k - 1))
        BY <2>2, <3>2
      <4>2. f[z] = IF z = {} THEN base ELSE step[<<f[z \ {Max(z)}], Max(z)>>]
        BY <2>1, <4>1 DEF Folded
      <4>3. k \notin z \ {Max(z)} /\ z \ {Max(z)} \in SUBSET (1..k)
        BY <3>2
      <4>4. g[z \ {Max(z)}] = f[z \ {Max(z)}]
        BY <4>3
      <4> HIDE DEF g
      <4> QED BY <4>1, <4>2, <4>4
    <3> QED BY <3>1, <3>2
  <2>5. k \in 0..n
    OBVIOUS
  <2> HIDE DEF g
  <2>6. Folded(g, k, base, step)
    BY <2>4 DEF Folded
  <2> QED BY <2>3, <2>5, <2>6
<1>3. 0..n \subseteq S
  <2> HIDE DEF S
  <2> QED BY <1>1, <1>2, Upward
<1>4. n \in S
  <2> HIDE DEF S
  <2> QED BY <1>3
<1> QED BY <1>4

(***************************************************************************)
(* A finite set listed in a total order R, a set of pairs: the member that   *)
(* has k members up to it comes k-th.                                       *)
(***************************************************************************)
Below(S, R, x) == {y \in S : <<y, x>> \in R}
Orders(R, S) ==
  /\ \A x \in S : <<x, x>> \in R
  /\ \A x, y \in S : <<x, y>> \in R \/ <<y, x>> \in R
  /\ \A x, y \in S : <<x, y>> \in R /\ <<y, x>> \in R => x = y
  /\ \A x, y, z \in S : <<x, y>> \in R /\ <<y, z>> \in R => <<x, z>> \in R

\* How many stand at or below a member tells where it stands.
LEMMA BelowGrows ==
  ASSUME NEW S, IsFiniteSet(S), NEW R, Orders(R, S), NEW x \in S, NEW y \in S
  PROVE  /\ Cardinality(S) \in Nat /\ Cardinality(Below(S, R, x)) \in 1..Cardinality(S)
         /\ (<<x, y>> \in R /\ x # y) => Cardinality(Below(S, R, x)) < Cardinality(Below(S, R, y))
<1>1. ASSUME NEW z \in S
      PROVE  /\ IsFiniteSet(Below(S, R, z)) /\ Cardinality(Below(S, R, z)) \in Nat \ {0}
             /\ Cardinality(Below(S, R, z)) <= Cardinality(S) /\ Cardinality(S) \in Nat
  <2>1. Below(S, R, z) \in SUBSET S /\ z \in Below(S, R, z)
    BY DEF Below, Orders
  <2>2. IsFiniteSet(Below(S, R, z)) /\ Cardinality(Below(S, R, z)) <= Cardinality(S)
    BY <2>1, FS_Subset
  <2>3. Cardinality(Below(S, R, z)) \in Nat /\ Cardinality(Below(S, R, z)) # 0
    BY <2>1, <2>2, FS_CardinalityType, FS_EmptySet
  <2> QED BY <2>2, <2>3, FS_CardinalityType
<1>2. ASSUME <<x, y>> \in R, x # y
      PROVE  Cardinality(Below(S, R, x)) < Cardinality(Below(S, R, y))
  <2>1. /\ Below(S, R, x) \in SUBSET Below(S, R, y)
        /\ y \in Below(S, R, y) /\ y \notin Below(S, R, x)
    BY <1>2 DEF Below, Orders
  <2>2. /\ Cardinality(Below(S, R, x)) <= Cardinality(Below(S, R, y))
        /\ Cardinality(Below(S, R, x)) # Cardinality(Below(S, R, y))
    BY <2>1, <1>1, FS_Subset
  <2> QED BY <2>2, <1>1
<1> QED BY <1>1, <1>2

\* Every rank is some member's.
LEMMA Ranks ==
  ASSUME NEW S, IsFiniteSet(S), NEW R, Orders(R, S)
  PROVE  /\ Cardinality(S) \in Nat
         /\ \A k \in 1..Cardinality(S) : \E x \in S : Cardinality(Below(S, R, x)) = k
<1> DEFINE n == Cardinality(S)
           rank == [x \in S |-> Cardinality(Below(S, R, x))]
<1>1. n \in Nat
  BY FS_CardinalityType
<1>2. rank \in Injection(S, 1..n)
  <2>1. rank \in [S -> 1..n]
    BY BelowGrows
  <2>2. ASSUME NEW x \in S, NEW y \in S, rank[x] = rank[y] PROVE x = y
    <3>1. rank[x] \in Int /\ rank[y] \in Int
      BY <2>1
    <3>2. /\ (<<x, y>> \in R /\ x # y) => rank[x] < rank[y]
          /\ (<<y, x>> \in R /\ x # y) => rank[y] < rank[x]
      BY BelowGrows
    <3> HIDE DEF rank
    <3> QED BY <3>1, <3>2, <2>2 DEF Orders
  <2> HIDE DEF rank
  <2> QED BY <2>1, <2>2, Fun_IsInj
<1>3. \A k \in 1..n : \E x \in S : rank[x] = k
  <2>1. IsFiniteSet(1..n) /\ Cardinality(1..n) = n
    BY <1>1, FS_Interval
  <2>2. rank \in Surjection(S, 1..n)
    <3> HIDE DEF rank
    <3> QED BY <1>2, <2>1, FS_Injection
  <2> HIDE DEF rank, n
  <2> QED BY ONLY <2>2, Fun_SurjectionProperties
<1> QED BY <1>1, <1>3

Ranking(r, S, R) ==
  /\ r \in [1..Cardinality(S) -> S]
  /\ \A k \in 1..Cardinality(S) : Cardinality(Below(S, R, r[k])) = k
\* A ranking lists every member, in order.
LEMMA RankedInOrder ==
  ASSUME NEW S, IsFiniteSet(S), NEW R, Orders(R, S), NEW r, Ranking(r, S, R)
  PROVE  /\ r \in Bijection(1..Cardinality(S), S)
         /\ \A k, l \in 1..Cardinality(S) : k < l => <<r[k], r[l]>> \in R /\ r[k] # r[l]
         /\ \A x \in S : \E k \in 1..Cardinality(S) : r[k] = x
<1> USE DEF Ranking
<1> DEFINE n == Cardinality(S)
<1>0. n \in Nat
  BY FS_CardinalityType
<1>1. \A k, l \in 1..n : r[k] = r[l] => k = l
  OBVIOUS
<1>2. \A k, l \in 1..n : k < l => <<r[k], r[l]>> \in R /\ r[k] # r[l]
  <2> SUFFICES ASSUME NEW k \in 1..n, NEW l \in 1..n, k < l PROVE <<r[k], r[l]>> \in R /\ r[k] # r[l]
    OBVIOUS
  <2>1. r[k] \in S /\ r[l] \in S /\ r[k] # r[l]
    BY <1>0, <1>1
  <2>2. (<<r[l], r[k]>> \in R /\ r[l] # r[k]) => l < k
    BY <2>1, BelowGrows
  <2>3. ~ (l < k)
    BY <1>0
  <2> QED BY <2>1, <2>2, <2>3 DEF Orders
<1>3. ASSUME NEW x \in S PROVE \E k \in 1..n : r[k] = x
  <2> DEFINE k == Cardinality(Below(S, R, x))
  <2>1. k \in 1..n
    BY BelowGrows
  <2>2. r[k] \in S /\ Cardinality(Below(S, R, r[k])) = k
    BY <2>1
  <2>3. r[k] = x
    <3>1. /\ (<<x, r[k]>> \in R /\ x # r[k]) => Cardinality(Below(S, R, x)) < Cardinality(Below(S, R, r[k]))
          /\ (<<r[k], x>> \in R /\ x # r[k]) => Cardinality(Below(S, R, r[k])) < Cardinality(Below(S, R, x))
      BY <2>2, BelowGrows
    <3>2. k \in Int
      BY <2>1
    <3> HIDE DEF k
    <3> QED BY <2>2, <3>1, <3>2 DEF Orders, k
  <2> QED BY <2>1, <2>3
<1> HIDE DEF n
<1>4. r \in Bijection(1..n, S)
  <2>1. r \in [1..n -> S]
    BY DEF n
  <2> QED BY <1>1, <1>3, <2>1, Fun_IsBij
<1> QED BY <1>2, <1>3, <1>4 DEF n

\* A set that is enumerated in the order R: its listing is the enumeration.
Enumerates(e, n, S, R) ==
  /\ n \in Nat /\ e \in [1..n -> S]
  /\ \A x \in S : \E k \in 1..n : e[k] = x
  /\ \A k, l \in 1..n : <<e[k], e[l]>> \in R <=> k <= l
\* A list of a set in order is the ranking of the set.
LEMMA Enumerated ==
  ASSUME NEW S, NEW n, NEW e, NEW R, Enumerates(e, n, S, R)
  PROVE  /\ IsFiniteSet(S) /\ Cardinality(S) = n
         /\ \A k \in 1..n : \A x \in S : Cardinality(Below(S, R, x)) = k <=> x = e[k]
<1> USE DEF Enumerates
<1>1. \A k, l \in 1..n : e[k] = e[l] => k = l
  <2> SUFFICES ASSUME NEW k \in 1..n, NEW l \in 1..n, e[k] = e[l] PROVE k = l
    OBVIOUS
  <2>1. <<e[k], e[l]>> \in R /\ <<e[l], e[k]>> \in R
    <3>1. <<e[k], e[k]>> \in R
      OBVIOUS
    <3> QED BY <3>1
  <2>2. k <= l /\ l <= k
    BY <2>1
  <2> QED BY <2>2
<1>2. ASSUME NEW m \in 0..n PROVE LET T == {e[k] : k \in 1..m} IN IsFiniteSet(T) /\ Cardinality(T) = m
  <2> DEFINE T == {e[k] : k \in 1..m}
             f == [k \in 1..m |-> e[k]]
  <2>1. \A k \in 1..m : k \in 1..n
    OBVIOUS
  <2>2. f \in [1..m -> T]
    BY <2>1
  <2>3. \A k, l \in 1..m : f[k] = f[l] => k = l
    BY <1>1, <2>1
  <2>4. \A x \in T : \E k \in 1..m : f[k] = x
    OBVIOUS
  <2>5. m \in Nat
    OBVIOUS
  <2> HIDE DEF f, T
  <2>6. ExistsBijection(1..m, T)
    BY <2>2, <2>3, <2>4, Fun_IsBij DEF ExistsBijection
  <2>7. IsFiniteSet(T) /\ Cardinality(T) = m
    BY <2>5, <2>6, FS_CountingElements, FS_NatBijection
  <2> QED BY <2>7 DEF T
<1>3. S = {e[k] : k \in 1..n}
  OBVIOUS
<1>4. IsFiniteSet(S) /\ Cardinality(S) = n
  <2>1. n \in 0..n
    OBVIOUS
  <2> QED BY <1>2, <1>3, <2>1
<1>5. ASSUME NEW l \in 1..n PROVE Cardinality(Below(S, R, e[l])) = l
  <2>1. Below(S, R, e[l]) = {e[k] : k \in 1..l}
    <3>1. \A k \in 1..n : <<e[k], e[l]>> \in R <=> k \in 1..l
      OBVIOUS
    <3>2. 1..l \subseteq 1..n
      OBVIOUS
    <3> QED BY <1>3, <3>1, <3>2 DEF Below
  <2>2. l \in 0..n
    OBVIOUS
  <2> QED BY <1>2, <2>1, <2>2
<1>6. ASSUME NEW k \in 1..n, NEW x \in S PROVE Cardinality(Below(S, R, x)) = k <=> x = e[k]
  <2>1. PICK l \in 1..n : e[l] = x
    OBVIOUS
  <2> QED BY <1>5, <2>1
<1> QED BY <1>4, <1>6

(***************************************************************************)
(* Folds over the first numbers, one number at a time.                      *)
(***************************************************************************)
LEMMA Top ==
  ASSUME NEW n \in Nat, NEW i \in 1..n
  PROVE  /\ Max(1..i) = i /\ (1..i) \ {i} = 1..(i - 1) /\ 1..i # {}
         /\ 1..i \in SUBSET (1..n) /\ 1..(i - 1) \in SUBSET (1..n)
<1>1. i \in 1..i /\ \A x \in 1..i : i >= x
  OBVIOUS
<1>2. \A x \in 1..i : (\A y \in 1..i : x >= y) => x = i
  BY <1>1
<1>3. Max(1..i) = i
  BY <1>1, <1>2 DEF Max
<1> QED BY <1>1, <1>3

\* A fold over naturals is their running sum.
LEMMA Summed ==
  ASSUME NEW n \in Nat, NEW s \in [1..n -> Nat]
  PROVE  \E sum \in [0..n -> Nat] :
           /\ sum[0] = 0 /\ \A i \in 1..n : sum[i] = sum[i - 1] + s[i]
           /\ FoldLeft(+, 0, s) = sum[n]
<1> DEFINE step == [p \in Nat \X (1..n) |-> p[1] + s[p[2]]]
           Good(iter) == iter = [z \in SUBSET (1..n) |->
                                   IF z = {} THEN 0 ELSE iter[z \ {Max(z)}] + s[Max(z)]]
           it == CHOOSE iter : Good(iter)
<1>1. FoldLeft(+, 0, s) = it[1..n]
  BY DEF FoldLeft, MapThenFoldSet
<1>2. \E f : Good(f)
  <2>1. step \in [Nat \X (1..n) -> Nat]
    OBVIOUS
  <2>2. PICK f \in [SUBSET (1..n) -> Nat] : Folded(f, n, 0, step)
    <3> HIDE DEF step
    <3> QED BY <2>1, Folding
  <2>3. ASSUME NEW z \in SUBSET (1..n), z # {}
        PROVE  f[z] = f[z \ {Max(z)}] + s[Max(z)]
    <3>1. Max(z) \in z
      <4>1. PICK x \in z : \A y \in z : y <= x
        BY <2>3, Extremes
      <4>2. \A y \in z : x >= y
        BY <4>1
      <4> QED BY <4>2 DEF Max
    <3>2. f[z] = step[<<f[z \ {Max(z)}], Max(z)>>] /\ z \ {Max(z)} \in SUBSET (1..n) /\ Max(z) \in 1..n
      <4> HIDE DEF step
      <4> QED BY <2>2, <2>3, <3>1 DEF Folded
    <3> QED BY <3>2
  <2>4. f[{}] = 0 /\ {} \in SUBSET (1..n)
    BY <2>2 DEF Folded
  <2>5. Good(f)
    <3> HIDE DEF step
    <3> QED BY <2>3, <2>4
  <2> QED BY <2>5
<1>3. Good(it)
  <2> HIDE DEF Good
  <2> QED BY <1>2
<1> DEFINE sum == [i \in 0..n |-> it[1..i]]
<1>4. sum[0] = 0
  <2>1. 1..0 = {} /\ {} \in SUBSET (1..n) /\ 0 \in 0..n
    OBVIOUS
  <2>2. it[{}] = 0
    <3> HIDE DEF it
    <3> QED BY <1>3
  <2> HIDE DEF it
  <2> QED BY <2>1, <2>2
<1>5. ASSUME NEW i \in 1..n PROVE sum[i] = sum[i - 1] + s[i]
  <2>1. it[1..i] = it[1..(i - 1)] + s[i]
    <3> HIDE DEF it
    <3>1. it[1..i] = it[(1..i) \ {Max(1..i)}] + s[Max(1..i)]
      <4>1. 1..i \in SUBSET (1..n) /\ 1..i # {}
        BY Top
      <4> QED BY <1>3, <4>1
    <3> QED BY <3>1, Top
  <2> HIDE DEF it
  <2> QED BY <2>1
<1>6. sum \in [0..n -> Nat]
  <2> DEFINE S == {i \in 0..n : sum[i] \in Nat}
  <2>1. 0 \in S
    <3> HIDE DEF it, sum
    <3> QED BY <1>4
  <2>2. \A i \in 1..n : i - 1 \in S => i \in S
    <3> HIDE DEF it, sum
    <3> QED BY <1>5
  <2>3. 0..n \subseteq S
    <3> HIDE DEF S
    <3> QED BY <2>1, <2>2, Upward
  <2>4. DOMAIN sum = 0..n /\ sum = [i \in 0..n |-> sum[i]]
    OBVIOUS
  <2> HIDE DEF it, sum
  <2> QED BY <2>3, <2>4
<1>7. it[1..n] = sum[n]
  OBVIOUS
<1> HIDE DEF it, sum
<1> QED BY <1>1, <1>4, <1>5, <1>6, <1>7

\* A sum of naturals is a natural, and more than nothing when it has terms that are.
LEMMA SumBounds ==
  ASSUME NEW s \in Seq(Nat)
  PROVE  /\ FoldLeft(+, 0, s) \in Nat
         /\ s = <<>> => FoldLeft(+, 0, s) = 0
         /\ (s # <<>> /\ \A i \in DOMAIN s : s[i] > 0) => FoldLeft(+, 0, s) > 0
<1> DEFINE n == Len(s)
<1>1. n \in Nat /\ s \in [1..n -> Nat] /\ (s = <<>> <=> n = 0) /\ DOMAIN s = 1..n
  BY LenProperties, EmptySeq
<1>2. PICK sum \in [0..n -> Nat] : /\ sum[0] = 0 /\ \A i \in 1..n : sum[i] = sum[i - 1] + s[i]
                                  /\ FoldLeft(+, 0, s) = sum[n]
  <2> HIDE DEF n
  <2> QED BY <1>1, Summed
<1> HIDE DEF n
<1>3. ASSUME n # 0, \A i \in 1..n : s[i] > 0 PROVE sum[n] > 0
  <2>1. n \in 1..n /\ n - 1 \in 0..n
    BY <1>1, <1>3
  <2>2. sum[n] = sum[n - 1] + s[n] /\ s[n] > 0 /\ s[n] \in Nat /\ sum[n - 1] \in Nat
    BY <1>1, <1>2, <1>3, <2>1
  <2> QED BY <2>2
<1> DEFINE total == FoldLeft(+, 0, s)
<1>4. total = sum[n] /\ sum[n] \in Nat /\ (n = 0 => sum[n] = 0)
  <2>1. sum[n] \in Nat /\ (n = 0 => sum[n] = 0)
    <3>1. n \in 0..n
      BY <1>1
    <3> QED BY <1>2, <3>1
  <2>2. total = sum[n]
    BY <1>2, Zenon
  <2> QED BY <2>1, <2>2
<1> HIDE DEF total
<1>5. /\ total \in Nat
      /\ s = <<>> => total = 0
      /\ (s # <<>> /\ \A i \in DOMAIN s : s[i] > 0) => total > 0
  BY <1>1, <1>3, <1>4
<1> QED BY <1>5 DEF total

(***************************************************************************)
(* A list of lists made one list.                                           *)
(***************************************************************************)
\* A list p goes through the elements of a list of lists, each at its place once.
Located(p, ss) ==
  \E at \in [DOMAIN p -> Nat \X Nat] :
    /\ \A k \in DOMAIN p : /\ at[k][1] \in DOMAIN ss /\ at[k][2] \in DOMAIN ss[at[k][1]]
                           /\ p[k] = ss[at[k][1]][at[k][2]]
    /\ \A k, l \in DOMAIN p : at[k] = at[l] => k = l
    /\ \A i \in DOMAIN ss : \A j \in DOMAIN ss[i] : \E k \in DOMAIN p : at[k] = <<i, j>>

\* One more list at the end.
LEMMA LocatedMore ==
  ASSUME NEW T, NEW ss \in Seq(Seq(T)), NEW i \in 1..Len(ss), NEW p \in Seq(T),
         Located(p, SubSeq(ss, 1, i - 1))
  PROVE  Located(p \o ss[i], SubSeq(ss, 1, i))
<1> DEFINE q == p \o ss[i]
           m == Len(p)
           head == SubSeq(ss, 1, i - 1)
           more == SubSeq(ss, 1, i)
<1>1. /\ i \in Nat /\ ss[i] \in Seq(T) /\ m \in Nat /\ DOMAIN p = 1..m
      /\ Len(ss[i]) \in Nat /\ DOMAIN ss[i] = 1..Len(ss[i])
      /\ DOMAIN q = 1..(m + Len(ss[i]))
      /\ \A k \in 1..m : q[k] = p[k]
      /\ \A j \in 1..Len(ss[i]) : q[m + j] = ss[i][j]
  BY ElementOfSeq, LenProperties
<1>2. /\ DOMAIN head = 1..(i - 1) /\ DOMAIN more = 1..i
      /\ \A h \in 1..(i - 1) : head[h] = ss[h] /\ more[h] = ss[h]
      /\ more[i] = ss[i]
  BY LenProperties
<1>3. PICK at \in [DOMAIN p -> Nat \X Nat] :
        /\ \A k \in DOMAIN p : /\ at[k][1] \in DOMAIN head /\ at[k][2] \in DOMAIN head[at[k][1]]
                               /\ p[k] = head[at[k][1]][at[k][2]]
        /\ \A k, l \in DOMAIN p : at[k] = at[l] => k = l
        /\ \A h \in DOMAIN head : \A j \in DOMAIN head[h] : \E k \in DOMAIN p : at[k] = <<h, j>>
  BY DEF Located
<1> HIDE DEF q, m, head, more
<1> DEFINE to == [k \in DOMAIN q |-> IF k <= m THEN at[k] ELSE <<i, k - m>>]
<1>4. ASSUME NEW k \in DOMAIN q
      PROVE  \/ k \in 1..m /\ to[k] = at[k] /\ to[k][1] \in 1..(i - 1) /\ q[k] = p[k]
             \/ k \notin 1..m /\ k - m \in 1..Len(ss[i]) /\ to[k] = <<i, k - m>> /\ q[k] = ss[i][k - m]
  <2>1. CASE k <= m
    BY <1>1, <1>2, <1>3, <2>1
  <2>2. CASE ~ (k <= m)
    <3>1. k - m \in 1..Len(ss[i]) /\ m + (k - m) = k
      BY <1>1, <2>2
    <3> QED BY <1>1, <2>2, <3>1, SMTT(30)
  <2> QED BY <2>1, <2>2
<1>5. to \in [DOMAIN q -> Nat \X Nat]
  <2>1. \A k \in DOMAIN q : to[k] \in Nat \X Nat
    <3> SUFFICES ASSUME NEW k \in DOMAIN q PROVE to[k] \in Nat \X Nat
      OBVIOUS
    <3> HIDE DEF to
    <3>1. CASE k \in 1..m
      <4>1. at[k] \in Nat \X Nat
        BY <1>1, <3>1
      <4> QED BY <1>4, <3>1, <4>1
    <3>2. CASE k \notin 1..m
      <4>1. k - m \in Nat /\ to[k] = <<i, k - m>>
        BY <1>1, <1>4, <3>2
      <4> QED BY <1>1, <4>1
    <3> QED BY <3>1, <3>2
  <2> QED BY <2>1
<1>6. ASSUME NEW k \in DOMAIN q
      PROVE  to[k][1] \in DOMAIN more /\ to[k][2] \in DOMAIN more[to[k][1]] /\ q[k] = more[to[k][1]][to[k][2]]
  <2> HIDE DEF to
  <2>1. CASE k \in 1..m /\ to[k] = at[k] /\ to[k][1] \in 1..(i - 1) /\ q[k] = p[k]
    <3>1. more[to[k][1]] = head[to[k][1]]
      <4>1. \A h \in 1..(i - 1) : more[h] = head[h]
        BY <1>2
      <4> QED BY <2>1, <4>1
    <3>2. to[k][1] \in 1..i
      BY <1>1, <2>1, SMTT(30)
    <3> QED BY <1>1, <1>2, <1>3, <2>1, <3>1, <3>2
  <2>2. CASE k \notin 1..m /\ k - m \in 1..Len(ss[i]) /\ to[k] = <<i, k - m>> /\ q[k] = ss[i][k - m]
    <3>1. i \in 1..i
      BY <1>1
    <3> QED BY <1>1, <1>2, <2>2, <3>1
  <2> QED BY <1>4, <2>1, <2>2
<1>7. ASSUME NEW k \in DOMAIN q, NEW l \in DOMAIN q, to[k] = to[l] PROVE k = l
  <2> HIDE DEF to
  <2>0. k \in Int /\ l \in Int /\ m \in Int
    BY <1>1
  <2>1. CASE k \in 1..m /\ l \in 1..m
    <3>1. at[k] = at[l]
      BY <1>4, <1>7, <2>1
    <3> QED BY ONLY <1>1, <1>3, <2>1, <3>1
  <2>2. CASE k \notin 1..m /\ l \notin 1..m
    <3>1. k - m = l - m
      BY <1>4, <1>7, <2>2
    <3> QED BY <2>0, <3>1
  <2>3. CASE k \in 1..m /\ l \notin 1..m
    <3>1. to[k][1] \in 1..(i - 1) /\ to[l][1] = i
      BY <1>4, <2>3
    <3> QED BY <1>1, <1>7, <3>1
  <2>4. CASE k \notin 1..m /\ l \in 1..m
    <3>1. to[l][1] \in 1..(i - 1) /\ to[k][1] = i
      BY <1>4, <2>4
    <3> QED BY <1>1, <1>7, <3>1
  <2> QED BY <2>1, <2>2, <2>3, <2>4
<1>8. ASSUME NEW h \in DOMAIN more, NEW j \in DOMAIN more[h] PROVE \E k \in DOMAIN q : to[k] = <<h, j>>
  <2>1. CASE h # i
    <3>1. h \in 1..(i - 1)
      <4>1. h \in 1..i /\ i \in Nat
        BY ONLY <1>1, <1>2, h \in DOMAIN more
      <4> QED BY ONLY <2>1, <4>1
    <3>2. h \in DOMAIN head /\ j \in DOMAIN head[h]
      BY <1>2, <1>8, <3>1
    <3>3. PICK k \in DOMAIN p : at[k] = <<h, j>>
      BY <1>3, <3>2
    <3>4. k \in DOMAIN q /\ k <= m
      BY <1>1, <3>3, SMTT(30)
    <3> QED BY <3>3, <3>4
  <2>2. CASE h = i
    <3>1. j \in 1..Len(ss[i])
      BY <1>1, <1>2, <1>8, <2>2
    <3>2. m + j \in DOMAIN q /\ ~ (m + j <= m) /\ (m + j) - m = j
      BY <1>1, <3>1
    <3>3. to[m + j] = <<i, j>>
      BY <3>2
    <3> QED BY <2>2, <3>2, <3>3
  <2> QED BY <2>1, <2>2
<1> HIDE DEF to
<1>9. \E at2 \in [DOMAIN q -> Nat \X Nat] :
    /\ \A k \in DOMAIN q : /\ at2[k][1] \in DOMAIN more /\ at2[k][2] \in DOMAIN more[at2[k][1]]
                           /\ q[k] = more[at2[k][1]][at2[k][2]]
    /\ \A k, l \in DOMAIN q : at2[k] = at2[l] => k = l
    /\ \A h \in DOMAIN more : \A j \in DOMAIN more[h] : \E k \in DOMAIN q : at2[k] = <<h, j>>
  BY <1>5, <1>6, <1>7, <1>8
<1> QED BY <1>9 DEF Located, q, more

\* A list of lists made one list has every element, at its place.
LEMMA Flattened ==
  ASSUME NEW T, NEW ss \in Seq(Seq(T))
  PROVE  FlattenSeq(ss) \in Seq(T) /\ Located(FlattenSeq(ss), ss)
<1> DEFINE n == Len(ss)
<1>1. n \in Nat /\ DOMAIN ss = 1..n /\ ss \in [1..n -> Seq(T)]
  BY LenProperties
<1>2. CASE n = 0
  <2>1. ss = <<>>
    BY <1>2, EmptySeq
  <2>2. FlattenSeq(ss) = ss
    BY <1>2 DEF FlattenSeq
  <2>3. <<>> \in Seq(T)
    BY EmptySeq
  <2>4. [k \in DOMAIN <<>> |-> <<0, 0>>] \in [DOMAIN <<>> -> Nat \X Nat]
    OBVIOUS
  <2>5. DOMAIN <<>> = {}
    OBVIOUS
  <2>6. Located(<<>>, <<>>)
    BY <2>4, <2>5 DEF Located
  <2> QED BY <2>1, <2>2, <2>3, <2>6
<1>3. CASE n # 0
  <2> DEFINE Good(f) == f = [i \in 1..n |-> IF i = 1 THEN ss[i] ELSE f[i - 1] \o ss[i]]
             flatten == CHOOSE f : Good(f)
  <2>1. FlattenSeq(ss) = flatten[n]
    BY <1>3 DEF FlattenSeq
  <2>2. \E f : Good(f)
    <3> DEFINE step == [p \in Seq(T) \X (1..n) |-> p[1] \o ss[p[2]]]
    <3>1. step \in [Seq(T) \X (1..n) -> Seq(T)] /\ <<>> \in Seq(T)
      <4>1. \A p \in Seq(T) \X (1..n) : p[1] \o ss[p[2]] \in Seq(T)
        BY <1>1, ConcatProperties
      <4>2. <<>> \in Seq(T)
        BY EmptySeq
      <4> QED BY <4>1, <4>2
    <3>2. PICK g \in [0..n -> Seq(T)] : Stepwise(g, n, <<>>, step)
      <4> HIDE DEF step, n
      <4> QED BY <1>1, <3>1, Recursion
    <3> DEFINE f == [i \in 1..n |-> g[i]]
    <3>3. ASSUME NEW i \in 1..n PROVE f[i] = IF i = 1 THEN ss[i] ELSE f[i - 1] \o ss[i]
      <4>0. i - 1 \in 0..n
        BY <1>1
      <4>1. g[i] = step[<<g[i - 1], i>>] /\ g[0] = <<>>
        <5> HIDE DEF step, n
        <5> QED BY <3>2 DEF Stepwise
      <4>2. g[i] = g[i - 1] \o ss[i]
        BY <3>2, <4>0, <4>1
      <4>3. CASE i = 1
        <5>1. ss[i] \in Seq(T)
          BY <1>1
        <5>2. <<>> \o ss[i] = ss[i]
          BY <5>1, ConcatEmptySeq
        <5>3. f[i] = g[i] /\ g[i] = <<>> \o ss[i]
          <6>1. i - 1 = 0
            BY <4>3
          <6>2. g[i] = <<>> \o ss[i]
            BY <4>1, <4>2, <6>1, Zenon
          <6> QED BY <6>2
        <5> HIDE DEF f
        <5> QED BY <4>3, <5>2, <5>3
      <4>4. CASE i # 1
        <5>1. i - 1 \in 1..n
          BY <1>1, <4>4
        <5> QED BY <4>2, <4>4, <5>1
      <4> QED BY <4>3, <4>4
    <3>4. Good(f)
      <4>1. f = [i \in 1..n |-> f[i]]
        OBVIOUS
      <4> HIDE DEF f, n
      <4> QED BY <3>3, <4>1
    <3> QED BY <3>4
  <2>3. Good(flatten)
    <3> HIDE DEF Good
    <3> QED BY <2>2
  <2> HIDE DEF flatten
  <2> DEFINE S == {i \in 0..n : i = 0 \/ (flatten[i] \in Seq(T) /\ Located(flatten[i], SubSeq(ss, 1, i)))}
  <2>4. ASSUME NEW i \in 1..n, i - 1 \in S PROVE i \in S
    <3>0. i \in 0..n
      OBVIOUS
    <3>1. CASE i = 1
      <4>1. flatten[i] = ss[i] /\ ss[i] \in Seq(T) /\ i \in 1..Len(ss)
        BY <1>1, <2>3, <3>1
      <4>2. <<>> \in Seq(T) /\ <<>> \o ss[i] = ss[i] /\ SubSeq(ss, 1, i - 1) = <<>>
        BY <3>1, <4>1, EmptySeq, ConcatEmptySeq
      <4>3. Located(<<>>, <<>>)
        <5>1. [k \in DOMAIN <<>> |-> <<0, 0>>] \in [DOMAIN <<>> -> Nat \X Nat]
          OBVIOUS
        <5>2. DOMAIN <<>> = {}
          OBVIOUS
        <5> QED BY <5>1, <5>2 DEF Located
      <4>4. Located(<<>> \o ss[i], SubSeq(ss, 1, i))
        <5> HIDE DEF n
        <5> QED BY <4>1, <4>2, <4>3, LocatedMore
      <4> HIDE DEF n
      <4> QED BY <3>0, <4>1, <4>2, <4>4
    <3>2. CASE i # 1
      <4>0. i \in 1..Len(ss)
        OBVIOUS
      <4> HIDE DEF n
      <4>1. flatten[i] = flatten[i - 1] \o ss[i] /\ ss[i] \in Seq(T)
        BY <1>1, <2>3, <3>2
      <4>2. flatten[i - 1] \in Seq(T) /\ Located(flatten[i - 1], SubSeq(ss, 1, i - 1))
        BY <1>1, <2>4, <3>2
      <4>3. Located(flatten[i - 1] \o ss[i], SubSeq(ss, 1, i))
        BY <4>0, <4>2, LocatedMore
      <4>4. flatten[i - 1] \o ss[i] \in Seq(T)
        BY <4>1, <4>2, ConcatProperties
      <4> QED BY <3>0, <4>1, <4>3, <4>4
    <3> QED BY <3>1, <3>2
  <2>5. 0..n \subseteq S
    <3>1. 0 \in S
      BY <1>1
    <3> HIDE DEF S, n
    <3> QED BY <1>1, <2>4, <3>1, Upward
  <2>6. flatten[n] \in Seq(T) /\ Located(flatten[n], SubSeq(ss, 1, n))
    <3>1. n \in S
      <4> HIDE DEF S
      <4> QED BY <1>1, <2>5
    <3> QED BY <1>3, <3>1
  <2>7. SubSeq(ss, 1, n) = ss
    BY SubSeqFull
  <2> QED BY <2>1, <2>6, <2>7
<1> QED BY <1>2, <1>3

(***************************************************************************)
(* Parts of lists, and lists with one element more, less or elsewhere.      *)
(***************************************************************************)
\* What is kept of a list is what it has of the kind.
LEMMA KeptMembers ==
  ASSUME NEW T, NEW s \in Seq(T), NEW S
  PROVE  /\ Kept(s, S) \in Seq(T) /\ Kept(s, S) \in Seq(T \cap S)
         /\ ToSet(Kept(s, S)) = ToSet(s) \cap S
         /\ Len(Kept(s, S)) <= Len(s)
<1> DEFINE r == Kept(s, S)
           n == Len(r)
<1>1. /\ r \in Seq(T) /\ n = Cardinality(Places(s, S))
      /\ \E place \in Bijection(1..n, Places(s, S)) :
           \A k \in DOMAIN place : r[k] = s[place[k]]
  <2> HIDE DEF r
  <2> QED BY KeptInOrder DEF r
<1> HIDE DEF r
<1>2. PICK place \in Bijection(1..n, Places(s, S)) : \A k \in DOMAIN place : r[k] = s[place[k]]
  BY <1>1
<1>3. DOMAIN s = 1..Len(s) /\ Len(s) \in Nat /\ DOMAIN r = 1..n /\ n \in Nat /\ \A i \in DOMAIN s : s[i] \in T
  BY <1>1, LenProperties
<1> HIDE DEF n
<1>4. place \in [1..n -> Places(s, S)] /\ \A i \in Places(s, S) : \E k \in 1..n : place[k] = i
  <2>1. place \in Surjection(1..n, Places(s, S))
    BY ONLY <1>2, Fun_BijectionProperties
  <2> QED BY <2>1 DEF Surjection
<1>5. \A k \in 1..n : place[k] \in DOMAIN s /\ r[k] = s[place[k]] /\ r[k] \in S /\ r[k] \in T
  BY <1>2, <1>3, <1>4 DEF Places
<1>6. r \in Seq(T \cap S)
  <2>1. r \in [1..n -> T \cap S]
    <3>1. r \in [1..n -> T]
      BY <1>1, LenProperties DEF n
    <3> QED BY <1>5, <3>1
  <2> QED BY <1>3, <2>1, SeqDef
<1>7. ToSet(r) = ToSet(s) \cap S
  <2>1. ASSUME NEW x \in ToSet(r) PROVE x \in ToSet(s) \cap S
    <3>1. PICK k \in 1..n : x = r[k]
      BY <1>3 DEF ToSet
    <3> QED BY <1>5, <3>1 DEF ToSet
  <2>2. ASSUME NEW x \in ToSet(s), x \in S PROVE x \in ToSet(r)
    <3>1. PICK i \in DOMAIN s : x = s[i]
      BY DEF ToSet
    <3>2. i \in Places(s, S)
      BY <2>2, <3>1 DEF Places
    <3>3. PICK k \in 1..n : place[k] = i
      BY <1>4, <3>2
    <3> QED BY <1>3, <1>5, <3>1, <3>3 DEF ToSet
  <2> QED BY <2>1, <2>2
<1>8. n <= Len(s)
  <2>1. IsFiniteSet(1..Len(s)) /\ Cardinality(1..Len(s)) = Len(s)
    <3>1. 1 \in Int /\ Len(s) \in Int
      BY <1>3
    <3>2. IsFiniteSet(1..Len(s)) /\ Cardinality(1..Len(s)) = IF 1 > Len(s) THEN 0 ELSE Len(s) - 1 + 1
      BY <3>1, FS_Interval
    <3> QED BY <1>3, <3>2
  <2>2. Places(s, S) \in SUBSET (1..Len(s))
    BY <1>3 DEF Places
  <2> QED BY <1>1, <2>1, <2>2, FS_Subset DEF n
<1> QED BY <1>1, <1>6, <1>7, <1>8 DEF r, n

\* Inserting, exchanging and removing keep a list of T a list of T.
LEMMA InsertedAt ==
  ASSUME NEW T, NEW s \in Seq(T), NEW x \in T, NEW i \in 1..(Len(s) + 1)
  PROVE  InsertAt(s, i, x) \in Seq(T) /\ Len(InsertAt(s, i, x)) = Len(s) + 1
<1>1. Len(s) \in Nat /\ i \in Int /\ \A k \in 1..Len(s) : s[k] \in T
  BY LenProperties, ElementOfSeq
<1>2. SubSeq(s, 1, i - 1) \in Seq(T) /\ Len(SubSeq(s, 1, i - 1)) = i - 1
  <2>1. \A k \in 1..(i - 1) : s[k] \in T
    BY <1>1
  <2>2. Len(SubSeq(s, 1, i - 1)) = IF 1 <= i - 1 THEN (i - 1) - 1 + 1 ELSE 0
    BY <1>1, <2>1, SubSeqProperties
  <2> QED BY <1>1, <2>1, <2>2, SubSeqProperties
<1>3. SubSeq(s, i, Len(s)) \in Seq(T) /\ Len(SubSeq(s, i, Len(s))) = Len(s) - i + 1
  <2>1. \A k \in i..Len(s) : s[k] \in T
    BY <1>1
  <2>2. Len(SubSeq(s, i, Len(s))) = IF i <= Len(s) THEN Len(s) - i + 1 ELSE 0
    BY <1>1, <2>1, SubSeqProperties
  <2> QED BY <1>1, <2>1, <2>2, SubSeqProperties
<1> DEFINE a == SubSeq(s, 1, i - 1)
           b == <<x>>
           c == SubSeq(s, i, Len(s))
<1>4. a \in Seq(T) /\ b \in Seq(T) /\ c \in Seq(T) /\ Len(a) = i - 1 /\ Len(b) = 1 /\ Len(c) = Len(s) - i + 1
  BY <1>2, <1>3
<1>5. InsertAt(s, i, x) = a \o b \o c
  BY DEF InsertAt
<1> HIDE DEF a, b, c
<1>6. a \o b \in Seq(T) /\ Len(a \o b) = Len(a) + Len(b)
  BY <1>4, ConcatProperties
<1>7. (a \o b) \o c \in Seq(T) /\ Len((a \o b) \o c) = Len(a \o b) + Len(c)
  BY <1>4, <1>6, ConcatProperties
<1> QED BY <1>1, <1>4, <1>5, <1>6, <1>7

LEMMA Exchanged ==
  ASSUME NEW T, NEW s \in Seq(T), NEW i \in DOMAIN s, NEW k \in DOMAIN s
  PROVE  /\ [s EXCEPT ![i] = s[k], ![k] = s[i]] \in Seq(T)
         /\ Len([s EXCEPT ![i] = s[k], ![k] = s[i]]) = Len(s)
<1>1. DOMAIN s = 1..Len(s) /\ s[i] \in T /\ s[k] \in T
  BY LenProperties
<1> DEFINE r == [s EXCEPT ![i] = s[k]]
<1>2. r \in Seq(T) /\ Len(r) = Len(s)
  BY <1>1, ExceptSeq
<1>3. [s EXCEPT ![i] = s[k], ![k] = s[i]] = [r EXCEPT ![k] = s[i]]
  OBVIOUS
<1> HIDE DEF r
<1>4. [r EXCEPT ![k] = s[i]] \in Seq(T) /\ Len([r EXCEPT ![k] = s[i]]) = Len(r)
  BY <1>1, <1>2, ExceptSeq
<1> QED BY <1>2, <1>3, <1>4

LEMMA Removed ==
  ASSUME NEW T, NEW s \in Seq(T), NEW i \in 1..Len(s)
  PROVE  RemoveAt(s, i) \in Seq(T) /\ Len(RemoveAt(s, i)) = Len(s) - 1
<1>1. Len(s) \in Nat /\ i \in Int /\ \A k \in 1..Len(s) : s[k] \in T
  BY LenProperties, ElementOfSeq
<1>2. SubSeq(s, 1, i - 1) \in Seq(T) /\ Len(SubSeq(s, 1, i - 1)) = i - 1
  <2>1. \A k \in 1..(i - 1) : s[k] \in T
    BY <1>1
  <2>2. Len(SubSeq(s, 1, i - 1)) = IF 1 <= i - 1 THEN (i - 1) - 1 + 1 ELSE 0
    BY <1>1, <2>1, SubSeqProperties
  <2> QED BY <1>1, <2>1, <2>2, SubSeqProperties
<1>3. SubSeq(s, i + 1, Len(s)) \in Seq(T) /\ Len(SubSeq(s, i + 1, Len(s))) = Len(s) - i
  <2>1. \A k \in (i + 1)..Len(s) : s[k] \in T
    BY <1>1
  <2>2. Len(SubSeq(s, i + 1, Len(s))) = IF i + 1 <= Len(s) THEN Len(s) - (i + 1) + 1 ELSE 0
    BY <1>1, <2>1, SubSeqProperties
  <2> QED BY <1>1, <2>1, <2>2, SubSeqProperties
<1> DEFINE a == SubSeq(s, 1, i - 1)
           b == SubSeq(s, i + 1, Len(s))
<1>4. a \in Seq(T) /\ b \in Seq(T) /\ Len(a) = i - 1 /\ Len(b) = Len(s) - i /\ RemoveAt(s, i) = a \o b
  BY <1>2, <1>3 DEF RemoveAt
<1> HIDE DEF a, b
<1>5. a \o b \in Seq(T) /\ Len(a \o b) = Len(a) + Len(b)
  BY <1>4, ConcatProperties
<1> QED BY <1>1, <1>4, <1>5

(***************************************************************************)
(* A left fold whose function is known one step at a time.                  *)
(***************************************************************************)
Unrolled(it, n, A, base, step) ==
  /\ n \in Nat /\ base \in A /\ step \in [A \X (1..n) -> A] /\ it[{}] = base
  /\ \A i \in 1..n : it[1..(i - 1)] \in A => it[1..i] = step[<<it[1..(i - 1)], i>>]
Walks(it, n, A, base, step) ==
  \E f \in [0..n -> A] : Stepwise(f, n, base, step) /\ f[n] = it[1..n]
\* Such a fold is the last of a walk.
LEMMA Walked ==
  ASSUME NEW n, NEW A, NEW base, NEW step, NEW it, Unrolled(it, n, A, base, step)
  PROVE  Walks(it, n, A, base, step)
<1> DEFINE f == [i \in 0..n |-> it[1..i]]
           S == {i \in 0..n : f[i] \in A}
<1> USE DEF Unrolled
<1>1. f[0] = base
  <2>1. 1..0 = {} /\ 0 \in 0..n
    OBVIOUS
  <2> QED BY <2>1
<1>2. 0 \in S
  <2> HIDE DEF f
  <2> QED BY <1>1
<1>3. ASSUME NEW i \in 1..n, f[i - 1] \in A PROVE f[i] = step[<<f[i - 1], i>>] /\ f[i] \in A
  <2>1. i \in 0..n /\ i - 1 \in 0..n /\ f[i] = it[1..i] /\ f[i - 1] = it[1..(i - 1)]
    OBVIOUS
  <2> HIDE DEF f
  <2>2. f[i] = step[<<f[i - 1], i>>]
    BY <1>3, <2>1
  <2> QED BY <1>3, <2>2
<1>4. 0..n \subseteq S
  <2>1. \A i \in 1..n : i - 1 \in S => i \in S
    <3>1. \A i \in 1..n : i \in 0..n
      OBVIOUS
    <3> HIDE DEF f
    <3> QED BY <1>3, <3>1
  <2> HIDE DEF S
  <2> QED BY <1>2, <2>1, Upward
<1>5. \A i \in 0..n : f[i] \in A
  <2> HIDE DEF f
  <2> QED BY <1>4
<1>6. f \in [0..n -> A]
  <2>1. f = [i \in 0..n |-> f[i]]
    OBVIOUS
  <2> HIDE DEF f
  <2> QED BY <1>5, <2>1
<1>7. Stepwise(f, n, base, step)
  <2>1. \A i \in 1..n : i - 1 \in 0..n
    OBVIOUS
  <2> HIDE DEF f
  <2> QED BY <1>1, <1>3, <1>5, <2>1 DEF Stepwise
<1>8. f[n] = it[1..n]
  OBVIOUS
<1> HIDE DEF f
<1> QED BY <1>6, <1>7, <1>8 DEF Walks

\* The last of a set of places.
LEMMA LastOf ==
  ASSUME NEW n \in Nat, NEW z \in SUBSET (1..n), z # {}
  PROVE  Max(z) \in z /\ Max(z) \in 1..n /\ z \ {Max(z)} \in SUBSET (1..n)
<1>1. PICK x \in z : \A y \in z : y <= x
  BY Extremes
<1>2. \A y \in z : x >= y
  BY <1>1
<1> QED BY <1>2 DEF Max
=============================================================================
