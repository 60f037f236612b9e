--------------------------- MODULE SequenceFolds ---------------------------
(***************************************************************************)
(* Lemmas about what the models compute by going through a sequence: the   *)
(* folds of the community modules are recursive functions over the sets of *)
(* indices, which exist and take the values one expects. Induction is done *)
(* by the least index at which something fails.                            *)
(***************************************************************************)
EXTENDS Integers, Sequences, FiniteSets, SequencesExt, FiniteSetTheorems, WellFoundedInduction, TLAPS

\* What Append makes of a sequence.
LEMMA AppendedOne ==
  ASSUME NEW D, NEW s \in Seq(D), NEW x \in D
  PROVE  /\ Append(s, x) \in Seq(D) /\ Len(Append(s, x)) = Len(s) + 1
         /\ \A j \in 1..Len(s) : Append(s, x)[j] = s[j]
         /\ Append(s, x)[Len(s) + 1] = x
OBVIOUS

\* A set of numbers that is not empty has a least one.
LEMMA LeastNumber ==
  ASSUME NEW T, T \subseteq Nat, T # {}
  PROVE  \E x \in T : \A y \in T : x <= y
<1>1. \E x \in T : \A y \in T : ~ (<<y, x>> \in OpToRel(<, Nat))
  BY NatLessThanWellFounded, WFMin
<1>2. ASSUME NEW x \in Nat, NEW y \in Nat, ~ (<<y, x>> \in OpToRel(<, Nat))
      PROVE  x <= y
  BY <1>2 DEF OpToRel
<1> QED BY <1>1, <1>2

\* Induction, with the numbers for which the claim holds as a set.
LEMMA AllNumbers ==
  ASSUME NEW T, 0 \in T, \A n \in Nat : n \in T => n + 1 \in T
  PROVE  Nat \subseteq T
<1> DEFINE C == Nat \ T
<1> SUFFICES ASSUME C # {} PROVE FALSE
  OBVIOUS
<1>1. PICK x \in C : \A y \in C : x <= y
  <2> HIDE DEF C
  <2>1. C \subseteq Nat
    BY DEF C
  <2> QED BY <2>1, LeastNumber
<1>2. x # 0
  OBVIOUS
<1>3. x - 1 \in Nat /\ x - 1 \notin C
  BY <1>1, <1>2
<1> QED BY <1>3

\* Induction over the indices up to n.
LEMMA AllIndices ==
  ASSUME NEW n \in Nat, NEW T, 0 \in T, \A i \in 0..n : i \in T /\ i < n => i + 1 \in T
  PROVE  0..n \subseteq T
<1> DEFINE U == {i \in Nat : i <= n => i \in T}
<1>1. 0 \in U /\ \A i \in Nat : i \in U => i + 1 \in U
  OBVIOUS
<1> HIDE DEF U
<1>2. Nat \subseteq U
  BY <1>1, AllNumbers
<1> QED BY <1>2 DEF U

\* A set of indices that is not empty has a greatest one.
LEMMA GreatestIndex ==
  ASSUME NEW n \in Nat, NEW T \in SUBSET (1..n), T # {}
  PROVE  /\ Max(T) \in T
         /\ \A y \in T : y <= Max(T)
<1> DEFINE D == {n - x : x \in T}
<1>1. PICK d \in D : \A y \in D : d <= y
  <2>1. D # {}
    OBVIOUS
  <2>2. ASSUME NEW x \in T PROVE n - x \in Nat
    OBVIOUS
  <2>3. D \subseteq Nat
    BY <2>2
  <2> HIDE DEF D
  <2> QED BY <2>1, <2>3, LeastNumber
<1>2. PICK x \in T : d = n - x
  BY <1>1
<1>3. \A y \in T : x >= y
  <2> SUFFICES ASSUME NEW y \in T PROVE x >= y
    OBVIOUS
  <2>1. n - y \in D
    OBVIOUS
  <2> QED BY <1>1, <1>2, <2>1
<1> QED BY <1>2, <1>3 DEF Max

\* it is the recursive function of a fold over the indices of a sequence: its value on a
\* set of them. F gives the next value, of an index and the value before.
SolvesFold(it, n, V, v0, F) ==
  /\ it[{}] = v0
  /\ \A t \in SUBSET (1..n) :
       t # {} /\ it[t \ {Max(t)}] \in V => it[t] = F[Max(t)][it[t \ {Max(t)}]]

FoldValue(it, n) == it[1..n]

\* H are the values of a fold on the first elements, one by one.
StepsOf(H, n, V, v0, F) ==
  /\ H \in [0..n -> V]
  /\ H[0] = v0
  /\ \A i \in 1..n : H[i] = F[i][H[i - 1]]

\* The recursion of a fold has a solution.
LEMMA FoldExists ==
  ASSUME NEW n \in Nat, NEW V, NEW v0 \in V, NEW F \in [1..n -> [V -> V]]
  PROVE  \E it \in [SUBSET (1..n) -> V] : SolvesFold(it, n, V, v0, F)
<1> DEFINE Rec(m, it) == /\ it[{}] = v0
                         /\ \A t \in SUBSET (1..m) : t # {} => it[t] = F[Max(t)][it[t \ {Max(t)}]]
           Solved(m) == \E it \in [SUBSET (1..m) -> V] : Rec(m, it)
           Good(m) == m <= n => Solved(m)
<1>1. Good(0)
  <2>1. \A t \in SUBSET (1..0) : t = {}
    OBVIOUS
  <2> DEFINE it == [t \in SUBSET (1..0) |-> v0]
  <2>2. it \in [SUBSET (1..0) -> V]
    OBVIOUS
  <2>3. Rec(0, it)
    BY <2>1
  <2> QED BY <2>2, <2>3
<1>2. ASSUME NEW m \in Nat, Good(m) PROVE Good(m + 1)
  <2> SUFFICES ASSUME m + 1 <= n
               PROVE  Solved(m + 1)
    OBVIOUS
  <2>0. Solved(m)
    <3> HIDE DEF Solved
    <3> QED BY <1>2
  <2>1. PICK it \in [SUBSET (1..m) -> V] : Rec(m, it)
    BY <2>0
  <2> DEFINE h == [t \in SUBSET (1..(m + 1)) |->
                     IF m + 1 \in t THEN F[m + 1][it[t \ {m + 1}]] ELSE it[t]]
  <2>2. ASSUME NEW t \in SUBSET (1..(m + 1)), m + 1 \in t
        PROVE  /\ t \ {m + 1} \in SUBSET (1..m)
               /\ h[t] = F[m + 1][it[t \ {m + 1}]]
               /\ h[t] \in V
               /\ Max(t) = m + 1
               /\ h[t \ {m + 1}] = it[t \ {m + 1}]
    <3>1. t \ {m + 1} \in SUBSET (1..m)
      BY <2>2
    <3>2. t \ {m + 1} \in SUBSET (1..(m + 1))
      BY <2>2
    <3>3. h[t] = F[m + 1][it[t \ {m + 1}]]
      BY <2>2
    <3>4. h[t] \in V
      BY <3>1, <3>3
    <3>5. Max(t) = m + 1
      <4>1. t # {} /\ m + 1 \in Nat
        BY <2>2
      <4>2. Max(t) \in t /\ \A y \in t : y <= Max(t)
        BY <4>1, GreatestIndex
      <4>3. Max(t) \in 1..(m + 1)
        BY <4>2
      <4> QED BY <2>2, <4>2, <4>3
    <3>6. h[t \ {m + 1}] = it[t \ {m + 1}]
      BY <3>2
    <3> QED BY <3>1, <3>3, <3>4, <3>5, <3>6
  <2>3. ASSUME NEW t \in SUBSET (1..(m + 1)), m + 1 \notin t
        PROVE  t \in SUBSET (1..m) /\ h[t] = it[t] /\ h[t] \in V
    <3>1. t \in SUBSET (1..m)
      BY <2>3
    <3>2. h[t] = it[t]
      BY <2>3
    <3> QED BY <3>1, <3>2
  <2>4. h \in [SUBSET (1..(m + 1)) -> V]
    <3>1. \A t \in SUBSET (1..(m + 1)) : h[t] \in V
      BY <2>2, <2>3
    <3> QED BY <3>1
  <2>5. ASSUME NEW t \in SUBSET (1..(m + 1))
        PROVE  (t = {} => h[t] = v0) /\ (t # {} => h[t] = F[Max(t)][h[t \ {Max(t)}]])
    <3>1. CASE m + 1 \in t
      BY <2>2, <3>1
    <3>2. CASE m + 1 \notin t
      <4>1. t \in SUBSET (1..m) /\ h[t] = it[t]
        BY <2>3, <3>2
      <4>2. CASE t = {}
        BY <2>1, <4>1, <4>2
      <4>3. CASE t # {}
        <5>1. it[t] = F[Max(t)][it[t \ {Max(t)}]]
          BY <2>1, <4>1, <4>3
        <5>2. t \ {Max(t)} \in SUBSET (1..(m + 1)) /\ m + 1 \notin t \ {Max(t)}
          BY <3>2
        <5>3. h[t \ {Max(t)}] = it[t \ {Max(t)}]
          BY <2>3, <5>2
        <5> QED BY <4>1, <4>3, <5>1, <5>3
      <4> QED BY <4>2, <4>3
    <3> QED BY <3>1, <3>2
  <2> HIDE DEF h
  <2> QED BY <2>4, <2>5
<1>3. Good(n)
  <2> DEFINE T == {m \in Nat : Good(m)}
  <2> HIDE DEF Good
  <2>1. 0 \in T /\ \A m \in Nat : m \in T => m + 1 \in T
    BY <1>1, <1>2
  <2> HIDE DEF T
  <2>2. Nat \subseteq T
    BY <2>1, AllNumbers
  <2> QED BY <2>2 DEF T
<1>4. Solved(n)
  <2> HIDE DEF Solved
  <2> QED BY <1>3
<1>5. PICK it \in [SUBSET (1..n) -> V] : Rec(n, it)
  BY <1>4, Zenon
<1> QED BY <1>5 DEF SolvesFold

\* What a fold from left to right computes, index by index. (g is the recursive function
\* in the definition of FoldLeft, H[i] its value on the first i elements.)
LEMMA FoldSteps ==
  ASSUME NEW n \in Nat, NEW V, NEW v0 \in V, NEW F \in [1..n -> [V -> V]], NEW g,
         SolvesFold(g, n, V, v0, F)
  PROVE  \E H : StepsOf(H, n, V, v0, F) /\ H[n] = FoldValue(g, n)
<1>0. g[{}] = v0 /\ \A t \in SUBSET (1..n) :
                     t # {} /\ g[t \ {Max(t)}] \in V => g[t] = F[Max(t)][g[t \ {Max(t)}]]
  BY DEF SolvesFold
<1> DEFINE H == [i \in 0..n |-> g[1..i]]
<1>1. g[{}] = v0 /\ H[0] = v0
  <2>1. g[{}] = v0
    BY <1>0
  <2>2. 0 \in 0..n /\ 1..0 = {}
    OBVIOUS
  <2>3. H[0] = g[1..0]
    BY <2>2
  <2> QED BY <2>1, <2>2, <2>3
<1>2. ASSUME NEW i \in 1..n, g[1..(i - 1)] \in V PROVE g[1..i] = F[i][g[1..(i - 1)]]
  <2>1. 1..i \in SUBSET (1..n) /\ i \in 1..i /\ 1..i # {}
    <3>1. \A y \in 1..i : y \in 1..n
      OBVIOUS
    <3>2. i \in 1..i
      OBVIOUS
    <3> QED BY <3>1, <3>2
  <2>2. Max(1..i) = i
    <3>1. Max(1..i) \in 1..i /\ \A y \in 1..i : y <= Max(1..i)
      BY <2>1, GreatestIndex
    <3> QED BY <2>1, <3>1
  <2>3. (1..i) \ {i} = 1..(i - 1)
    OBVIOUS
  <2> QED BY <1>0, <1>2, <2>1, <2>2, <2>3
<1>3. \A i \in 1..n : H[i - 1] \in V => H[i] = F[i][H[i - 1]]
  BY <1>2
<1>4. \A i \in 0..n : H[i] \in V
  <2> DEFINE T == {i \in Nat : i \in 0..n => H[i] \in V}
  <2>1. 0 \in T
    BY <1>1
  <2>2. ASSUME NEW i \in Nat, i \in T PROVE i + 1 \in T
    <3> SUFFICES ASSUME i + 1 \in 0..n PROVE H[i + 1] \in V
      OBVIOUS
    <3>1. i \in 0..n /\ i + 1 \in 1..n
      OBVIOUS
    <3> HIDE DEF H
    <3>2. (i + 1) - 1 = i /\ H[i] \in V
      BY <2>2, <3>1
    <3>3. H[i + 1] = F[i + 1][H[i]]
      BY <1>3, <3>1, <3>2
    <3> QED BY <3>1, <3>2, <3>3
  <2> HIDE DEF T
  <2>3. Nat \subseteq T
    BY <2>1, <2>2, AllNumbers
  <2> HIDE DEF H
  <2> QED BY <2>3 DEF T
<1>5. H \in [0..n -> V] /\ H[n] = g[1..n]
  BY <1>4
<1> HIDE DEF H
<1>6. \A i \in 1..n : H[i] = F[i][H[i - 1]]
  BY <1>3, <1>5
<1> QED BY <1>1, <1>5, <1>6 DEF StepsOf, FoldValue

\* A set of indices with every smaller one is an initial segment, counted by its size.
LEMMA InitialSegment ==
  ASSUME NEW n \in Nat, NEW S \in SUBSET (1..n), \A i \in S : \A j \in 1..i : j \in S
  PROVE  Cardinality(S) \in 0..n /\ S = 1..Cardinality(S)
<1>1. CASE S = {}
  <2>1. Cardinality(S) = 0
    BY <1>1, FS_EmptySet
  <2> QED BY <1>1, <2>1
<1>2. CASE S # {}
  <2>1. Max(S) \in S /\ \A y \in S : y <= Max(S)
    BY <1>2, GreatestIndex
  <2>2. Max(S) \in 1..n
    BY <2>1
  <2>3. S = 1..Max(S)
    <3>1. ASSUME NEW y \in S PROVE y \in 1..Max(S)
      <4>1. y \in 1..n /\ y <= Max(S)
        BY <2>1
      <4> QED BY <2>2, <4>1
    <3>2. ASSUME NEW y \in 1..Max(S) PROVE y \in S
      BY <2>1
    <3> QED BY <3>1, <3>2
  <2>4. Cardinality(1..Max(S)) = Max(S)
    <3>1. 1 \in Int /\ Max(S) \in Int
      BY <2>2
    <3>2. Cardinality(1..Max(S)) = IF 1 > Max(S) THEN 0 ELSE Max(S) - 1 + 1
      BY <3>1, FS_Interval
    <3> QED BY <2>2, <3>2
  <2>5. Cardinality(S) = Max(S)
    BY <2>3, <2>4
  <2> QED BY <2>2, <2>3, <2>5
<1> QED BY <1>1, <1>2

(***************************************************************************)
(* The elements of a sequence that are in a set, in their order            *)
(***************************************************************************)
Only(s, K) == FoldLeft(LAMBDA t, x : IF x \in K THEN Append(t, x) ELSE t, <<>>, s)

\* The selection, element by element.
Selects(H, s, K) ==
  /\ H[0] = <<>>
  /\ \A i \in 1..Len(s) : /\ H[i - 1] \in Seq(K)
                         /\ H[i] \in Seq(K)
                         /\ (s[i] \in K => H[i] = Append(H[i - 1], s[i]))
                         /\ (s[i] \notin K => H[i] = H[i - 1])

\* Selecting goes through a sequence one by one.
LEMMA OnlySteps ==
  ASSUME NEW D, NEW s \in Seq(D), NEW K
  PROVE  \E H : Selects(H, s, K) /\ Only(s, K) = H[Len(s)]
<1> DEFINE n == Len(s)
           V == Seq(K)
           F == [i \in 1..n |-> [v \in V |-> IF s[i] \in K THEN Append(v, s[i]) ELSE v]]
           Rec(it) == it = [t \in SUBSET DOMAIN s |->
                              IF t = {} THEN <<>>
                              ELSE IF s[Max(t)] \in K THEN Append(it[t \ {Max(t)}], s[Max(t)]) ELSE it[t \ {Max(t)}]]
           g == CHOOSE it : Rec(it)
<1>1. n \in Nat /\ DOMAIN s = 1..n /\ <<>> \in V
  OBVIOUS
<1>2. /\ F \in [1..n -> [V -> V]]
      /\ \A i \in 1..n, v \in V : /\ (s[i] \in K => F[i][v] = Append(v, s[i]))
                                  /\ (s[i] \notin K => F[i][v] = v)
  <2>1. ASSUME NEW i \in 1..n, NEW v \in V PROVE (IF s[i] \in K THEN Append(v, s[i]) ELSE v) \in V
    OBVIOUS
  <2> HIDE DEF V
  <2> QED BY <2>1
<1> HIDE DEF F, n, V
<1>3. ASSUME NEW t \in SUBSET (1..n), t # {}
      PROVE  Max(t) \in 1..n /\ t \ {Max(t)} \in SUBSET (1..n)
  BY <1>1, <1>3, GreatestIndex
<1>4. PICK it \in [SUBSET (1..n) -> V] : SolvesFold(it, n, V, <<>>, F)
  BY <1>1, <1>2, FoldExists
<1>5. Rec(it)
  <2>1. ASSUME NEW t \in SUBSET (1..n), t # {}
        PROVE  it[t] = IF s[Max(t)] \in K THEN Append(it[t \ {Max(t)}], s[Max(t)]) ELSE it[t \ {Max(t)}]
    BY <1>2, <1>3, <1>4, <2>1 DEF SolvesFold
  <2>2. it[{}] = <<>>
    BY <1>4 DEF SolvesFold
  <2> QED BY <1>1, <2>1, <2>2
<1>6. Rec(g)
  BY <1>5
<1>7. SolvesFold(g, n, V, <<>>, F)
  <2> HIDE DEF g
  <2>1. ASSUME NEW t \in SUBSET (1..n), t # {}, g[t \ {Max(t)}] \in V
        PROVE  g[t] = F[Max(t)][g[t \ {Max(t)}]]
    <3>1. Max(t) \in 1..n
      BY <1>3, <2>1
    <3>2. g[t] = IF s[Max(t)] \in K THEN Append(g[t \ {Max(t)}], s[Max(t)]) ELSE g[t \ {Max(t)}]
      BY <1>1, <1>6, <2>1
    <3>3. CASE s[Max(t)] \in K
      BY <1>2, <2>1, <3>1, <3>2, <3>3
    <3>4. CASE s[Max(t)] \notin K
      BY <1>2, <2>1, <3>1, <3>2, <3>4
    <3> QED BY <3>3, <3>4
  <2>2. g[{}] = <<>>
    BY <1>1, <1>6
  <2> QED BY <2>1, <2>2 DEF SolvesFold
<1>8. Only(s, K) = FoldValue(g, n)
  BY <1>1 DEF FoldValue, Only, FoldLeft, MapThenFoldSet
<1> HIDE DEF g
<1>9. PICK H : StepsOf(H, n, V, <<>>, F) /\ H[n] = FoldValue(g, n)
  BY <1>1, <1>2, <1>7, FoldSteps
<1>10. \A i \in 1..n : H[i - 1] \in V /\ H[i] \in V
  BY <1>1, <1>9 DEF StepsOf
<1>11. Selects(H, s, K)
  BY <1>2, <1>9, <1>10 DEF StepsOf, Selects, n, V
<1> QED BY <1>8, <1>9, <1>11 DEF n

\* The first i elements.
FirstOf(s, i) == {s[j] : j \in 1..i}
Unlike(s) == \A i, j \in DOMAIN s : s[i] = s[j] => i = j

\* It leaves the members of the set, in order.
LEMMA SelectedOnes ==
  ASSUME NEW D, NEW s \in Seq(D), NEW K, NEW H, Selects(H, s, K), NEW r, r = H[Len(s)]
  PROVE  /\ r \in Seq(K)
         /\ ToSet(r) = ToSet(s) \cap K
         /\ Unlike(s) => Len(r) = Cardinality(ToSet(s) \cap K)
<1> DEFINE n == Len(s)
           C(i) == FirstOf(s, i) \cap K
           P(i) == /\ H[i] \in Seq(K)
                   /\ ToSet(H[i]) = C(i)
                   /\ Unlike(s) => IsFiniteSet(C(i)) /\ Cardinality(C(i)) = Len(H[i])
           T == {i \in 0..n : P(i)}
<1>1. P(0)
  <2>1. H[0] = <<>>
    BY DEF Selects
  <2>2. C(0) = {} /\ ToSet(<<>>) = {}
    BY DEF FirstOf, ToSet
  <2>3. IsFiniteSet({}) /\ Cardinality({}) = 0
    BY FS_EmptySet
  <2>4. <<>> \in Seq(K) /\ Len(<<>>) = 0
    OBVIOUS
  <2> HIDE DEF C
  <2> QED BY <2>1, <2>2, <2>3, <2>4
<1>2. ASSUME NEW i \in 0..n, P(i), i < n PROVE P(i + 1)
  <2> DEFINE x == s[i + 1]
  <2>1. /\ i + 1 \in 1..Len(s) /\ (i + 1) - 1 = i
        /\ DOMAIN s = 1..Len(s)
    BY <1>2
  <2>2. /\ H[i] \in Seq(K)
        /\ (x \in K => H[i + 1] = Append(H[i], x))
        /\ (x \notin K => H[i + 1] = H[i])
    BY <2>1 DEF Selects
  <2>3. FirstOf(s, i + 1) = FirstOf(s, i) \cup {x}
    <3>1. \A j : j \in 1..(i + 1) <=> j \in 1..i \/ j = i + 1
      BY <2>1
    <3> QED BY <3>1 DEF FirstOf
  <2>4. CASE x \notin K
    <3>1. C(i + 1) = C(i)
      BY <2>3, <2>4
    <3> QED BY <1>2, <2>2, <2>4, <3>1
  <2>5. CASE x \in K
    <3>1. C(i + 1) = C(i) \cup {x}
      BY <2>3, <2>5
    <3>2. H[i + 1] \in Seq(K) /\ Len(H[i + 1]) = Len(H[i]) + 1
      <4> DEFINE t == H[i]
                 y == H[i + 1]
      <4>1. t \in Seq(K) /\ y = Append(t, x)
        BY <2>2, <2>5
      <4> HIDE DEF x, t, y
      <4>2. y \in Seq(K) /\ Len(y) = Len(t) + 1
        BY <2>5, <4>1, AppendedOne
      <4> QED BY <4>2 DEF t, y
    <3>3. ToSet(H[i + 1]) = ToSet(H[i]) \cup {x}
      <4>1. DOMAIN H[i + 1] = 1..(Len(H[i]) + 1) /\ DOMAIN H[i] = 1..Len(H[i]) /\ Len(H[i]) \in Nat
        BY <2>2, <3>2
      <4>2. H[i + 1][Len(H[i]) + 1] = x /\ \A j \in 1..Len(H[i]) : H[i + 1][j] = H[i][j]
        BY <2>2, <2>5
      <4>3. \A j : j \in 1..(Len(H[i]) + 1) <=> j \in 1..Len(H[i]) \/ j = Len(H[i]) + 1
        BY <4>1
      <4> HIDE DEF x
      <4> QED BY <4>1, <4>2, <4>3 DEF ToSet
    <3>4. ASSUME Unlike(s) PROVE IsFiniteSet(C(i + 1)) /\ Cardinality(C(i + 1)) = Len(H[i + 1])
      <4>1. x \notin C(i)
        <5>1. ASSUME NEW j \in 1..i, x = s[j] PROVE FALSE
          <6>1. j \in DOMAIN s /\ i + 1 \in DOMAIN s /\ j # i + 1
            BY <2>1
          <6> QED BY <3>4, <5>1, <6>1 DEF Unlike
        <5> QED BY <5>1 DEF FirstOf
      <4>2. IsFiniteSet(C(i)) /\ Cardinality(C(i)) = Len(H[i])
        BY <1>2, <3>4
      <4> HIDE DEF C, x
      <4>3. Cardinality(C(i) \cup {x}) = Cardinality(C(i)) + 1 /\ IsFiniteSet(C(i) \cup {x})
        BY <4>1, <4>2, FS_AddElement
      <4> QED BY <3>1, <3>2, <4>2, <4>3
    <3> HIDE DEF C, x
    <3> QED BY <1>2, <3>1, <3>2, <3>3, <3>4
  <2> QED BY <2>4, <2>5
<1> HIDE DEF P
<1>3. n \in Nat
  OBVIOUS
<1>4. 0..n \subseteq T
  <2>1. 0 \in T /\ \A i \in 0..n : i \in T /\ i < n => i + 1 \in T
    BY <1>1, <1>2, <1>3
  <2> HIDE DEF T, n
  <2> QED BY <1>3, <2>1, AllIndices
<1>5. P(n)
  BY <1>3, <1>4
<1>6. C(n) = ToSet(s) \cap K
  BY DEF FirstOf, ToSet
<1> HIDE DEF C
<1> QED BY <1>5, <1>6 DEF P

\* A selection keeps what it has when an element is added at the end.
LEMMA OnlyAppend ==
  ASSUME NEW D, NEW s \in Seq(D), NEW x \in D, NEW K
  PROVE  /\ Only(s, K) \in Seq(K)
         /\ x \in K => Only(Append(s, x), K) = Append(Only(s, K), x)
         /\ x \notin K => Only(Append(s, x), K) = Only(s, K)
<1> DEFINE t == Append(s, x)
           n == Len(s)
<1>1. t \in Seq(D) /\ Len(t) = n + 1 /\ (\A j \in 1..n : t[j] = s[j]) /\ t[n + 1] = x /\ n \in Nat
  BY AppendedOne
<1>2. PICK H : Selects(H, s, K) /\ Only(s, K) = H[n]
  BY OnlySteps
<1> HIDE DEF t
<1>3. PICK G : Selects(G, t, K) /\ Only(t, K) = G[n + 1]
  BY <1>1, OnlySteps
<1> DEFINE T == {i \in 0..n : G[i] = H[i]}
<1> HIDE DEF n
<1>4. 0 \in T
  BY <1>1, <1>2, <1>3 DEF Selects
<1>5. \A i \in 0..n : i \in T /\ i < n => i + 1 \in T
  <2> SUFFICES ASSUME NEW i \in 0..n, i \in T, i < n PROVE G[i + 1] = H[i + 1]
    BY <1>1
  <2>1. i + 1 \in 1..n /\ i + 1 \in 1..Len(t) /\ (i + 1) - 1 = i /\ t[i + 1] = s[i + 1]
    BY <1>1
  <2> DEFINE k == i + 1
  <2>2. /\ s[k] \in K => H[k] = Append(H[k - 1], s[k])
        /\ s[k] \notin K => H[k] = H[k - 1]
    <3>1. k \in 1..Len(s)
      BY <2>1 DEF n
    <3> HIDE DEF k
    <3> QED BY <1>2, <3>1 DEF Selects
  <2>3. /\ t[k] \in K => G[k] = Append(G[k - 1], t[k])
        /\ t[k] \notin K => G[k] = G[k - 1]
    <3> HIDE DEF k
    <3> QED BY <1>3, <2>1 DEF Selects, k
  <2> QED BY <2>1, <2>2, <2>3
<1>6. 0..n \subseteq T
  <2> HIDE DEF T
  <2> QED BY <1>1, <1>4, <1>5, AllIndices
<1>7. G[n] = H[n]
  BY <1>1, <1>6
<1> DEFINE k == n + 1
<1>8. k \in 1..Len(t) /\ k - 1 = n /\ t[k] = x
  BY <1>1
<1> HIDE DEF k
<1>9. /\ x \in K => G[k] = Append(G[n], x)
      /\ x \notin K => G[k] = G[n]
      /\ G[n] \in Seq(K)
  BY <1>3, <1>8 DEF Selects
<1> QED BY <1>2, <1>3, <1>7, <1>9 DEF t, k

\* Of nothing, nothing is selected.
LEMMA OnlyEmpty ==
  ASSUME NEW K PROVE Only(<<>>, K) = <<>>
<1>1. <<>> \in Seq(K) /\ Len(<<>>) = 0
  OBVIOUS
<1>2. PICK H : Selects(H, <<>>, K) /\ Only(<<>>, K) = H[Len(<<>>)]
  BY <1>1, OnlySteps
<1> QED BY <1>1, <1>2 DEF Selects

\* A sequence that is not empty, by its last element.
LEMMA LastOff ==
  ASSUME NEW D, NEW s \in Seq(D), s # <<>>
  PROVE  \E t \in Seq(D), x \in D : s = Append(t, x) /\ Len(t) + 1 = Len(s)
<1> DEFINE m == Len(s) - 1
           t == SubSeq(s, 1, m)
           x == s[Len(s)]
<1>1. Len(s) \in Nat /\ Len(s) >= 1 /\ m \in 0..Len(s) /\ Len(s) = m + 1
  OBVIOUS
<1>2. x \in D
  BY <1>1
<1> HIDE DEF m
<1>3. t \in Seq(D) /\ Len(t) = m /\ \A i \in 1..m : t[i] = s[i]
  BY <1>1
<1> HIDE DEF t
<1>4. Append(t, x) \in Seq(D) /\ Len(Append(t, x)) = m + 1 /\ (\A j \in 1..m : Append(t, x)[j] = t[j])
      /\ Append(t, x)[m + 1] = x
  BY <1>2, <1>3, AppendedOne
<1>5. s = Append(t, x)
  <2> DEFINE y == Append(t, x)
  <2>1. y \in Seq(D) /\ Len(y) = Len(s) /\ \A j \in 1..Len(s) : y[j] = s[j]
    BY <1>1, <1>3, <1>4
  <2> HIDE DEF y
  <2> QED BY <2>1 DEF y
<1> HIDE DEF x
<1> QED BY <1>1, <1>2, <1>3, <1>5

\* An element more behind two sequences.
LEMMA ConcatAppend ==
  ASSUME NEW K, NEW u \in Seq(K), NEW v \in Seq(K), NEW x \in K
  PROVE  u \o Append(v, x) = Append(u \o v, x)
<1>1. u \o v \in Seq(K) /\ Append(v, x) \in Seq(K) /\ Len(Append(v, x)) = Len(v) + 1 /\ Len(u \o v) = Len(u) + Len(v)
      /\ Len(u) \in Nat /\ Len(v) \in Nat
  OBVIOUS
<1>2. u \o Append(v, x) \in Seq(K) /\ Append(u \o v, x) \in Seq(K)
      /\ Len(u \o Append(v, x)) = Len(u) + Len(v) + 1 /\ Len(Append(u \o v, x)) = Len(u) + Len(v) + 1
  BY <1>1
<1>3. \A i \in 1..(Len(u) + Len(v) + 1) : (u \o Append(v, x))[i] = Append(u \o v, x)[i]
  OBVIOUS
<1> DEFINE p == u \o Append(v, x)
           q == Append(u \o v, x)
<1>4. p \in Seq(K) /\ q \in Seq(K) /\ Len(p) = Len(q) /\ \A i \in 1..Len(p) : p[i] = q[i]
  BY <1>2, <1>3
<1> HIDE DEF p, q
<1>5. p = q
  BY <1>4
<1> QED BY <1>5 DEF p, q

\* What is selected is a sequence over the set ...
LEMMA OnlyType ==
  ASSUME NEW D, NEW a \in Seq(D), NEW K
  PROVE  Only(a, K) \in Seq(K)
<1>1. PICK H : Selects(H, a, K) /\ Only(a, K) = H[Len(a)]
  BY OnlySteps
<1>2. CASE a = <<>>
  <2>1. <<>> \in Seq(K)
    OBVIOUS
  <2> QED BY <1>2, <2>1, OnlyEmpty
<1>3. CASE a # <<>>
  <2>1. Len(a) \in 1..Len(a)
    BY <1>3
  <2> QED BY <1>1, <2>1 DEF Selects
<1> QED BY <1>2, <1>3

\* ... of two sequences, that of one behind that of the other ...
LEMMA OnlyConcat ==
  ASSUME NEW D, NEW a \in Seq(D), NEW b \in Seq(D)
  PROVE  \A K : Only(a \o b, K) = Only(a, K) \o Only(b, K)
<1> SUFFICES ASSUME NEW K PROVE Only(a \o b, K) = Only(a, K) \o Only(b, K)
  OBVIOUS
<1> DEFINE P(c) == Only(a \o c, K) = Only(a, K) \o Only(c, K) /\ Only(c, K) \in Seq(K)
           T == {n \in Nat : \A c \in Seq(D) : Len(c) = n => P(c)}
<1>1. Only(a, K) \in Seq(K)
  BY OnlyType
<1>2. 0 \in T
  <2> SUFFICES ASSUME NEW c \in Seq(D), Len(c) = 0 PROVE P(c)
    OBVIOUS
  <2>1. c = <<>> /\ a \o c = a
    OBVIOUS
  <2>2. Only(c, K) = <<>> /\ <<>> \in Seq(K)
    BY <2>1, OnlyEmpty
  <2> DEFINE u == Only(a, K)
  <2>3. u \in Seq(K) /\ Only(a \o c, K) = u
    BY <1>1, <2>1
  <2> HIDE DEF u
  <2>4. u \o <<>> = u
    BY <2>3
  <2> QED BY <2>2, <2>3, <2>4 DEF u
<1>3. \A n \in Nat : n \in T => n + 1 \in T
  <2> HIDE DEF P
  <2> SUFFICES ASSUME NEW n \in Nat, n \in T, NEW c \in Seq(D), Len(c) = n + 1 PROVE P(c)
    OBVIOUS
  <2>1. c # <<>>
    OBVIOUS
  <2>2. PICK d \in Seq(D), x \in D : c = Append(d, x) /\ Len(d) + 1 = Len(c)
    BY <2>1, LastOff
  <2>3. Len(d) = n
    BY <2>2
  <2>4. P(d)
    BY <2>3
  <2>5. a \o c = Append(a \o d, x) /\ a \o d \in Seq(D)
    BY <2>2
  <2> USE DEF P
  <2>6. /\ x \in K => Only(c, K) = Append(Only(d, K), x)
        /\ x \notin K => Only(c, K) = Only(d, K)
    <3>1. ASSUME x \in K PROVE Only(Append(d, x), K) = Append(Only(d, K), x)
      BY <3>1, OnlyAppend
    <3>2. ASSUME x \notin K PROVE Only(Append(d, x), K) = Only(d, K)
      BY <3>2, OnlyAppend
    <3> QED BY <2>2, <3>1, <3>2
  <2>7. /\ x \in K => Only(a \o c, K) = Append(Only(a \o d, K), x)
        /\ x \notin K => Only(a \o c, K) = Only(a \o d, K)
    <3> DEFINE y == a \o d
    <3>1. y \in Seq(D) /\ a \o c = Append(y, x)
      BY <2>5
    <3> HIDE DEF y
    <3>2. ASSUME x \in K PROVE Only(Append(y, x), K) = Append(Only(y, K), x)
      BY <3>1, <3>2, OnlyAppend
    <3>3. ASSUME x \notin K PROVE Only(Append(y, x), K) = Only(y, K)
      BY <3>1, <3>3, OnlyAppend
    <3> QED BY <3>1, <3>2, <3>3 DEF y
  <2> DEFINE u == Only(a, K)
             v == Only(d, K)
  <2>8. u \in Seq(K) /\ v \in Seq(K) /\ Only(a \o d, K) = u \o v
    BY <1>1, <2>4
  <2> HIDE DEF u, v, T, P
  <2>9. ASSUME x \in K PROVE Append(u \o v, x) = u \o Append(v, x) /\ Append(v, x) \in Seq(K)
    <3>1. x \in K /\ u \in Seq(K) /\ v \in Seq(K)
      BY <2>8, <2>9
    <3>2. Append(v, x) \in Seq(K)
      BY <3>1
    <3>3. u \o Append(v, x) = Append(u \o v, x)
      BY <3>1, ConcatAppend
    <3> QED BY <3>2, <3>3
  <2> QED BY <2>6, <2>7, <2>8, <2>9 DEF u, v, P
<1> HIDE DEF P
<1>4. Nat \subseteq T
  <2> HIDE DEF T
  <2> QED BY <1>2, <1>3, AllNumbers
<1>5. P(b)
  <2>1. Len(b) \in Nat
    OBVIOUS
  <2> QED BY <1>4, <2>1
<1> QED BY <1>1, <1>5 DEF P

\* ... and everything, when all are in the set.
LEMMA OnlyAll ==
  ASSUME NEW K, NEW s \in Seq(K) PROVE Only(s, K) = s
<1> DEFINE T == {n \in Nat : \A c \in Seq(K) : Len(c) = n => Only(c, K) = c}
<1>1. 0 \in T
  <2> SUFFICES ASSUME NEW c \in Seq(K), Len(c) = 0 PROVE Only(c, K) = c
    OBVIOUS
  <2>1. c = <<>>
    OBVIOUS
  <2> QED BY <2>1, OnlyEmpty
<1>2. \A n \in Nat : n \in T => n + 1 \in T
  <2> SUFFICES ASSUME NEW n \in Nat, n \in T, NEW c \in Seq(K), Len(c) = n + 1 PROVE Only(c, K) = c
    OBVIOUS
  <2>1. c # <<>>
    OBVIOUS
  <2>2. PICK d \in Seq(K), x \in K : c = Append(d, x) /\ Len(d) + 1 = Len(c)
    BY <2>1, LastOff
  <2>3. Only(d, K) = d
    BY <2>2
  <2> QED BY <2>2, <2>3, OnlyAppend
<1>3. Nat \subseteq T
  <2> HIDE DEF T
  <2> QED BY <1>1, <1>2, AllNumbers
<1>4. Len(s) \in Nat
  OBVIOUS
<1> QED BY <1>3, <1>4

(***************************************************************************)
(* Folds over a finite set of numbers in ascending order, and functions    *)
(* defined by what they were one number before                             *)
(***************************************************************************)
\* The topmost of a set of numbers.
Topmost(s) == CHOOSE k \in s : \A j \in s : j <= k

\* A finite set of numbers has a bound.
LEMMA FiniteBound ==
  ASSUME NEW S, S \subseteq Nat, IsFiniteSet(S)
  PROVE  \E n \in Nat : \A k \in S : k < n
<1>1. PICK n \in Nat : ExistsSurjection(1..n, S)
  BY FS_NatSurjection
<1>2. PICK f \in [1..n -> S] : \A k \in S : \E i \in 1..n : f[i] = k
  BY <1>1 DEF ExistsSurjection, Surjection
<1> DEFINE T == {i \in 0..n : \E b \in Nat : \A j \in 1..i : f[j] < b}
<1>3. 0 \in T
  OBVIOUS
<1>4. ASSUME NEW i \in 0..n, i \in T, i < n PROVE i + 1 \in T
  <2>1. PICK b \in Nat : \A j \in 1..i : f[j] < b
    BY <1>4
  <2>0. \A j \in 1..(i + 1) : j \in 1..n /\ f[j] \in Nat
    <3>1. \A j \in 1..(i + 1) : j \in 1..n
      BY <1>4
    <3>2. \A j \in 1..n : f[j] \in S
      BY <1>2
    <3> QED BY <3>1, <3>2
  <2>2. f[i + 1] \in Nat
    BY <1>4, <2>0
  <2> DEFINE a == f[i + 1] + b + 1
  <2>3. a \in Nat /\ f[i + 1] < a /\ b < a
    BY <2>2
  <2>4. ASSUME NEW j \in 1..(i + 1) PROVE f[j] < a
    <3>1. CASE j = i + 1
      BY <2>3, <3>1
    <3>2. CASE j \in 1..i
      <4>1. f[j] \in Nat /\ f[j] < b
        BY <2>0, <2>1, <3>2
      <4> QED BY <2>2, <4>1
    <3> QED BY <3>1, <3>2
  <2>5. i + 1 \in 0..n
    BY <1>4
  <2> QED BY <2>3, <2>4, <2>5
<1>5. 0..n \subseteq T
  <2> HIDE DEF T
  <2> QED BY <1>3, <1>4, AllIndices
<1>6. n \in 0..n
  OBVIOUS
<1>7. PICK b \in Nat : \A j \in 1..n : f[j] < b
  BY <1>5, <1>6
<1> QED BY <1>2, <1>7

\* A bounded set of numbers has a topmost one.
LEMMA TopmostIsThere ==
  ASSUME NEW s, s \subseteq Nat, s # {}, NEW n \in Nat, \A k \in s : k < n
  PROVE  Topmost(s) \in s /\ \A j \in s : j <= Topmost(s)
<1> DEFINE D == {n - k : k \in s}
<1>1. D \subseteq Nat /\ D # {}
  <2>1. \A k \in s : n - k \in Nat
    OBVIOUS
  <2> QED BY <2>1
<1>2. PICK d \in D : \A y \in D : d <= y
  BY <1>1, LeastNumber
<1>3. PICK k \in s : d = n - k
  BY <1>2
<1>4. \A j \in s : j <= k
  <2> TAKE j \in s
  <2>1. d <= n - j
    BY <1>2
  <2> QED BY <1>3, <2>1
<1> HIDE DEF D
<1> QED BY <1>3, <1>4 DEF Topmost

\* Induction over a finite set of numbers, from the topmost one down.
LEMMA SetInduction ==
  ASSUME NEW S, S \subseteq Nat, IsFiniteSet(S), NEW U, {} \in U,
         \A t \in SUBSET S : t # {} /\ Topmost(t) \in t /\ t \ {Topmost(t)} \in U => t \in U
  PROVE  SUBSET S \subseteq U
<1>1. PICK n \in Nat : \A k \in S : k < n
  BY FiniteBound
<1> DEFINE Below(m) == \A t \in SUBSET S : (\A k \in t : k < m) => t \in U
           T == {m \in Nat : Below(m)}
<1>2. Below(0)
  <2>1. \A t \in SUBSET S : (\A k \in t : k < 0) => t = {}
    OBVIOUS
  <2> QED BY <2>1
<1>3. ASSUME NEW m \in Nat, Below(m) PROVE Below(m + 1)
  <2> SUFFICES ASSUME NEW t \in SUBSET S, \A k \in t : k < m + 1, t # {} PROVE t \in U
    OBVIOUS
  <2>0. t \subseteq Nat /\ m + 1 \in Nat
    OBVIOUS
  <2>1. Topmost(t) \in t /\ \A j \in t : j <= Topmost(t)
    BY <2>0, TopmostIsThere
  <2>2. ASSUME NEW k \in t \ {Topmost(t)} PROVE k < m
    <3>1. k \in Nat /\ Topmost(t) \in Nat /\ Topmost(t) < m + 1 /\ k <= Topmost(t) /\ k # Topmost(t)
      BY <2>0, <2>1
    <3> QED BY <3>1
  <2>3. t \ {Topmost(t)} \in U
    BY <1>3, <2>2
  <2> QED BY <2>1, <2>3
<1>4. Below(n)
  <2> HIDE DEF Below
  <2>1. 0 \in T /\ \A m \in Nat : m \in T => m + 1 \in T
    BY <1>2, <1>3
  <2> HIDE DEF T
  <2>2. Nat \subseteq T
    BY <2>1, AllNumbers
  <2> QED BY <2>2 DEF T
<1> QED BY <1>1, <1>4

\* it is the recursive function of a fold over a set of numbers, in ascending order.
SetFold(it, S, V, v0, F) ==
  /\ it \in [SUBSET S -> V] /\ it[{}] = v0
  /\ \A t \in SUBSET S : t # {} => it[t] = F[Topmost(t)][it[t \ {Topmost(t)}]]

\* A fold over a finite set of numbers has its recursive function.
LEMMA SetFoldExists ==
  ASSUME NEW S, S \subseteq Nat, IsFiniteSet(S), NEW V, NEW v0 \in V, NEW F \in [S -> [V -> V]]
  PROVE  \E it : SetFold(it, S, V, v0, F)
<1>1. PICK n \in Nat : \A k \in S : k < n
  BY FiniteBound
<1> DEFINE Of(m) == {t \in SUBSET S : \A k \in t : k < m}
           Rec(m, it) == it[{}] = v0 /\ \A t \in Of(m) : t # {} => it[t] = F[Topmost(t)][it[t \ {Topmost(t)}]]
           Solved(m) == \E it \in [Of(m) -> V] : Rec(m, it)
           T == {m \in Nat : Solved(m)}
<1>2. Solved(0)
  <2>1. Of(0) = {{}}
    <3>1. \A t \in SUBSET S : (\A k \in t : k < 0) => t = {}
      OBVIOUS
    <3> QED BY <3>1
  <2> DEFINE it == [t \in Of(0) |-> v0]
  <2> HIDE DEF Of
  <2>2. it \in [Of(0) -> V] /\ Rec(0, it)
    BY <2>1
  <2> QED BY <2>2
<1>3. ASSUME NEW m \in Nat, Solved(m) PROVE Solved(m + 1)
  <2>1. PICK it \in [Of(m) -> V] : Rec(m, it)
    BY <1>3
  <2> DEFINE h == [t \in Of(m + 1) |-> IF m \in t THEN F[m][it[t \ {m}]] ELSE it[t]]
  <2>2. ASSUME NEW t \in Of(m + 1), m \in t
        PROVE  /\ t \ {m} \in Of(m) /\ t \ {m} \in Of(m + 1) /\ h[t] = F[m][it[t \ {m}]] /\ h[t] \in V
               /\ Topmost(t) = m /\ h[t \ {m}] = it[t \ {m}]
    <3>1. t \in SUBSET S /\ \A k \in t : k \in Nat /\ k < m + 1
      BY <2>2
    <3>2. ASSUME NEW k \in t \ {m} PROVE k < m
      BY <3>1
    <3>3. t \ {m} \in Of(m) /\ t \ {m} \in Of(m + 1)
      BY <3>1, <3>2
    <3>4. h[t] = F[m][it[t \ {m}]] /\ h[t \ {m}] = it[t \ {m}]
      <4> HIDE DEF Of
      <4> QED BY <2>2, <3>3
    <3>5. h[t] \in V
      <4>1. m \in S /\ it[t \ {m}] \in V
        <5> HIDE DEF Of
        <5> QED BY <2>1, <2>2, <3>1, <3>3
      <4> HIDE DEF h
      <4> QED BY <3>4, <4>1
    <3>6. Topmost(t) = m
      <4>1. t \subseteq Nat /\ t # {} /\ m + 1 \in Nat /\ \A k \in t : k < m + 1
        BY <2>2, <3>1
      <4>2. Topmost(t) \in t /\ \A j \in t : j <= Topmost(t)
        BY <4>1, TopmostIsThere
      <4>3. Topmost(t) \in Nat /\ Topmost(t) < m + 1 /\ m <= Topmost(t)
        BY <2>2, <4>1, <4>2
      <4> QED BY <4>3
    <3> QED BY <3>3, <3>4, <3>5, <3>6
  <2>3. ASSUME NEW t \in Of(m + 1), m \notin t
        PROVE  t \in Of(m) /\ h[t] = it[t] /\ h[t] \in V
    <3>1. t \in SUBSET S /\ \A k \in t : k \in Nat /\ k < m + 1 /\ k # m
      BY <2>3
    <3>2. ASSUME NEW k \in t PROVE k < m
      BY <3>1
    <3>3. t \in Of(m)
      BY <3>1, <3>2
    <3> HIDE DEF Of
    <3> QED BY <2>1, <2>3, <3>3
  <2>4. h \in [Of(m + 1) -> V]
    <3>1. \A t \in Of(m + 1) : h[t] \in V
      <4> HIDE DEF Of, h
      <4> QED BY <2>2, <2>3
    <3> HIDE DEF Of
    <3> QED BY <3>1
  <2>5. h[{}] = v0
    <3>1. {} \in Of(m + 1) /\ m \notin {}
      OBVIOUS
    <3>2. h[{}] = it[{}]
      <4> HIDE DEF Of, h
      <4> QED BY <2>3, <3>1
    <3> QED BY <2>1, <3>2
  <2>6. ASSUME NEW t \in Of(m + 1), t # {} PROVE h[t] = F[Topmost(t)][h[t \ {Topmost(t)}]]
    <3> HIDE DEF h, Of
    <3>1. CASE m \in t
      BY <2>2, <3>1
    <3>2. CASE m \notin t
      <4>1. t \in Of(m) /\ h[t] = it[t]
        BY <2>3, <3>2
      <4>2. h[t] = F[Topmost(t)][it[t \ {Topmost(t)}]]
        BY <2>1, <2>6, <4>1
      <4>3. t \ {Topmost(t)} \in Of(m + 1) /\ m \notin t \ {Topmost(t)}
        BY <2>6, <3>2 DEF Of
      <4> QED BY <2>3, <4>2, <4>3
    <3> QED BY <3>1, <3>2
  <2>7. Rec(m + 1, h)
    <3> HIDE DEF h, Of
    <3> QED BY <2>5, <2>6
  <2> HIDE DEF h, Of, Rec
  <2> QED BY <2>4, <2>7
<1>4. Solved(n)
  <2> HIDE DEF Solved
  <2>1. 0 \in T /\ \A m \in Nat : m \in T => m + 1 \in T
    BY <1>2, <1>3
  <2> HIDE DEF T
  <2>2. Nat \subseteq T
    BY <2>1, AllNumbers
  <2> QED BY <2>2 DEF T
<1>5. Of(n) = SUBSET S
  BY <1>1
<1> HIDE DEF Of
<1> QED BY <1>4, <1>5 DEF SetFold

\* W is given by its first value and by what follows each.
Iterates(W, V, v0, F) == W \in [Nat -> V] /\ W[0] = v0 /\ \A n \in Nat : W[n + 1] = F[W[n]]

\* Such a function of the numbers exists.
LEMMA IteratesExist ==
  ASSUME NEW V, NEW v0 \in V, NEW F \in [V -> V]
  PROVE  \E W : Iterates(W, V, v0, F)
<1> DEFINE Upto(f, m) == f \in [0..m -> V] /\ f[0] = v0 /\ \A i \in 1..m : f[i] = F[f[i - 1]]
           T == {m \in Nat : \E f : Upto(f, m)}
<1>1. 0 \in T
  <2> DEFINE f == [i \in 0..0 |-> v0]
  <2>1. Upto(f, 0)
    OBVIOUS
  <2> QED BY <2>1
<1>2. ASSUME NEW m \in Nat, m \in T PROVE m + 1 \in T
  <2>1. PICK f : Upto(f, m)
    BY <1>2
  <2> DEFINE h == [i \in 0..(m + 1) |-> IF i = m + 1 THEN F[f[m]] ELSE f[i]]
  <2>2. f[m] \in V /\ F[f[m]] \in V
    BY <2>1
  <2>3. h \in [0..(m + 1) -> V]
    BY <2>1, <2>2
  <2>4. h[0] = v0
    BY <2>1
  <2>5. ASSUME NEW i \in 1..(m + 1) PROVE h[i] = F[h[i - 1]]
    <3>1. CASE i = m + 1
      BY <3>1
    <3>2. CASE i \in 1..m
      BY <2>1, <3>2
    <3> QED BY <3>1, <3>2
  <2>6. Upto(h, m + 1)
    BY <2>3, <2>4, <2>5
  <2> HIDE DEF Upto, h
  <2> QED BY <2>6
<1>3. \A m \in Nat : \E f : Upto(f, m)
  <2>1. Nat \subseteq T
    <3> HIDE DEF T
    <3> QED BY <1>1, <1>2, AllNumbers
  <2> QED BY <2>1
<1> DEFINE G(m) == CHOOSE f : Upto(f, m)
<1>4. \A m \in Nat : Upto(G(m), m)
  <2> HIDE DEF Upto
  <2> QED BY <1>3
<1> HIDE DEF G
<1>5. ASSUME NEW m \in Nat PROVE G(m)[m] = G(m + 1)[m] /\ G(m + 1)[m + 1] = F[G(m)[m]] /\ G(m)[m] \in V
  <2> DEFINE A == {i \in 0..m : G(m)[i] = G(m + 1)[i]}
  <2>1. Upto(G(m), m) /\ Upto(G(m + 1), m + 1)
    <3> HIDE DEF Upto
    <3>1. m + 1 \in Nat
      OBVIOUS
    <3> QED BY <1>4, <3>1
  <2>2. 0 \in A
    BY <2>1
  <2>3. ASSUME NEW i \in 0..m, i \in A, i < m PROVE i + 1 \in A
    <3>1. i + 1 \in 1..m /\ i + 1 \in 1..(m + 1) /\ (i + 1) - 1 = i
      BY <2>3
    <3>2. G(m)[i + 1] = F[G(m)[i]] /\ G(m + 1)[i + 1] = F[G(m + 1)[i]]
      BY <2>1, <3>1
    <3> QED BY <2>3, <3>1, <3>2
  <2>4. 0..m \subseteq A
    <3> HIDE DEF A
    <3> QED BY <2>2, <2>3, AllIndices
  <2>5. m \in 0..m /\ m + 1 \in 1..(m + 1) /\ (m + 1) - 1 = m
    OBVIOUS
  <2> QED BY <2>1, <2>4, <2>5
<1> DEFINE W == [n \in Nat |-> G(n)[n]]
<1>6. W \in [Nat -> V]
  BY <1>5
<1>7. W[0] = v0
  BY <1>4
<1>8. ASSUME NEW n \in Nat PROVE W[n + 1] = F[W[n]]
  BY <1>5
<1> HIDE DEF W
<1> QED BY <1>6, <1>7, <1>8 DEF Iterates
=============================================================================
