-------------------------- MODULE OrderReadsProofs --------------------------
(***************************************************************************)
(* Proofs about OrderReads and MenuData: for every length of a day, every  *)
(* calendar and every place of the server what the ranges of the history   *)
(* hold, and for all orders and menus that the list of a device is in      *)
(* order, that the history and the sales add up, that devices see the      *)
(* menus and that Wolt is sent them.  MCOrderReads has the properties that *)
(* the run checks.                                                         *)
(*                                                                         *)
(* What a loop of the code computes is a fold.  A property of it is proved *)
(* for the set of the places up to which it holds: the set has the first   *)
(* place and with each place the next one (InductUpTo).                    *)
(***************************************************************************)
EXTENDS MCOrderReads, SequenceTheorems, WellFoundedInduction, FiniteSetTheorems, TLAPS

(***************************************************************************)
(* Least and greatest elements.                                            *)
(***************************************************************************)

\* A set of naturals that is not empty has a least element.
LEMMA MinFacts ==
    ASSUME NEW S \in SUBSET Nat, S # {}
    PROVE  Min(S) \in S /\ \A x \in S : Min(S) <= x
<1> DEFINE Less == {ss \in Nat \X Nat : ss[1] < ss[2]}
<1>1. IsWellFoundedOn(Less, Nat)
  BY NatLessThanWellFounded DEF OpToRel
<1>2. PICK m \in S : \A x \in S : <<x, m>> \notin Less
  <2> HIDE DEF Less
  <2>. QED  BY <1>1, WFMin
<1>3. \A x \in S : m <= x
  <2>. SUFFICES ASSUME NEW x \in S PROVE m <= x
    OBVIOUS
  <2>1. ~ (<<x, m>>[1] < <<x, m>>[2])
    BY <1>2
  <2>. QED  BY <2>1
<1>. QED  BY <1>3 DEF Min

\* And a greatest one, if it is bounded.
LEMMA MaxFacts ==
    ASSUME NEW S \in SUBSET Nat, S # {}, NEW n \in Int, \A x \in S : x <= n
    PROVE  Max(S) \in S /\ \A x \in S : x <= Max(S)
<1> DEFINE T == {n - x : x \in S}
<1>1. T \in SUBSET Nat /\ T # {}
  <2>1. \A x \in S : n - x \in Nat
    <3>. SUFFICES ASSUME NEW x \in S PROVE n - x \in Nat
      OBVIOUS
    <3>1. x \in Nat /\ x <= n
      OBVIOUS
    <3>. QED  BY <3>1
  <2>2. T \subseteq Nat
    BY <2>1
  <2>3. PICK x \in S : TRUE
    OBVIOUS
  <2>4. n - x \in T
    BY <2>3
  <2>. QED  BY <2>2, <2>4
<1>2. Min(T) \in T /\ \A y \in T : Min(T) <= y
  BY <1>1, MinFacts
<1>3. PICK m \in S : Min(T) = n - m
  BY <1>2
<1>4. \A x \in S : m >= x
  <2>. SUFFICES ASSUME NEW x \in S PROVE m >= x
    OBVIOUS
  <2>1. n - x \in T
    OBVIOUS
  <2>2. n - m <= n - x
    BY <1>2, <1>3, <2>1
  <2>. QED  BY <2>2
<1>. QED  BY <1>4 DEF Max

\* The greater of two naturals.
LEMMA MaxOfTwo ==
    ASSUME NEW a \in Nat, NEW b \in Nat
    PROVE  Max({a, b}) = IF a <= b THEN b ELSE a
<1> DEFINE S == {a, b}
<1>1. Max(S) \in S /\ \A x \in S : x <= Max(S)
  <2>1. PICK n \in Int : a <= n /\ b <= n
    <3>1. a + b \in Int /\ a <= a + b /\ b <= a + b
      OBVIOUS
    <3>. QED  BY <3>1
  <2>2. S \in SUBSET Nat /\ S # {} /\ \A x \in S : x <= n
    BY <2>1
  <2> HIDE DEF S
  <2>. QED  BY <2>2, MaxFacts
<1>. QED  BY <1>1

(***************************************************************************)
(* Induction, with a set for the formula.                                  *)
(***************************************************************************)

\* A set of naturals with 0 and with each one its successor has them all.
LEMMA NatInductive ==
    ASSUME NEW Good, 0 \in Good, \A n \in Nat : n \in Good => n + 1 \in Good
    PROVE  \A n \in Nat : n \in Good
<1> DEFINE Bad == {n \in Nat : n \notin Good}
<1>. SUFFICES ASSUME Bad # {} PROVE FALSE
  OBVIOUS
<1> DEFINE m == Min(Bad)
<1>1. m \in Bad /\ \A n \in Bad : m <= n
  <2>1. Bad \in SUBSET Nat
    OBVIOUS
  <2> HIDE DEF Bad
  <2>. QED  BY <2>1, MinFacts
<1> HIDE DEF m
<1>2. m \in Nat /\ m # 0
  BY <1>1
<1>3. m - 1 \in Nat /\ m - 1 \notin Bad
  BY <1>1, <1>2
<1>4. (m - 1) + 1 \in Good
  BY <1>3
<1>5. (m - 1) + 1 = m
  BY <1>2
<1>. QED  BY <1>1, <1>4, <1>5

\* A set with 0 and, below n, with each number its successor has all numbers up to n.
LEMMA InductUpTo ==
    ASSUME NEW n \in Nat, NEW Good, 0 \in Good, \A k \in 0..(n - 1) : k \in Good => k + 1 \in Good
    PROVE  \A k \in 0..n : k \in Good
<1> DEFINE All == {k \in Nat : k <= n => k \in Good}
<1>1. 0 \in All
  OBVIOUS
<1>2. \A k \in Nat : k \in All => k + 1 \in All
  <2>. SUFFICES ASSUME NEW k \in Nat, k \in All, k + 1 <= n PROVE k + 1 \in Good
    OBVIOUS
  <2>1. k \in 0..(n - 1) /\ k \in Good
    OBVIOUS
  <2>. QED  BY <2>1
<1>3. \A k \in Nat : k \in All
  <2> HIDE DEF All
  <2>. QED  BY <1>1, <1>2, NatInductive
<1>. QED  BY <1>3

\* A family of sets with {} and with each set those of one element more has every finite one.
LEMMA FiniteInductive ==
    ASSUME NEW S, IsFiniteSet(S), NEW Good, {} \in Good,
           \A T \in SUBSET S : \A x \in S \ T : T \in Good => T \union {x} \in Good
    PROVE  \A T \in SUBSET S : T \in Good
<1> DEFINE Sizes == {n \in Nat : \A T \in SUBSET S : Cardinality(T) = n => T \in Good}
<1>1. \A T \in SUBSET S : IsFiniteSet(T) /\ Cardinality(T) \in Nat /\ (Cardinality(T) = 0 <=> T = {})
  BY FS_Subset, FS_CardinalityType, FS_EmptySet
<1>2. 0 \in Sizes
  BY <1>1
<1>3. ASSUME NEW n \in Nat, n \in Sizes PROVE n + 1 \in Sizes
  <2>. SUFFICES ASSUME NEW T \in SUBSET S, Cardinality(T) = n + 1 PROVE T \in Good
    OBVIOUS
  <2>1. PICK x \in T : TRUE
    BY <1>1
  <2>2. Cardinality(T \ {x}) = n
    <3>1. IsFiniteSet(T)
      BY <1>1
    <3>2. Cardinality(T \ {x}) = Cardinality(T) - 1
      BY <2>1, <3>1, FS_RemoveElement
    <3>. QED  BY <3>2
  <2>3. T \ {x} \in Good
    BY <1>3, <2>2
  <2>4. (T \ {x}) \union {x} = T
    BY <2>1
  <2>5. x \in S \ (T \ {x}) /\ T \ {x} \in SUBSET S
    BY <2>1
  <2>. QED  BY <2>3, <2>4, <2>5
<1>4. \A n \in Nat : n \in Sizes
  <2> HIDE DEF Sizes
  <2>. QED  BY <1>2, <1>3, NatInductive
<1>. QED  BY <1>1, <1>4

\* A finite set of naturals has a bound.
LEMMA FiniteHasBound ==
    ASSUME NEW S, IsFiniteSet(S), S \in SUBSET Nat
    PROVE  \E n \in Nat : \A x \in S : x <= n
<1> DEFINE Good == {T \in SUBSET S : \E n \in Nat : \A x \in T : x <= n}
<1>1. {} \in Good
  OBVIOUS
<1>2. ASSUME NEW T \in SUBSET S, NEW x \in S \ T, T \in Good PROVE T \union {x} \in Good
  <2>1. PICK n \in Nat : \A y \in T : y <= n
    BY <1>2
  <2>2. x \in Nat /\ T \in SUBSET Nat /\ n + x \in Nat
    OBVIOUS
  <2>3. \A y \in T \union {x} : y <= n + x
    BY <2>1, <2>2
  <2>. QED  BY <2>2, <2>3
<1>3. S \in Good
  <2> HIDE DEF Good
  <2>. QED  BY <1>1, <1>2, FiniteInductive
<1>. QED  BY <1>3

(***************************************************************************)
(* Folds.                                                                  *)
(***************************************************************************)

\* h folds the elements of S into base with g, ch choosing which is the last one.
Chooses(ch, S) == \A s \in SUBSET S : s # {} => ch[s] \in s

StaysIn(g, S, V) == \A x \in S : \A v \in V : g[<<x, v>>] \in V

FoldsWith(h, S, V, base, ch, g) ==
    /\ h \in [SUBSET S -> V] /\ h[{}] = base
    /\ \A s \in SUBSET S : s # {} => h[s] = g[<<ch[s], h[s \ {ch[s]}]>>]

\* Every fold over a finite set exists.
LEMMA FoldExists ==
    ASSUME NEW S, IsFiniteSet(S), NEW V, NEW base \in V,
           NEW ch, Chooses(ch, S), NEW g, StaysIn(g, S, V)
    PROVE  \E h : FoldsWith(h, S, V, base, ch, g)
<1> USE DEF Chooses, StaysIn
<1> DEFINE Small(n) == {s \in SUBSET S : Cardinality(s) <= n}
           Solves(h, n) == \A s \in Small(n) :
                             h[s] = IF s = {} THEN base ELSE g[<<ch[s], h[s \ {ch[s]}]>>]
           Good == {n \in Nat : \E h \in [Small(n) -> V] : Solves(h, n)}
<1>1. \A s \in SUBSET S : IsFiniteSet(s) /\ Cardinality(s) \in Nat /\ (Cardinality(s) = 0 <=> s = {})
  BY FS_Subset, FS_CardinalityType, FS_EmptySet
<1>2. \A s \in SUBSET S : s # {} => /\ s \ {ch[s]} \in SUBSET S
                                    /\ Cardinality(s \ {ch[s]}) = Cardinality(s) - 1
  BY <1>1, FS_RemoveElement
<1>3. 0 \in Good
  <2> DEFINE h == [s \in Small(0) |-> base]
  <2>1. h \in [Small(0) -> V] /\ Solves(h, 0)
    BY <1>1
  <2>. QED  BY <2>1
<1>4. ASSUME NEW n \in Nat, n \in Good PROVE n + 1 \in Good
  <2>1. PICK h \in [Small(n) -> V] : Solves(h, n)
    BY <1>4
  <2> DEFINE k == [s \in Small(n + 1) |->
                     IF Cardinality(s) <= n THEN h[s] ELSE g[<<ch[s], h[s \ {ch[s]}]>>]]
  <2>2. \A s \in Small(n + 1) : s # {} => s \ {ch[s]} \in Small(n) /\ s \ {ch[s]} \in Small(n + 1)
    BY <1>1, <1>2
  <2>3. \A s \in Small(n) : s \in Small(n + 1) /\ k[s] = h[s] /\ h[s] \in V
    BY <1>1
  <2>4. ASSUME NEW s \in Small(n + 1)
        PROVE  k[s] \in V /\ k[s] = IF s = {} THEN base ELSE g[<<ch[s], k[s \ {ch[s]}]>>]
    <3>1. CASE s \in Small(n)
      <4>1. k[s] = h[s] /\ k[s] \in V
        BY <2>3, <3>1
      <4>2. s # {} => k[s \ {ch[s]}] = h[s \ {ch[s]}]
        BY <2>2, <2>3
      <4>3. h[s] = IF s = {} THEN base ELSE g[<<ch[s], h[s \ {ch[s]}]>>]
        BY <2>1, <3>1
      <4> HIDE DEF k
      <4>. QED  BY <4>1, <4>2, <4>3
    <3>2. CASE s \notin Small(n)
      <4>1. s # {} /\ ~ (Cardinality(s) <= n)
        BY <1>1, <3>2
      <4>2. k[s] = g[<<ch[s], h[s \ {ch[s]}]>>]
        BY <4>1
      <4>3. k[s \ {ch[s]}] = h[s \ {ch[s]}] /\ h[s \ {ch[s]}] \in V
        BY <2>2, <2>3, <4>1
      <4>4. ch[s] \in S
        BY <4>1
      <4> HIDE DEF k
      <4>. QED  BY <4>1, <4>2, <4>3, <4>4
    <3>. QED  BY <3>1, <3>2
  <2>5. k \in [Small(n + 1) -> V] /\ Solves(k, n + 1)
    <3>1. \A s \in Small(n + 1) : k[s] \in V
      BY <2>4
    <3>2. Solves(k, n + 1)
      BY <2>4
    <3>. QED  BY <3>1, <3>2
  <2>6. \E f \in [Small(n + 1) -> V] : Solves(f, n + 1)
    <3> HIDE DEF k, Solves
    <3>. QED  BY <2>5
  <2>7. n + 1 \in Nat
    OBVIOUS
  <2> HIDE DEF Solves, Small
  <2>. QED  BY <2>6, <2>7
<1>5. Cardinality(S) \in Good
  <2>1. \A n \in Nat : n \in Good
    <3> HIDE DEF Good
    <3>. QED  BY <1>3, <1>4, NatInductive
  <2>. QED  BY <2>1, <1>1
<1>6. Small(Cardinality(S)) = SUBSET S
  BY FS_Subset
<1>7. PICK h \in [SUBSET S -> V] : Solves(h, Cardinality(S))
  BY <1>5, <1>6
<1>8. FoldsWith(h, S, V, base, ch, g)
  BY <1>6, <1>7 DEF FoldsWith
<1>. QED  BY <1>8

\* The last of some places.
LEMMA LastPlace ==
    ASSUME NEW n \in Nat
    PROVE  /\ \A s \in SUBSET (1..n) : s # {} => Max(s) \in s
           /\ \A k \in 0..(n - 1) : /\ 1..(k + 1) \in SUBSET (1..n) /\ 1..(k + 1) # {}
                                    /\ Max(1..(k + 1)) = k + 1 /\ (1..(k + 1)) \ {k + 1} = 1..k
           /\ IsFiniteSet(1..n) /\ 1..0 = {}
<1>1. \A s \in SUBSET (1..n) : s # {} => Max(s) \in s
  <2>. SUFFICES ASSUME NEW s \in SUBSET (1..n), s # {} PROVE Max(s) \in s
    OBVIOUS
  <2>1. s \in SUBSET Nat /\ n \in Int /\ \A x \in s : x <= n
    OBVIOUS
  <2>. QED  BY <2>1, MaxFacts
<1>2. ASSUME NEW k \in 0..(n - 1)
      PROVE  /\ 1..(k + 1) \in SUBSET (1..n) /\ 1..(k + 1) # {}
             /\ Max(1..(k + 1)) = k + 1 /\ (1..(k + 1)) \ {k + 1} = 1..k
  <2>1. 1..(k + 1) \in SUBSET (1..n) /\ k + 1 \in 1..(k + 1) /\ (1..(k + 1)) \ {k + 1} = 1..k
    OBVIOUS
  <2>2. Max(1..(k + 1)) = k + 1
    <3>0. k \in Nat
      OBVIOUS
    <3> DEFINE s == 1..(k + 1)
    <3>2. k + 1 \in s /\ k + 1 \in Int
      BY <3>0
    <3>a. \A x \in s : x \in Nat /\ x <= k + 1
      BY <3>0
    <3>1. s \in SUBSET Nat /\ s # {} /\ k + 1 \in Int /\ \A x \in s : x <= k + 1
      <4> HIDE DEF s
      <4>. QED  BY <3>2, <3>a
    <3> HIDE DEF s
    <3>3. Max(s) \in s /\ \A x \in s : x <= Max(s)
      BY <3>1, MaxFacts
    <3>. QED  BY <3>1, <3>2, <3>3 DEF s
  <2>. QED  BY <2>1, <2>2
<1>3. IsFiniteSet(1..n)
  BY FS_Interval
<1>4. 1..0 = {}
  OBVIOUS
<1>. QED  BY <1>1, <1>2, <1>3, <1>4

\* A fold from the left has a value after each place.
IsLeftFold(h, n, base, g) ==
    h[{}] = base /\ \A s \in SUBSET (1..n) : s # {} => h[s] = g[<<Max(s), h[s \ {Max(s)}]>>]

\* Every fold over a sequence exists.
LEMMA LeftFoldExists ==
    ASSUME NEW n \in Nat, NEW V, NEW base \in V, NEW g, StaysIn(g, 1..n, V)
    PROVE  \E h \in [SUBSET (1..n) -> V] : IsLeftFold(h, n, base, g)
<1>1. PICK ch : ch = [s \in SUBSET (1..n) |-> Max(s)]
  OBVIOUS
<1>2. Chooses(ch, 1..n)
  BY <1>1, LastPlace DEF Chooses
<1>3. PICK h : FoldsWith(h, 1..n, V, base, ch, g)
  <2>1. IsFiniteSet(1..n)
    BY LastPlace
  <2>. QED  BY <1>2, <2>1, FoldExists
<1>4. h \in [SUBSET (1..n) -> V] /\ IsLeftFold(h, n, base, g)
  BY <1>1, <1>3 DEF FoldsWith, IsLeftFold
<1>. QED  BY <1>4

(***************************************************************************)
(* Sums.                                                                   *)
(***************************************************************************)

\* The sums of the subsets of S: SumFunctionOnSet takes the one there is.
IsSum(f, S, h) ==
    h = [s \in SUBSET S |-> IF s = {} THEN 0
                            ELSE f[CHOOSE x \in s : TRUE] + h[s \ {CHOOSE x \in s : TRUE}]]

\* Some h has the sum of every subset of S.
LEMMA SumExists ==
    ASSUME NEW S, IsFiniteSet(S), NEW f, \A x \in S : f[x] \in Int
    PROVE  \E h \in [SUBSET S -> Int] : IsSum(f, S, h)
<1>1. PICK ch : ch = [s \in SUBSET S |-> CHOOSE x \in s : TRUE]
  OBVIOUS
<1>2. PICK g : g = [p \in S \X Int |-> f[p[1]] + p[2]]
  OBVIOUS
<1>3. \A s \in SUBSET S : s # {} => ch[s] \in s /\ ch[s] = CHOOSE x \in s : TRUE
  BY <1>1
<1>4. \A x \in S : \A v \in Int : g[<<x, v>>] = f[x] + v /\ g[<<x, v>>] \in Int
  BY <1>2
<1>5. PICK h : FoldsWith(h, S, Int, 0, ch, g)
  <2>1. Chooses(ch, S)
    BY <1>3 DEF Chooses
  <2>2. 0 \in Int /\ StaysIn(g, S, Int)
    BY <1>4 DEF StaysIn
  <2>. QED  BY <2>1, <2>2, FoldExists
<1>6. ASSUME NEW s \in SUBSET S, s # {}
      PROVE  g[<<ch[s], h[s \ {ch[s]}]>>] = f[CHOOSE x \in s : TRUE] + h[s \ {CHOOSE x \in s : TRUE}]
  <2>1. ch[s] \in S /\ h[s \ {ch[s]}] \in Int
    BY <1>3, <1>5, <1>6 DEF FoldsWith
  <2>. QED  BY <1>3, <1>4, <1>6, <2>1
<1>7. \A s \in SUBSET S : h[s] = IF s = {} THEN 0
                                 ELSE f[CHOOSE x \in s : TRUE] + h[s \ {CHOOSE x \in s : TRUE}]
  BY <1>5, <1>6 DEF FoldsWith
<1>8. h \in [SUBSET S -> Int]
  BY <1>5 DEF FoldsWith
<1>. QED  BY <1>7, <1>8 DEF IsSum

\* No two functions have the sums of the subsets of S.
LEMMA SumUnique ==
    ASSUME NEW S, IsFiniteSet(S), NEW f, NEW T \in SUBSET S,
           NEW h, NEW k, IsSum(f, S, h), IsSum(f, T, k)
    PROVE  \A s \in SUBSET T : h[s] = k[s]
<1> DEFINE Bad == {n \in Nat : \E s \in SUBSET T : Cardinality(s) = n /\ h[s] # k[s]}
<1>1. \A s \in SUBSET T : IsFiniteSet(s) /\ Cardinality(s) \in Nat
  BY FS_Subset, FS_CardinalityType
<1>. SUFFICES ASSUME Bad # {} PROVE FALSE
  BY <1>1
<1>2. Min(Bad) \in Bad /\ \A n \in Bad : Min(Bad) <= n
  <2>1. Bad \in SUBSET Nat
    OBVIOUS
  <2> HIDE DEF Bad
  <2>. QED  BY <2>1, MinFacts
<1>3. PICK s \in SUBSET T : Cardinality(s) = Min(Bad) /\ h[s] # k[s]
  BY <1>2
<1> DEFINE c == CHOOSE x \in s : TRUE
<1>4. /\ h[s] = IF s = {} THEN 0 ELSE f[c] + h[s \ {c}]
      /\ k[s] = IF s = {} THEN 0 ELSE f[c] + k[s \ {c}]
  BY DEF IsSum
<1>5. s # {} /\ h[s \ {c}] # k[s \ {c}]
  BY <1>3, <1>4
<1>6. c \in s
  BY <1>5
<1>7. Cardinality(s \ {c}) = Cardinality(s) - 1
  BY <1>1, <1>6, FS_RemoveElement
<1>8. s \ {c} \in SUBSET T
  OBVIOUS
<1> HIDE DEF c
<1>9. Cardinality(s \ {c}) \in Bad
  BY <1>1, <1>5, <1>8
<1> HIDE DEF Bad
<1>10. Min(Bad) <= Cardinality(s) - 1
  BY <1>2, <1>7, <1>9
<1>. QED  BY <1>1, <1>3, <1>10

\* SumFunctionOnSet is the sum that every such h has.
LEMMA SumIs ==
    ASSUME NEW S, IsFiniteSet(S), NEW f, \A x \in S : f[x] \in Int,
           NEW T \in SUBSET S, NEW h, IsSum(f, S, h)
    PROVE  SumFunctionOnSet(f, T) = h[T] /\ h[T] \in Int
<1> DEFINE k == CHOOSE k : IsSum(f, T, k)
<1>1. IsFiniteSet(T)
  BY FS_Subset
<1>2. PICK e \in [SUBSET T -> Int] : IsSum(f, T, e)
  BY <1>1, SumExists
<1>3. IsSum(f, T, k)
  BY <1>2
<1>4. SumFunctionOnSet(f, T) = k[T]
  BY DEF SumFunctionOnSet, FoldFunctionOnSet, MapThenFoldSet, IsSum
<1> HIDE DEF k
<1>5. h[T] = k[T] /\ h[T] = e[T]
  <2>1. h[T] = k[T]
    BY <1>3, SumUnique
  <2>2. h[T] = e[T]
    BY <1>2, SumUnique
  <2>. QED  BY <2>1, <2>2
<1>. QED  BY <1>2, <1>4, <1>5

\* A sum of integers is an integer.
LEMMA SumType ==
    ASSUME NEW S, IsFiniteSet(S), NEW f, \A x \in S : f[x] \in Int
    PROVE  /\ \A T \in SUBSET S : SumFunctionOnSet(f, T) \in Int
           /\ SumFunctionOnSet(f, {}) = 0
<1>1. PICK h : IsSum(f, S, h)
  BY SumExists
<1>2. \A T \in SUBSET S : SumFunctionOnSet(f, T) = h[T] /\ h[T] \in Int
  BY <1>1, SumIs
<1>3. h[{}] = 0
  BY <1>1 DEF IsSum
<1>. QED  BY <1>2, <1>3

\* A sum is one of its terms and the sum of the others.
LEMMA SumRemove ==
    ASSUME NEW S, IsFiniteSet(S), NEW f, \A x \in S : f[x] \in Int, NEW z \in S
    PROVE  SumFunctionOnSet(f, S) = f[z] + SumFunctionOnSet(f, S \ {z})
<1> DEFINE Sum(T) == SumFunctionOnSet(f, T)
           Good == {T \in SUBSET S : \A x \in T : Sum(T) = f[x] + Sum(T \ {x})}
           Bad == {n \in Nat : \E T \in SUBSET S : Cardinality(T) = n /\ T \notin Good}
<1>1. \A T \in SUBSET S : IsFiniteSet(T) /\ Cardinality(T) \in Nat
  BY FS_Subset, FS_CardinalityType
<1>2. \A T \in SUBSET S : Sum(T) \in Int
  BY SumType
<1>3. ASSUME NEW T \in SUBSET S, T # {}
      PROVE  Sum(T) = f[CHOOSE x \in T : TRUE] + Sum(T \ {CHOOSE x \in T : TRUE})
  <2>1. PICK h : IsSum(f, S, h)
    BY SumExists
  <2>2. \A s \in SUBSET S : Sum(s) = h[s]
    BY <2>1, SumIs
  <2>3. h[T] = f[CHOOSE x \in T : TRUE] + h[T \ {CHOOSE x \in T : TRUE}]
    BY <1>3, <2>1 DEF IsSum
  <2>4. T \ {CHOOSE x \in T : TRUE} \in SUBSET S
    OBVIOUS
  <2> HIDE DEF Sum
  <2>. QED  BY <2>2, <2>3, <2>4
<1> HIDE DEF Sum
<1>4. ASSUME Bad # {} PROVE FALSE
  <2>1. Min(Bad) \in Bad /\ \A n \in Bad : Min(Bad) <= n
    <3>1. Bad \in SUBSET Nat
      OBVIOUS
    <3> HIDE DEF Bad
    <3>. QED  BY <1>4, <3>1, MinFacts
  <2>2. PICK T \in SUBSET S : Cardinality(T) = Min(Bad) /\ T \notin Good
    BY <2>1
  <2>3. PICK x \in T : Sum(T) # f[x] + Sum(T \ {x})
    BY <2>2
  <2> DEFINE c == CHOOSE y \in T : TRUE
  <2>4. c \in T /\ Sum(T) = f[c] + Sum(T \ {c})
    BY <1>3, <2>3
  <2> HIDE DEF c
  <2>5. c # x
    BY <2>3, <2>4
  <2>6. \A y \in T : T \ {y} \in Good
    <3>. SUFFICES ASSUME NEW y \in T PROVE T \ {y} \in Good
      OBVIOUS
    <3>1. Cardinality(T \ {y}) = Cardinality(T) - 1
      BY <1>1, FS_RemoveElement
    <3>2. Cardinality(T \ {y}) \in Nat /\ Cardinality(T) \in Nat /\ T \ {y} \in SUBSET S
      BY <1>1
    <3>3. T \ {y} \notin Good => Cardinality(T \ {y}) \in Bad
      BY <3>2
    <3> HIDE DEF Bad
    <3>4. Cardinality(T \ {y}) \notin Bad
      BY <2>1, <2>2, <3>1, <3>2
    <3>. QED  BY <3>3, <3>4
  <2>7. x \in T \ {c} /\ c \in T \ {x}
    BY <2>4, <2>5
  <2>8. Sum(T \ {c}) = f[x] + Sum((T \ {c}) \ {x}) /\ Sum(T \ {x}) = f[c] + Sum((T \ {x}) \ {c})
    BY <2>4, <2>6, <2>7
  <2>9. (T \ {c}) \ {x} = (T \ {x}) \ {c} /\ (T \ {c}) \ {x} \in SUBSET S
    OBVIOUS
  <2>10. PICK rest \in Int : rest = Sum((T \ {c}) \ {x}) /\ rest = Sum((T \ {x}) \ {c})
    BY <1>2, <2>9
  <2>11. f[x] \in Int /\ f[c] \in Int
    BY <2>4
  <2>12. Sum(T) = f[c] + (f[x] + rest) /\ Sum(T) # f[x] + (f[c] + rest)
    BY <2>3, <2>4, <2>8, <2>10
  <2>. QED  BY <2>10, <2>11, <2>12
<1>5. S \in Good
  BY <1>1, <1>4
<1>. QED  BY <1>5 DEF Sum

\* A sum of one more.
LEMMA SumAdd ==
    ASSUME NEW P, IsFiniteSet(P), NEW f, \A x \in P : f[x] \in Int,
           NEW S \in SUBSET P, NEW z \in P \ S
    PROVE  SumFunctionOnSet(f, S \union {z}) = SumFunctionOnSet(f, S) + f[z] /\ SumFunctionOnSet(f, S) \in Int
<1>1. IsFiniteSet(S \union {z}) /\ z \in S \union {z} /\ \A x \in S \union {z} : f[x] \in Int
  BY FS_Subset
<1>2. SumFunctionOnSet(f, S \union {z}) = f[z] + SumFunctionOnSet(f, (S \union {z}) \ {z})
  BY <1>1, SumRemove
<1>3. (S \union {z}) \ {z} = S
  OBVIOUS
<1>4. SumFunctionOnSet(f, S) \in Int
  BY SumType
<1>5. SumFunctionOnSet(f, (S \union {z}) \ {z}) = SumFunctionOnSet(f, S)
  BY <1>3
<1>6. PICK a \in Int : a = SumFunctionOnSet(f, S)
  BY <1>4
<1>7. PICK b \in Int : b = f[z]
  OBVIOUS
<1>8. SumFunctionOnSet(f, S \union {z}) = b + a
  BY <1>2, <1>5, <1>6, <1>7
<1>. QED  BY <1>6, <1>7, <1>8

\* A sum over two sets that share nothing.
LEMMA SumUnion ==
    ASSUME NEW S, IsFiniteSet(S), NEW f, \A x \in S : f[x] \in Int,
           NEW A \in SUBSET S, NEW B \in SUBSET S, A \intersect B = {}
    PROVE  SumFunctionOnSet(f, A \union B) = SumFunctionOnSet(f, A) + SumFunctionOnSet(f, B)
<1> DEFINE Sum(T) == SumFunctionOnSet(f, T)
           Good == {T \in SUBSET B : Sum(A \union T) = Sum(A) + Sum(T)}
<1>1. \A T \in SUBSET S : IsFiniteSet(T) /\ Sum(T) \in Int
  BY SumType, FS_Subset
<1>2. {} \in Good
  <2>1. Sum({}) = 0 /\ Sum(A) \in Int
    BY <1>1, SumType
  <2>2. A \union {} = A
    OBVIOUS
  <2> HIDE DEF Sum
  <2>. QED  BY <2>1, <2>2
<1>3. ASSUME NEW T \in SUBSET B, NEW x \in B \ T, T \in Good
      PROVE  T \union {x} \in Good
  <2>1. /\ IsFiniteSet(T \union {x}) /\ IsFiniteSet(A \union (T \union {x}))
        /\ Sum(A) \in Int /\ Sum(T) \in Int /\ f[x] \in Int
    BY <1>1
  <2>2. Sum(T \union {x}) = f[x] + Sum((T \union {x}) \ {x})
    <3>1. x \in T \union {x} /\ \A y \in T \union {x} : f[y] \in Int
      OBVIOUS
    <3>. QED  BY <2>1, <3>1, SumRemove
  <2>3. Sum(A \union (T \union {x})) = f[x] + Sum((A \union (T \union {x})) \ {x})
    <3>1. x \in A \union (T \union {x}) /\ \A y \in A \union (T \union {x}) : f[y] \in Int
      OBVIOUS
    <3>. QED  BY <2>1, <3>1, SumRemove
  <2>4. (T \union {x}) \ {x} = T /\ (A \union (T \union {x})) \ {x} = A \union T
    OBVIOUS
  <2>5. Sum(A \union T) = Sum(A) + Sum(T)
    BY <1>3
  <2> HIDE DEF Sum
  <2>6. Sum(A \union (T \union {x})) = f[x] + (Sum(A) + Sum(T)) /\ Sum(T \union {x}) = f[x] + Sum(T)
    BY <2>2, <2>3, <2>4, <2>5
  <2>7. Sum(A \union (T \union {x})) = Sum(A) + Sum(T \union {x})
    BY <2>1, <2>6
  <2>8. T \union {x} \in SUBSET B
    OBVIOUS
  <2>. QED  BY <2>7, <2>8
<1>4. B \in Good
  <2>1. IsFiniteSet(B)
    BY <1>1
  <2>2. \A T \in SUBSET B : \A x \in B \ T : T \in Good => T \union {x} \in Good
    BY <1>3
  <2> HIDE DEF Good
  <2>3. \A T \in SUBSET B : T \in Good
    BY <1>2, <2>1, <2>2, FiniteInductive
  <2>. QED  BY <2>3
<1>. QED  BY <1>4

\* A sum depends on its terms alone.
LEMMA SumSame ==
    ASSUME NEW S, IsFiniteSet(S), NEW f, \A x \in S : f[x] \in Int,
           NEW g, \A x \in S : g[x] = f[x]
    PROVE  SumFunctionOnSet(g, S) = SumFunctionOnSet(f, S)
<1> DEFINE Good == {T \in SUBSET S : SumFunctionOnSet(g, T) = SumFunctionOnSet(f, T)}
<1>1. {} \in Good
  BY SumType
<1>2. ASSUME NEW T \in SUBSET S, NEW x \in S \ T, T \in Good
      PROVE  T \union {x} \in Good
  <2>1. IsFiniteSet(T \union {x}) /\ x \in T \union {x} /\ T \union {x} \in SUBSET S
    BY FS_Subset
  <2>2. (T \union {x}) \ {x} = T
    OBVIOUS
  <2>3. SumFunctionOnSet(f, T \union {x}) = f[x] + SumFunctionOnSet(f, (T \union {x}) \ {x})
    <3>1. \A y \in T \union {x} : f[y] \in Int
      OBVIOUS
    <3>. QED  BY <2>1, <3>1, SumRemove
  <2>4. SumFunctionOnSet(g, T \union {x}) = g[x] + SumFunctionOnSet(g, (T \union {x}) \ {x})
    <3>1. \A y \in T \union {x} : g[y] \in Int
      OBVIOUS
    <3>. QED  BY <2>1, <3>1, SumRemove
  <2>. QED  BY <1>2, <2>1, <2>2, <2>3, <2>4
<1>3. S \in Good
  <2> HIDE DEF Good
  <2>. QED  BY <1>1, <1>2, FiniteInductive
<1>. QED  BY <1>3

(***************************************************************************)
(* Orders.                                                                 *)
(***************************************************************************)

\* R is a strict total order of S.
IsOrder(S, R) ==
    /\ \A x \in S : <<x, x>> \notin R
    /\ \A x, y \in S : x # y => <<x, y>> \in R \/ <<y, x>> \in R
    /\ \A x, y, z \in S : <<x, y>> \in R /\ <<y, z>> \in R => <<x, z>> \in R

\* The elements of S before x.
Before(x, S, R) == {y \in S : <<y, x>> \in R}

\* Fewer elements come before the one that comes before.
LEMMA BeforeFacts ==
    ASSUME NEW S, IsFiniteSet(S), NEW R, IsOrder(S, R), NEW x \in S
    PROVE  /\ Cardinality(Before(x, S, R)) \in 0..(Cardinality(S) - 1)
           /\ \A y \in S : <<x, y>> \in R => Cardinality(Before(x, S, R)) < Cardinality(Before(y, S, R))
<1>1. \A y \in S : IsFiniteSet(Before(y, S, R)) /\ Cardinality(Before(y, S, R)) \in Nat
  <2>. SUFFICES ASSUME NEW y \in S
                PROVE  IsFiniteSet(Before(y, S, R)) /\ Cardinality(Before(y, S, R)) \in Nat
    OBVIOUS
  <2>1. Before(y, S, R) \in SUBSET S
    BY DEF Before
  <2>. QED  BY <2>1, FS_Subset, FS_CardinalityType
<1>2. Cardinality(Before(x, S, R)) <= Cardinality(S) - 1
  <2>1. Before(x, S, R) \in SUBSET (S \ {x})
    BY DEF Before, IsOrder
  <2>2. IsFiniteSet(S \ {x}) /\ Cardinality(S \ {x}) = Cardinality(S) - 1
    BY FS_RemoveElement
  <2>3. Cardinality(Before(x, S, R)) <= Cardinality(S \ {x})
    BY <2>1, <2>2, FS_Subset
  <2>. QED  BY <2>2, <2>3
<1>3. ASSUME NEW y \in S, <<x, y>> \in R
      PROVE  Cardinality(Before(x, S, R)) < Cardinality(Before(y, S, R))
  <2>1. Before(x, S, R) \in SUBSET Before(y, S, R)
    BY <1>3 DEF Before, IsOrder
  <2>2. x \in Before(y, S, R) /\ x \notin Before(x, S, R)
    BY <1>3 DEF Before, IsOrder
  <2>3. /\ Cardinality(Before(x, S, R)) <= Cardinality(Before(y, S, R))
        /\ Cardinality(Before(y, S, R)) = Cardinality(Before(x, S, R)) => Before(y, S, R) = Before(x, S, R)
    BY <1>1, <2>1, FS_Subset
  <2>. QED  BY <1>1, <2>2, <2>3
<1>4. Cardinality(S) \in Nat
  BY FS_CardinalityType
<1>. QED  BY <1>1, <1>2, <1>3, <1>4

\* The elements in order: each at the place that those before it leave.
LEMMA InOrderFacts ==
    ASSUME NEW S, IsFiniteSet(S), NEW R, IsOrder(S, R)
    PROVE  /\ Cardinality(S) \in Nat
           /\ InOrder(S, R) \in [1..Cardinality(S) -> S]
           /\ \A x \in S : /\ Cardinality(Before(x, S, R)) + 1 \in 1..Cardinality(S)
                           /\ InOrder(S, R)[Cardinality(Before(x, S, R)) + 1] = x
           /\ \A i, j \in 1..Cardinality(S) : i < j => <<InOrder(S, R)[i], InOrder(S, R)[j]>> \in R
<1> DEFINE n == Cardinality(S)
           PlaceIs(x) == Cardinality(Before(x, S, R)) + 1
           r == [x \in S |-> PlaceIs(x)]
           s == InOrder(S, R)
<1>1. n \in Nat /\ IsFiniteSet(1..n) /\ Cardinality(1..n) = n
  BY FS_CardinalityType, FS_Interval
<1>2. \A x \in S : PlaceIs(x) \in 1..n /\ Cardinality(Before(x, S, R)) \in Nat
  <2>1. \A x \in S : Cardinality(Before(x, S, R)) \in 0..(n - 1)
    BY BeforeFacts
  <2>. QED  BY <1>1, <2>1
<1>3. \A x, y \in S : <<x, y>> \in R => PlaceIs(x) < PlaceIs(y)
  <2>1. \A x, y \in S : <<x, y>> \in R => Cardinality(Before(x, S, R)) < Cardinality(Before(y, S, R))
    BY BeforeFacts
  <2>. QED  BY <1>2, <2>1
<1> HIDE DEF PlaceIs
<1>4. \A x, y \in S : PlaceIs(x) = PlaceIs(y) => x = y
  <2>. SUFFICES ASSUME NEW x \in S, NEW y \in S, x # y PROVE PlaceIs(x) # PlaceIs(y)
    OBVIOUS
  <2>1. PlaceIs(x) \in Int /\ PlaceIs(y) \in Int
    BY <1>2
  <2>2. PlaceIs(x) < PlaceIs(y) \/ PlaceIs(y) < PlaceIs(x)
    BY <1>3 DEF IsOrder
  <2>. QED  BY <2>1, <2>2
<1>5. r \in Injection(S, 1..n)
  BY <1>2, <1>4 DEF Injection, IsInjective
<1>6. r \in Surjection(S, 1..n)
  <2> HIDE DEF r
  <2>. QED  BY <1>1, <1>5, FS_Injection
<1>7. \A k \in 1..n : \E x \in S : PlaceIs(x) = k
  BY <1>6 DEF Surjection
<1>8. \A k \in 1..n : s[k] \in S /\ PlaceIs(s[k]) = k
  <2>. SUFFICES ASSUME NEW k \in 1..n PROVE s[k] \in S /\ PlaceIs(s[k]) = k
    OBVIOUS
  <2>1. s[k] = CHOOSE x \in S : Cardinality(Before(x, S, R)) = k - 1
    BY DEF InOrder, Before
  <2>2. \E x \in S : Cardinality(Before(x, S, R)) = k - 1
    BY <1>2, <1>7 DEF PlaceIs
  <2>3. s[k] \in S /\ Cardinality(Before(s[k], S, R)) = k - 1
    BY <2>1, <2>2
  <2> HIDE DEF s
  <2>. QED  BY <2>3 DEF PlaceIs
<1>9. s \in [1..n -> S]
  BY <1>8 DEF InOrder
<1>10. \A x \in S : s[PlaceIs(x)] = x
  BY <1>2, <1>4, <1>8
<1>11. \A i, j \in 1..n : i < j => <<s[i], s[j]>> \in R
  <2>. SUFFICES ASSUME NEW i \in 1..n, NEW j \in 1..n, i < j PROVE <<s[i], s[j]>> \in R
    OBVIOUS
  <2>1. s[i] \in S /\ s[j] \in S /\ PlaceIs(s[i]) = i /\ PlaceIs(s[j]) = j
    BY <1>8
  <2> HIDE DEF s
  <2>2. s[i] # s[j] /\ <<s[j], s[i]>> \notin R
    BY <1>3, <2>1
  <2>. QED  BY <2>1, <2>2 DEF IsOrder
<1>. QED  BY <1>1, <1>2, <1>9, <1>10, <1>11 DEF PlaceIs

\* R and Q order the elements of S alike.
AgreeOn(S, R, Q) == \A x, y \in S : <<x, y>> \in Q <=> <<x, y>> \in R

\* Q puts every element of S before z.
IsLast(z, S, Q) == \A x \in S : <<x, z>> \in Q

\* Q is R with z behind all elements of S.
PutLast(z, S, R, Q) ==
    /\ Cardinality(S) \in Nat /\ Cardinality(S \union {z}) = Cardinality(S) + 1
    /\ InOrder(S \union {z}, Q)[Cardinality(S) + 1] = z
    /\ \A k \in 1..Cardinality(S) : InOrder(S \union {z}, Q)[k] = InOrder(S, R)[k]

\* One more that comes after all others is put behind them.
LEMMA InOrderExtends ==
    ASSUME NEW S, IsFiniteSet(S), NEW z, z \notin S, NEW R, IsOrder(S, R),
           NEW Q, IsOrder(S \union {z}, Q), AgreeOn(S, R, Q), IsLast(z, S, Q)
    PROVE  PutLast(z, S, R, Q)
<1> DEFINE n == Cardinality(S)
           T == S \union {z}
           s == InOrder(S, R)
           t == InOrder(T, Q)
<1>1. n \in Nat /\ IsFiniteSet(T) /\ Cardinality(T) = n + 1
  BY FS_CardinalityType, FS_AddElement
<1>2. \A x \in T : t[Cardinality(Before(x, T, Q)) + 1] = x
  BY <1>1, InOrderFacts
<1>3. /\ s \in [1..n -> S]
      /\ \A x \in S : Cardinality(Before(x, S, R)) + 1 \in 1..n /\ s[Cardinality(Before(x, S, R)) + 1] = x
      /\ \A i, j \in 1..n : i < j => <<s[i], s[j]>> \in R
  BY InOrderFacts
<1>4. Before(z, T, Q) = S
  BY DEF Before, IsOrder, IsLast
<1>5. t[n + 1] = z
  BY <1>2, <1>4
<1>6. ASSUME NEW x \in S PROVE Before(x, T, Q) = Before(x, S, R)
  <2>1. <<z, x>> \notin Q
    BY DEF IsOrder, IsLast
  <2>. QED  BY <2>1 DEF Before, AgreeOn
<1>7. ASSUME NEW k \in 1..n PROVE t[k] = s[k]
  <2> DEFINE x == s[k]
             j == Cardinality(Before(x, S, R)) + 1
  <2>1. x \in S /\ j \in 1..n /\ s[j] = x
    BY <1>3
  <2>2. t[j] = x
    <3>1. x \in T /\ Before(x, T, Q) = Before(x, S, R)
      BY <1>6, <2>1
    <3>2. t[Cardinality(Before(x, T, Q)) + 1] = x
      BY <1>2, <3>1
    <3>. QED  BY <3>1, <3>2
  <2>3. j = k
    <3> HIDE DEF j, s, t
    <3>1. j \in Int /\ k \in Int
      BY <1>1, <2>1
    <3>2. j < k => <<x, x>> \in R
      BY <1>3, <2>1
    <3>3. k < j => <<x, x>> \in R
      BY <1>3, <2>1
    <3>4. <<x, x>> \notin R
      BY <2>1 DEF IsOrder
    <3>. QED  BY <3>1, <3>2, <3>3, <3>4
  <2>. QED  BY <2>2, <2>3
<1>. QED  BY <1>1, <1>5, <1>7 DEF PutLast

(***************************************************************************)
(* What is kept of a sequence, and how often it has what.                  *)
(***************************************************************************)

\* The order of numbers.
AscendingOrder(places) == {p \in places \X places : p[1] < p[2]}

\* Numbers by size are in a strict total order.
LEMMA AscendingIsOrder ==
    ASSUME NEW places \in SUBSET Nat
    PROVE  IsOrder(places, AscendingOrder(places))
<1>1. \A i, j \in places : <<i, j>> \in AscendingOrder(places) <=> i < j
  BY DEF AscendingOrder
<1>2. \A i, j \in places : i # j => i < j \/ j < i
  OBVIOUS
<1>3. \A i, j, k \in places : i < j /\ j < k => i < k
  OBVIOUS
<1>4. \A i \in places : ~ (i < i)
  OBVIOUS
<1>. QED  BY <1>1, <1>2, <1>3, <1>4 DEF IsOrder

\* The places in ascending order: each once.
LEMMA AscendingFacts ==
    ASSUME NEW places \in SUBSET Nat, IsFiniteSet(places)
    PROVE  /\ Cardinality(places) \in Nat
           /\ Ascending(places) \in [1..Cardinality(places) -> places]
           /\ \A i \in places : /\ Cardinality({j \in places : j < i}) + 1 \in 1..Cardinality(places)
                                /\ Ascending(places)[Cardinality({j \in places : j < i}) + 1] = i
           /\ \A i, j \in 1..Cardinality(places) : i < j => Ascending(places)[i] < Ascending(places)[j]
<1> DEFINE R == AscendingOrder(places)
           n == Cardinality(places)
<1>1. \A i \in places : Before(i, places, R) = {j \in places : j < i}
  BY DEF Before, AscendingOrder
<1>2. Ascending(places) = InOrder(places, R)
  BY DEF Ascending, AscendingOrder
<1>3. /\ n \in Nat /\ InOrder(places, R) \in [1..n -> places]
      /\ \A i \in places : /\ Cardinality(Before(i, places, R)) + 1 \in 1..n
                           /\ InOrder(places, R)[Cardinality(Before(i, places, R)) + 1] = i
      /\ \A i, j \in 1..n : i < j => <<InOrder(places, R)[i], InOrder(places, R)[j]>> \in R
  BY AscendingIsOrder, InOrderFacts
<1>4. \A i, j : <<i, j>> \in R => i < j
  BY DEF AscendingOrder
<1> HIDE DEF R, n
<1>. QED  BY <1>1, <1>2, <1>3, <1>4 DEF n

\* A rising function hits no value twice.
LEMMA RisingIsInjective ==
    ASSUME NEW n \in Nat, NEW f \in [1..n -> Int], \A i, j \in 1..n : i < j => f[i] < f[j]
    PROVE  \A i, j \in 1..n : f[i] = f[j] => i = j
OBVIOUS

\* The first numbers are in ascending order already.
LEMMA AscendingFirst ==
    ASSUME NEW n \in Nat, NEW k \in 1..n
    PROVE  Cardinality(1..n) = n /\ Ascending(1..n)[k] = k
<1>1. {j \in 1..n : j < k} = 1..(k - 1)
  OBVIOUS
<1>2. Cardinality(1..(k - 1)) = k - 1 /\ Cardinality(1..n) = n /\ IsFiniteSet(1..n)
  BY FS_Interval
<1>3. Ascending(1..n)[Cardinality({j \in 1..n : j < k}) + 1] = k
  <2>1. 1..n \in SUBSET Nat
    OBVIOUS
  <2>. QED  BY <1>2, <2>1, AscendingFacts
<1>4. Ascending(1..n)[(k - 1) + 1] = k
  BY <1>1, <1>2, <1>3
<1>. QED  BY <1>2, <1>4

\* What is kept of a sequence.
LEMMA KeptFacts ==
    ASSUME NEW V, NEW seq \in Seq(V), NEW places \in SUBSET DOMAIN seq
    PROVE  /\ places \in SUBSET Nat /\ IsFiniteSet(places) /\ Cardinality(places) \in Nat
           /\ Kept(seq, places) \in Seq(V) /\ Len(Kept(seq, places)) = Cardinality(places)
           /\ DOMAIN Kept(seq, places) = 1..Cardinality(places)
           /\ \A k \in 1..Cardinality(places) : Kept(seq, places)[k] = seq[Ascending(places)[k]]
<1>1. DOMAIN seq = 1..Len(seq) /\ Len(seq) \in Nat /\ \A i \in DOMAIN seq : seq[i] \in V
  OBVIOUS
<1>2. places \in SUBSET Nat /\ IsFiniteSet(places)
  <2>1. IsFiniteSet(1..Len(seq))
    BY <1>1, FS_Interval
  <2>. QED  BY <1>1, <2>1, FS_Subset
<1>3. Cardinality(places) \in Nat /\ Ascending(places) \in [1..Cardinality(places) -> places]
  BY <1>2, AscendingFacts
<1>4. \A k \in 1..Cardinality(places) : Kept(seq, places)[k] = seq[Ascending(places)[k]] /\ seq[Ascending(places)[k]] \in V
  BY <1>1, <1>3 DEF Kept
<1>5. Kept(seq, places) = [k \in 1..Cardinality(places) |-> Kept(seq, places)[k]]
  BY DEF Kept
<1>6. PICK s \in [1..Cardinality(places) -> V] : s = Kept(seq, places)
  BY <1>4, <1>5
<1>7. s \in Seq(V) /\ Len(s) = Cardinality(places) /\ DOMAIN s = 1..Cardinality(places)
  BY <1>3
<1>. QED  BY <1>2, <1>3, <1>4, <1>6, <1>7

\* f takes each of the places once.
Enumerates(f, n, places) ==
    /\ f \in [1..n -> places]
    /\ \A i, j \in 1..n : f[i] = f[j] => i = j
    /\ \A p \in places : \E k \in 1..n : f[k] = p

\* s is t in the order of f.
Follows(s, t, f, n) == \A k \in 1..n : s[k] = t[f[k]]

\* The places at which s has x.
PlacesOf(x, s, places) == {k \in places : s[k] = x}

\* A sequence that takes each place of another one once has everything as often.
LEMMA CountRearranged ==
    ASSUME NEW n \in Nat, NEW places, NEW f, Enumerates(f, n, places), NEW s, NEW t, Follows(s, t, f, n), NEW x
    PROVE  Cardinality(PlacesOf(x, s, 1..n)) = Cardinality(PlacesOf(x, t, places))
<1> DEFINE A == {k \in 1..n : s[k] = x}
           B == {p \in places : t[p] = x}
           g == [k \in A |-> f[k]]
<1>1. g \in [A -> B] /\ \A i, j \in A : g[i] = g[j] => i = j
  BY DEF Enumerates, Follows
<1>2. \A p \in B : \E k \in A : g[k] = p
  BY DEF Enumerates, Follows
<1>3. g \in Bijection(A, B)
  <2> HIDE DEF A, B, g
  <2>. QED  BY <1>1, <1>2 DEF Bijection, Injection, Surjection, IsInjective
<1>4. IsFiniteSet(A)
  <2>1. IsFiniteSet(1..n)
    BY FS_Interval
  <2>2. A \in SUBSET (1..n)
    OBVIOUS
  <2>. QED  BY <2>1, <2>2, FS_Subset
<1> HIDE DEF A, B, g
<1>5. Cardinality(B) = Cardinality(A)
  <2>1. ExistsBijection(A, B)
    BY <1>3 DEF ExistsBijection
  <2>. QED  BY <1>4, <2>1, FS_Bijection
<1>. QED  BY <1>5 DEF A, B, PlacesOf

\* A count is a natural number.
LEMMA CountType ==
    ASSUME NEW V, NEW s \in Seq(V), NEW x
    PROVE  Count(s, x) \in Nat /\ DOMAIN s = 1..Len(s) /\ Len(s) \in Nat
<1>1. DOMAIN s = 1..Len(s) /\ Len(s) \in Nat
  OBVIOUS
<1>2. IsFiniteSet(1..Len(s)) /\ {k \in DOMAIN s : s[k] = x} \in SUBSET (1..Len(s))
  BY <1>1, FS_Interval
<1>. QED  BY <1>1, <1>2, FS_Subset, FS_CardinalityType DEF Count

\* A sequence that follows another one adds what it has.
LEMMA CountConcat ==
    ASSUME NEW V, NEW s \in Seq(V), NEW t \in Seq(V), NEW x
    PROVE  Count(s \o t, x) = Count(s, x) + Count(t, x)
<1> DEFINE n == Len(s)
           m == Len(t)
           A == {k \in 1..n : s[k] = x}
           B == {k \in 1..m : t[k] = x}
           C == {k \in (n + 1)..(n + m) : t[k - n] = x}
           u == s \o t
<1>1. n \in Nat /\ m \in Nat /\ DOMAIN s = 1..n /\ DOMAIN t = 1..m
  OBVIOUS
<1>2. DOMAIN u = 1..(n + m) /\ \A k \in 1..(n + m) : u[k] = IF k <= n THEN s[k] ELSE t[k - n]
  <2>1. u \in Seq(V) /\ Len(u) = n + m
    OBVIOUS
  <2>2. \A k \in 1..(n + m) : u[k] = IF k <= n THEN s[k] ELSE t[k - n]
    OBVIOUS
  <2>. QED  BY <2>1, <2>2
<1> HIDE DEF n, m, u
<1>3. {k \in DOMAIN u : u[k] = x} = A \union C /\ A \intersect C = {}
  BY <1>1, <1>2
<1>4. Cardinality(C) = Cardinality(B)
  <2> DEFINE f == [k \in B |-> k + n]
  <2>1. \A k \in B : k \in Int /\ f[k] = k + n /\ f[k] \in C
    BY <1>1
  <2>2. f \in [B -> C] /\ \A i, j \in B : f[i] = f[j] => i = j
    <3>1. f \in [B -> C]
      BY <2>1
    <3>2. \A i, j \in B : i + n = j + n => i = j
      BY <1>1
    <3>. QED  BY <2>1, <3>1, <3>2
  <2>3. \A k \in C : \E i \in B : f[i] = k
    <3>. SUFFICES ASSUME NEW k \in C PROVE \E i \in B : f[i] = k
      OBVIOUS
    <3>1. k - n \in B /\ (k - n) + n = k
      BY <1>1
    <3>. QED  BY <2>1, <3>1
  <2> HIDE DEF f, B, C
  <2>4. f \in Bijection(B, C)
    BY <2>2, <2>3 DEF Bijection, Injection, Surjection, IsInjective
  <2>5. IsFiniteSet(B)
    <3>1. IsFiniteSet(1..m) /\ B \in SUBSET (1..m)
      BY <1>1, FS_Interval DEF B
    <3>. QED  BY <3>1, FS_Subset
  <2>6. ExistsBijection(B, C)
    BY <2>4 DEF ExistsBijection
  <2>. QED  BY <2>5, <2>6, FS_Bijection
<1>5. IsFiniteSet(A) /\ IsFiniteSet(C)
  <2>1. IsFiniteSet(1..n) /\ A \in SUBSET (1..n)
    BY <1>1, FS_Interval
  <2>2. IsFiniteSet((n + 1)..(n + m)) /\ C \in SUBSET ((n + 1)..(n + m))
    BY <1>1, FS_Interval
  <2> HIDE DEF A, C
  <2>. QED  BY <2>1, <2>2, FS_Subset
<1>6. Count(s, x) = Cardinality(A) /\ Count(t, x) = Cardinality(B) /\ Count(u, x) = Cardinality(A \union C)
  BY <1>1, <1>3 DEF Count
<1> HIDE DEF A, B, C
<1>7. Cardinality(A \union C) = Cardinality(A) + Cardinality(C) - Cardinality(A \intersect C)
  BY <1>5, FS_Union
<1>8. Cardinality(A) \in Nat /\ Cardinality(C) \in Nat /\ Cardinality(A \intersect C) = 0
  BY <1>3, <1>5, FS_CardinalityType, FS_EmptySet
<1>9. Cardinality(A \union C) = Cardinality(A) + Cardinality(C)
  BY <1>7, <1>8
<1>. QED  BY <1>4, <1>6, <1>9 DEF u

\* What is kept of a sequence is there as often as it was.
LEMMA CountKept ==
    ASSUME NEW V, NEW s \in Seq(V), NEW places \in SUBSET DOMAIN s, NEW x
    PROVE  Count(Kept(s, places), x) = Cardinality({i \in places : s[i] = x})
<1> DEFINE n == Cardinality(places)
           f == Ascending(places)
<1>1. places \in SUBSET Nat /\ IsFiniteSet(places) /\ DOMAIN Kept(s, places) = 1..n
      /\ \A k \in 1..n : Kept(s, places)[k] = s[f[k]]
  BY KeptFacts
<1>2. /\ n \in Nat /\ f \in [1..n -> places] /\ \A i, j \in 1..n : i < j => f[i] < f[j]
      /\ \A p \in places : \E k \in 1..n : f[k] = p
  BY <1>1, AscendingFacts
<1> HIDE DEF n, f
<1>3. f \in [1..n -> Int]
  BY <1>1, <1>2
<1>4. \A i, j \in 1..n : f[i] = f[j] => i = j
  BY <1>2, <1>3, RisingIsInjective
<1>5. Cardinality({k \in 1..n : Kept(s, places)[k] = x}) = Cardinality({p \in places : s[p] = x})
  <2>1. PICK kept : kept = Kept(s, places)
    OBVIOUS
  <2>2. Follows(kept, s, f, n)
    BY <1>1, <2>1 DEF Follows
  <2>3. Enumerates(f, n, places)
    BY <1>2, <1>4 DEF Enumerates
  <2>4. Cardinality(PlacesOf(x, kept, 1..n)) = Cardinality(PlacesOf(x, s, places))
    BY <1>2, <2>2, <2>3, CountRearranged
  <2>. QED  BY <2>1, <2>4 DEF PlacesOf
<1>. QED  BY <1>1, <1>5 DEF Count

(***************************************************************************)
(* Days and instants.                                                      *)
(***************************************************************************)

\* A day begins with its first instant.
LEMMA DayFacts ==
    ASSUME NEW t \in Int
    PROVE  Day(t) \in Int /\ Days(Day(t)) <= t /\ t < Days(Day(t)) + Ticks
BY CalendarAssumption DEF Day, Days

\* Days in instants.
LEMMA DaysType == \A n \in Int : Days(n) \in Int
BY CalendarAssumption DEF Days

LEMMA DaysFacts ==
    ASSUME NEW m \in Int, NEW n \in Int
    PROVE  /\ Days(m + n) = Days(m) + Days(n)
           /\ Days(m - n) = Days(m) - Days(n)
           /\ m <= n <=> Days(m) <= Days(n)
           /\ Days(1) = Ticks
BY CalendarAssumption DEF Days

\* A day has begun by an instant unless that instant is of an earlier day.
LEMMA DayBegins ==
    ASSUME NEW n \in Int, NEW t \in Int
    PROVE  Days(n) <= t <=> n <= Day(t)
<1> DEFINE d == Day(t)
<1>1. d \in Int /\ Days(d) <= t /\ t < Days(d) + Ticks
  BY DayFacts
<1>2. Days(n) \in Int /\ Days(d) \in Int /\ Ticks \in Int
  BY <1>1, DaysType, CalendarAssumption
<1>3. n <= d <=> Days(n) <= Days(d)
  BY <1>1, DaysFacts
<1>4. d + 1 <= n <=> Days(d) + Ticks <= Days(n)
  <2>1. d + 1 <= n <=> Days(d + 1) <= Days(n)
    <3>1. d + 1 \in Int
      BY <1>1
    <3> HIDE DEF d
    <3>. QED  BY <3>1, DaysFacts
  <2>2. Days(d + 1) = Days(d) + Days(1) /\ Days(1) = Ticks
    BY <1>1, DaysFacts
  <2>. QED  BY <2>1, <2>2
<1> HIDE DEF d
<1>. QED  BY <1>1, <1>2, <1>3, <1>4 DEF d

\* The instants from the first of one day to the last before another.
LEMMA WholeDays ==
    ASSUME NEW m \in Int, NEW n \in Int, NEW t \in Int
    PROVE  Days(m) <= t /\ t <= Days(n) - 1 <=> m <= Day(t) /\ Day(t) < n
<1>1. Days(m) <= t <=> m <= Day(t)
  BY DayBegins
<1>2. Days(n) <= t <=> n <= Day(t)
  BY DayBegins
<1>3. Days(n) \in Int /\ Day(t) \in Int
  BY DayFacts, DaysType
<1>. QED  BY <1>1, <1>2, <1>3

(***************************************************************************)
(* The months and the ranges.                                              *)
(***************************************************************************)

\* The months around an instant.
LEMMA MonthFacts ==
    ASSUME NEW t \in Int, \E d \in MonthStarts : d <= Day(t), \E d \in MonthStarts : Day(t) < d
    PROVE  \E first, next \in MonthStarts :
              /\ StartOfMonth(t) = Days(first) /\ EndOfMonth(t) = Days(next) - 1
              /\ first <= Day(t) /\ Day(t) < next
              /\ \A d \in MonthStarts : d <= first \/ next <= d
<1> DEFINE Begun == {d \in MonthStarts : d <= Day(t)}
           Ahead == {d \in MonthStarts : d > Day(t)}
<1>1. Day(t) \in Int /\ Begun \in SUBSET Nat /\ Ahead \in SUBSET Nat /\ Begun # {} /\ Ahead # {}
  BY DayFacts, CalendarAssumption
<1>2. Max(Begun) \in Begun /\ \A d \in Begun : d <= Max(Begun)
  <2> HIDE DEF Ahead
  <2>1. \A d \in Begun : d <= Day(t)
    BY <1>1
  <2> HIDE DEF Begun
  <2>. QED  BY <1>1, <2>1, MaxFacts
<1>3. Min(Ahead) \in Ahead /\ \A d \in Ahead : Min(Ahead) <= d
  <2> HIDE DEF Ahead, Begun
  <2>. QED  BY <1>1, MinFacts
<1>4. \A d \in MonthStarts : d \in Nat /\ (d \in Begun \/ d \in Ahead)
  <2>. SUFFICES ASSUME NEW d \in MonthStarts PROVE d \in Nat /\ (d <= Day(t) \/ d > Day(t))
    OBVIOUS
  <2>1. d \in Nat
    BY CalendarAssumption
  <2>. QED  BY <1>1, <2>1
<1>5. StartOfMonth(t) = Days(Max(Begun)) /\ EndOfMonth(t) = Days(Min(Ahead)) - 1
  BY DEF StartOfMonth, EndOfMonth
<1>6. /\ Max(Begun) \in MonthStarts /\ Max(Begun) <= Day(t)
      /\ Min(Ahead) \in MonthStarts /\ Day(t) < Min(Ahead)
  BY <1>1, <1>2, <1>3
<1> HIDE DEF Begun, Ahead
<1>. QED  BY <1>2, <1>3, <1>4, <1>5, <1>6

\* The month before another.
LEMMA MonthBeforeFacts ==
    ASSUME NEW first \in MonthStarts, first > 0
    PROVE  \E d \in MonthStarts :
              /\ MonthBefore(Days(first)) = Days(d) /\ d < first
              /\ \A e \in MonthStarts : e <= d \/ first <= e
<1> DEFINE S == {d \in MonthStarts : Days(d) < Days(first)}
<1>1. first \in Nat /\ \A d \in MonthStarts : d \in Nat /\ (Days(d) < Days(first) <=> d < first)
  BY CalendarAssumption DEF Days
<1>2. S \subseteq Nat /\ S # {} /\ \A d \in S : d <= first
  <2>1. MonthStarts \subseteq Nat /\ 0 \in MonthStarts
    BY CalendarAssumption
  <2>2. 0 \in S
    BY <1>1, <2>1
  <2>3. \A d \in S : d \in Nat /\ d <= first
    BY <1>1
  <2>. QED  BY <2>2, <2>3
<1>3. Max(S) \in S /\ \A d \in S : d <= Max(S)
  <2>1. first \in Int
    BY <1>1
  <2> HIDE DEF S
  <2>. QED  BY <1>2, <2>1, MaxFacts
<1>4. MonthBefore(Days(first)) = Days(Max(S))
  BY DEF MonthBefore
<1>5. \A e \in MonthStarts : e <= Max(S) \/ first <= e
  BY <1>1, <1>3
<1>6. Max(S) \in MonthStarts /\ Max(S) < first
  BY <1>1, <1>3
<1>. QED  BY <1>4, <1>5, <1>6

\* A text is in a range of whole days when the instant it shows is in one of them, and so is
\* the instant before it.
LEMMA RangeMeans ==
    ASSUME NEW m \in Int, NEW n \in Int, NEW x \in Int, NEW range,
           range[1] = Days(m) - ServerOffset, range[2] = Days(n) - 1 - ServerOffset
    PROVE  InRange(x, range)
              <=> /\ m <= Day(x + ServerOffset) /\ Day(x + ServerOffset) < n
                  /\ m <= Day((x + ServerOffset) - 1) /\ Day((x + ServerOffset) - 1) < n
<1> DEFINE shown == x + ServerOffset
<1>1. ServerOffset \in Int /\ Days(m) \in Int /\ Days(n) \in Int /\ shown \in Int /\ shown - 1 \in Int
  BY CalendarAssumption, DaysType
<1>2. InRange(x, range) <=> /\ Days(m) <= shown /\ shown <= Days(n) - 1
                            /\ Days(m) <= shown - 1 /\ shown - 1 <= Days(n) - 1
  BY <1>1 DEF InRange
<1> HIDE DEF shown
<1>3. /\ Days(m) <= shown /\ shown <= Days(n) - 1 <=> m <= Day(shown) /\ Day(shown) < n
      /\ Days(m) <= shown - 1 /\ shown - 1 <= Days(n) - 1 <=> m <= Day(shown - 1) /\ Day(shown - 1) < n
  BY <1>1, WholeDays
<1>. QED  BY <1>2, <1>3 DEF shown

Shifted(first, last) == [i \in 1..2 |-> <<first, last>>[i] - ServerOffset]

\* The range of an option, shifted.
LEMMA RangeOf ==
    ASSUME NEW now \in Int
    PROVE  LET today == now + ServerOffset
               week == StartOfWeek(today)
               month == StartOfMonth(today)
           IN  /\ mapToDate("today", now) = Shifted(StartOfDay(today), EndOfDay(today))
               /\ mapToDate("yesterday", now)
                     = Shifted(StartOfDay(today - Days(1)), EndOfDay(today - Days(1)))
               /\ mapToDate("this-week", now) = Shifted(week, week + Days(7) - 1)
               /\ mapToDate("last-week", now) = Shifted(week - Days(7), week - Days(7) + Days(6))
               /\ mapToDate("this-month", now) = Shifted(month, EndOfMonth(today))
               /\ mapToDate("last-month", now)
                     = Shifted(MonthBefore(month), EndOfMonth(MonthBefore(month)))
BY DEF mapToDate, Shifted, getThisWeekRange, getLastWeekRange, getThisMonthRange, getLastMonthRange

\* The ends of a range.
LEMMA ShiftedFacts ==
    \A first, last : /\ Shifted(first, last)[1] = first - ServerOffset
                     /\ Shifted(first, last)[2] = last - ServerOffset
BY DEF Shifted

\* A day, from its first instant to its last.
LEMMA DayRange ==
    ASSUME NEW t \in Int
    PROVE  StartOfDay(t) = Days(Day(t)) /\ EndOfDay(t) = Days(Day(t) + 1) - 1
<1>1. Day(t) \in Int /\ Days(Day(t)) \in Int
  BY DayFacts, DaysType
<1>2. Days(Day(t) + 1) = Days(Day(t)) + Ticks
  BY <1>1, DaysFacts
<1>. QED  BY <1>1, <1>2, CalendarAssumption DEF StartOfDay, EndOfDay

\* The options one by one: a text is in the range when it shows an instant that is meant, and the
\* instant before it is meant as well.
LEMMA TodayCovers ==
    ASSUME NEW now \in Int, NEW x \in Int
    PROVE  InRange(x, mapToDate("today", now))
              <=> /\ IsMeant("today", now + ServerOffset, x + ServerOffset)
                  /\ IsMeant("today", now + ServerOffset, (x + ServerOffset) - 1)
<1> DEFINE today == now + ServerOffset
           shown == x + ServerOffset
<1>1. ServerOffset \in Int /\ today \in Int /\ shown \in Int
  BY CalendarAssumption
<1>2. Day(today) \in Int /\ Day(shown) \in Int /\ Day(shown - 1) \in Int /\ Day(today) + 1 \in Int
  BY <1>1, DayFacts
<1>3. /\ mapToDate("today", now)[1] = Days(Day(today)) - ServerOffset
      /\ mapToDate("today", now)[2] = Days(Day(today) + 1) - 1 - ServerOffset
  <2>1. mapToDate("today", now) = Shifted(StartOfDay(today), EndOfDay(today))
    BY RangeOf
  <2>2. StartOfDay(today) = Days(Day(today)) /\ EndOfDay(today) = Days(Day(today) + 1) - 1
    BY <1>1, DayRange
  <2>. QED  BY <2>1, <2>2, ShiftedFacts
<1>4. InRange(x, mapToDate("today", now))
         <=> /\ Day(today) <= Day(shown) /\ Day(shown) < Day(today) + 1
             /\ Day(today) <= Day(shown - 1) /\ Day(shown - 1) < Day(today) + 1
  BY <1>2, <1>3, RangeMeans
<1>5. \A s : IsMeant("today", today, s) <=> Day(s) = Day(today)
  BY DEF IsMeant
<1>. QED  BY <1>2, <1>4, <1>5

LEMMA YesterdayCovers ==
    ASSUME NEW now \in Int, NEW x \in Int
    PROVE  InRange(x, mapToDate("yesterday", now))
              <=> /\ IsMeant("yesterday", now + ServerOffset, x + ServerOffset)
                  /\ IsMeant("yesterday", now + ServerOffset, (x + ServerOffset) - 1)
<1> DEFINE today == now + ServerOffset
           yesterday == today - Days(1)
           shown == x + ServerOffset
<1>1. ServerOffset \in Int /\ today \in Int /\ shown \in Int /\ yesterday \in Int /\ Days(1) = Ticks
  BY CalendarAssumption, DaysType, DaysFacts
<1>2. /\ Day(today) \in Int /\ Day(shown) \in Int /\ Day(shown - 1) \in Int
      /\ Day(yesterday) \in Int /\ Day(yesterday) + 1 \in Int
  BY <1>1, DayFacts
<1>3. Day(yesterday) = Day(today) - 1
  BY <1>1, CalendarAssumption DEF Day
<1>4. /\ mapToDate("yesterday", now)[1] = Days(Day(yesterday)) - ServerOffset
      /\ mapToDate("yesterday", now)[2] = Days(Day(yesterday) + 1) - 1 - ServerOffset
  <2>1. mapToDate("yesterday", now) = Shifted(StartOfDay(yesterday), EndOfDay(yesterday))
    BY RangeOf
  <2>2. /\ StartOfDay(yesterday) = Days(Day(yesterday))
        /\ EndOfDay(yesterday) = Days(Day(yesterday) + 1) - 1
    BY <1>1, DayRange
  <2>. QED  BY <2>1, <2>2, ShiftedFacts
<1>5. InRange(x, mapToDate("yesterday", now))
         <=> /\ Day(yesterday) <= Day(shown) /\ Day(shown) < Day(yesterday) + 1
             /\ Day(yesterday) <= Day(shown - 1) /\ Day(shown - 1) < Day(yesterday) + 1
  BY <1>2, <1>4, RangeMeans
<1>6. \A s : IsMeant("yesterday", today, s) <=> Day(s) = Day(today) - 1
  BY DEF IsMeant
<1>. QED  BY <1>2, <1>3, <1>5, <1>6

LEMMA ThisWeekCovers ==
    ASSUME NEW now \in Int, NEW x \in Int
    PROVE  InRange(x, mapToDate("this-week", now))
              <=> /\ IsMeant("this-week", now + ServerOffset, x + ServerOffset)
                  /\ IsMeant("this-week", now + ServerOffset, (x + ServerOffset) - 1)
<1> DEFINE today == now + ServerOffset
           shown == x + ServerOffset
           monday == Day(today) - (Day(today) % 7)
<1>1. ServerOffset \in Int /\ today \in Int /\ shown \in Int
  BY CalendarAssumption
<1>2. /\ Day(today) \in Int /\ Day(shown) \in Int /\ Day(shown - 1) \in Int
      /\ monday \in Int /\ monday + 7 \in Int
  BY <1>1, DayFacts
<1>3. StartOfWeek(today) = Days(monday) /\ Days(monday + 7) = Days(monday) + Days(7)
  BY <1>2, DaysFacts DEF StartOfWeek
<1>4. /\ mapToDate("this-week", now)[1] = Days(monday) - ServerOffset
      /\ mapToDate("this-week", now)[2] = Days(monday + 7) - 1 - ServerOffset
  <2>1. mapToDate("this-week", now) = Shifted(StartOfWeek(today), StartOfWeek(today) + Days(7) - 1)
    BY RangeOf
  <2> HIDE DEF today, monday
  <2>2. StartOfWeek(today) + Days(7) - 1 = Days(monday + 7) - 1
    BY <1>2, <1>3, DaysType
  <2>3. mapToDate("this-week", now) = Shifted(Days(monday), Days(monday + 7) - 1)
    BY <1>3, <2>1, <2>2
  <2>. QED  BY <2>3, ShiftedFacts
<1>5. InRange(x, mapToDate("this-week", now))
         <=> /\ monday <= Day(shown) /\ Day(shown) < monday + 7
             /\ monday <= Day(shown - 1) /\ Day(shown - 1) < monday + 7
  BY <1>2, <1>4, RangeMeans
<1>6. \A d \in Int : monday <= d /\ d < monday + 7 <=> d \div 7 = Day(today) \div 7
  BY <1>2
<1>7. \A s : IsMeant("this-week", today, s) <=> Day(s) \div 7 = Day(today) \div 7
  BY DEF IsMeant
<1>. QED  BY <1>2, <1>5, <1>6, <1>7

\* From one instant to the next it is the same day or the next one.
LEMMA NextDay ==
    ASSUME NEW t \in Int
    PROVE  Day(t) = Day(t - 1) \/ Day(t) = Day(t - 1) + 1
<1>1. Day(t) \in Int /\ Day(t - 1) \in Int
  BY DayFacts
<1>2. /\ Days(Day(t)) <= t /\ ~ (Days(Day(t) + 1) <= t)
      /\ Days(Day(t - 1)) <= t - 1 /\ ~ (Days(Day(t - 1) + 1) <= t - 1)
  BY <1>1, DayBegins
<1>3. Days(Day(t - 1)) <= t
  BY <1>1, <1>2, DaysType
<1>4. Day(t - 1) <= Day(t)
  BY <1>1, <1>3, DayBegins
<1>5. ~ (Days(Day(t - 1) + 2) <= t)
  <2>1. Days(Day(t - 1) + 2) = Days(Day(t - 1) + 1) + Ticks
    <3>1. Day(t - 1) + 1 \in Int /\ (Day(t - 1) + 1) + 1 = Day(t - 1) + 2
      BY <1>1
    <3>. QED  BY <3>1, DaysFacts
  <2>2. Days(Day(t - 1) + 1) \in Int
    BY <1>1, DaysType
  <2>. QED  BY <1>2, <2>1, <2>2, CalendarAssumption
<1>6. ~ (Day(t - 1) + 2 <= Day(t))
  BY <1>1, <1>5, DayBegins
<1>. QED  BY <1>1, <1>4, <1>6

LEMMA LastWeekCovers ==
    ASSUME NEW now \in Int, NEW x \in Int
    PROVE  InRange(x, mapToDate("last-week", now))
              <=> /\ IsMeant("last-week", now + ServerOffset, x + ServerOffset)
                  /\ IsMeant("last-week", now + ServerOffset, (x + ServerOffset) - 1)
                  /\ Day((x + ServerOffset) - 1) % 7 # 6
<1> DEFINE today == now + ServerOffset
           shown == x + ServerOffset
           monday == Day(today) - (Day(today) % 7) - 7
<1>1. ServerOffset \in Int /\ today \in Int /\ shown \in Int
  BY CalendarAssumption
<1>2. /\ Day(today) \in Int /\ Day(shown) \in Int /\ Day(shown - 1) \in Int
      /\ monday \in Int /\ monday + 6 \in Int
  BY <1>1, DayFacts
<1>3. /\ StartOfWeek(today) - Days(7) = Days(monday)
      /\ StartOfWeek(today) - Days(7) + Days(6) = Days(monday + 6)
  <2> DEFINE start == Day(today) - (Day(today) % 7)
  <2>1. start \in Int /\ start - 7 = monday /\ monday + 6 \in Int
    BY <1>2
  <2>2. StartOfWeek(today) = Days(start)
    BY DEF StartOfWeek
  <2> HIDE DEF start, monday
  <2>3. Days(start - 7) = Days(start) - Days(7)
    BY <2>1, DaysFacts
  <2>4. Days(monday + 6) = Days(monday) + Days(6)
    BY <1>2, DaysFacts
  <2>. QED  BY <2>1, <2>2, <2>3, <2>4
<1>4. /\ mapToDate("last-week", now)[1] = Days(monday) - ServerOffset
      /\ mapToDate("last-week", now)[2] = Days(monday + 6) - ServerOffset
  BY <1>3, RangeOf, ShiftedFacts
<1>5. InRange(x, mapToDate("last-week", now))
         <=> Days(monday) <= shown - 1 /\ ~ (Days(monday + 6) <= shown - 1)
  <2>1. Days(monday) \in Int /\ Days(monday + 6) \in Int
    BY <1>2, DaysType
  <2>. QED  BY <1>1, <1>4, <2>1 DEF InRange
<1>6. Days(monday) <= shown - 1 <=> monday <= Day(shown - 1)
  BY <1>1, <1>2, DayBegins
<1>7. Days(monday + 6) <= shown - 1 <=> monday + 6 <= Day(shown - 1)
  BY <1>1, <1>2, DayBegins
<1>8. Day(shown) = Day(shown - 1) \/ Day(shown) = Day(shown - 1) + 1
  BY <1>1, NextDay
<1>9. monday <= Day(shown - 1) /\ ~ (monday + 6 <= Day(shown - 1))
         <=> /\ Day(shown) \div 7 = Day(today) \div 7 - 1
             /\ Day(shown - 1) \div 7 = Day(today) \div 7 - 1
             /\ Day(shown - 1) % 7 # 6
  BY <1>2, <1>8
<1>10. \A s : IsMeant("last-week", today, s) <=> Day(s) \div 7 = Day(today) \div 7 - 1
  BY DEF IsMeant
<1>. QED  BY <1>5, <1>6, <1>7, <1>9, <1>10

LEMMA ThisMonthCovers ==
    ASSUME NEW now \in Int, NEW x \in Int, InCalendar(now + ServerOffset)
    PROVE  InRange(x, mapToDate("this-month", now))
              <=> /\ IsMeant("this-month", now + ServerOffset, x + ServerOffset)
                  /\ IsMeant("this-month", now + ServerOffset, (x + ServerOffset) - 1)
<1> DEFINE today == now + ServerOffset
           shown == x + ServerOffset
<1>1. ServerOffset \in Int /\ today \in Int /\ shown \in Int
  BY CalendarAssumption
<1>2. Day(today) \in Int /\ Day(shown) \in Int /\ Day(shown - 1) \in Int
  BY <1>1, DayFacts
<1>3. (\E d \in MonthStarts : d <= Day(today)) /\ \E d \in MonthStarts : Day(today) < d
  BY DEF InCalendar
<1>4. PICK first \in MonthStarts, next \in MonthStarts :
              /\ StartOfMonth(today) = Days(first) /\ EndOfMonth(today) = Days(next) - 1
              /\ first <= Day(today) /\ Day(today) < next
              /\ \A d \in MonthStarts : d <= first \/ next <= d
  <2> HIDE DEF today
  <2>. QED  BY <1>1, <1>3, MonthFacts
<1>5. first \in Int /\ next \in Int /\ \A d \in MonthStarts : d \in Int
  BY CalendarAssumption
<1>6. /\ mapToDate("this-month", now)[1] = Days(first) - ServerOffset
      /\ mapToDate("this-month", now)[2] = Days(next) - 1 - ServerOffset
  BY <1>4, RangeOf, ShiftedFacts
<1>7. InRange(x, mapToDate("this-month", now))
         <=> /\ first <= Day(shown) /\ Day(shown) < next
             /\ first <= Day(shown - 1) /\ Day(shown - 1) < next
  BY <1>5, <1>6, RangeMeans
<1>8. \A s : Day(s) \in Int =>
         (first <= Day(s) /\ Day(s) < next <=> ~ \E d \in MonthStarts : Parts(d, s, today))
  BY <1>2, <1>4, <1>5 DEF Parts
<1>9. \A s : IsMeant("this-month", today, s) <=> ~ \E d \in MonthStarts : Parts(d, s, today)
  BY DEF IsMeant
<1>. QED  BY <1>2, <1>7, <1>8, <1>9

LEMMA LastMonthCovers ==
    ASSUME NEW now \in Int, NEW x \in Int, InCalendar(now + ServerOffset)
    PROVE  InRange(x, mapToDate("last-month", now))
              <=> /\ IsMeant("last-month", now + ServerOffset, x + ServerOffset)
                  /\ IsMeant("last-month", now + ServerOffset, (x + ServerOffset) - 1)
<1> DEFINE today == now + ServerOffset
           shown == x + ServerOffset
<1>1. ServerOffset \in Int /\ today \in Int /\ shown \in Int
  BY CalendarAssumption
<1>2. Day(today) \in Int /\ Day(shown) \in Int /\ Day(shown - 1) \in Int
  BY <1>1, DayFacts
<1>3. \A d \in MonthStarts : d \in Nat
  BY CalendarAssumption
<1>4. PICK first \in MonthStarts, next \in MonthStarts :
              /\ StartOfMonth(today) = Days(first)
              /\ first <= Day(today) /\ Day(today) < next
              /\ \A d \in MonthStarts : d <= first \/ next <= d
  <2>1. (\E d \in MonthStarts : d <= Day(today)) /\ \E d \in MonthStarts : Day(today) < d
    BY DEF InCalendar
  <2> HIDE DEF today
  <2>. QED  BY <1>1, <2>1, MonthFacts
<1>5. first > 0
  <2>1. PICK d \in MonthStarts : 0 < d /\ d <= Day(today)
    BY DEF InCalendar
  <2>. QED  BY <1>2, <1>3, <1>4, <2>1
<1>6. PICK before \in MonthStarts :
              /\ MonthBefore(Days(first)) = Days(before) /\ before < first
              /\ \A d \in MonthStarts : d <= before \/ first <= d
  BY <1>5, MonthBeforeFacts
<1>7. EndOfMonth(Days(before)) = Days(first) - 1
  <2>1. before \in Int /\ Days(before) \in Int
    BY <1>3, DaysType
  <2>2. Day(Days(before)) = before
    BY <2>1, CalendarAssumption DEF Day, Days
  <2>3. PICK start \in MonthStarts, end \in MonthStarts :
              /\ EndOfMonth(Days(before)) = Days(end) - 1
              /\ start <= before /\ before < end
              /\ \A d \in MonthStarts : d <= start \/ end <= d
    BY <1>6, <2>1, <2>2, MonthFacts
  <2>4. end = first
    BY <1>3, <1>6, <2>3
  <2>. QED  BY <2>3, <2>4
<1>8. /\ mapToDate("last-month", now)[1] = Days(before) - ServerOffset
      /\ mapToDate("last-month", now)[2] = Days(first) - 1 - ServerOffset
  <2>1. mapToDate("last-month", now) = Shifted(Days(before), Days(first) - 1)
    BY <1>4, <1>6, <1>7, RangeOf
  <2>. QED  BY <2>1, ShiftedFacts
<1>9. InRange(x, mapToDate("last-month", now))
         <=> /\ before <= Day(shown) /\ Day(shown) < first
             /\ before <= Day(shown - 1) /\ Day(shown - 1) < first
  <2>1. first \in Int /\ before \in Int
    BY <1>3
  <2>. QED  BY <1>8, <2>1, RangeMeans
<1>10. \A s : IsMeant("last-month", today, s)
         <=> \E d \in MonthStarts :
                /\ d <= Day(today) /\ Day(s) < d
                /\ \A e \in MonthStarts : Parts(e, s, today) => e = d
  BY DEF IsMeant
<1>11. ASSUME NEW s, Day(s) \in Int
       PROVE  IsMeant("last-month", today, s) <=> before <= Day(s) /\ Day(s) < first
  <2>1. ASSUME before <= Day(s), Day(s) < first
        PROVE  IsMeant("last-month", today, s)
    <3>1. \A e \in MonthStarts : Parts(e, s, today) => e = first
      BY <1>2, <1>3, <1>4, <1>6, <1>11, <2>1 DEF Parts
    <3>. QED  BY <1>4, <1>10, <2>1, <3>1
  <2>2. ASSUME IsMeant("last-month", today, s)
        PROVE  before <= Day(s) /\ Day(s) < first
    <3>1. PICK d \in MonthStarts :
                  /\ d <= Day(today) /\ Day(s) < d
                  /\ \A e \in MonthStarts : Parts(e, s, today) => e = d
      BY <1>10, <2>2
    <3>2. d <= first /\ Day(s) < first
      BY <1>2, <1>3, <1>4, <1>11, <3>1
    <3>3. first = d
      BY <1>2, <1>3, <1>4, <1>11, <3>1, <3>2 DEF Parts
    <3>4. Day(s) < before => Parts(before, s, today)
      BY <1>2, <1>3, <1>4, <1>6, <1>11 DEF Parts
    <3>. QED  BY <1>3, <1>6, <1>11, <3>1, <3>2, <3>3, <3>4
  <2>. QED  BY <2>1, <2>2
<1>. QED  BY <1>2, <1>9, <1>11

\* What the range of an option holds, whatever the text of an order says of its own offset and
\* wherever the server is: read as if it were in UTC, the text shows an instant of the day, week
\* or month that is meant on the server's clock, but not its first instant and, of last week, no
\* instant of Sunday after the first (mapToDate, getOrderHistory: texts are compared, "+00:00" comes
\* before "Z", and last week ends where its Sunday begins).
THEOREM RangesOfTexts ==
    ASSUME NEW now \in Int, InCalendar(now + ServerOffset),
           NEW t \in Int, NEW offset \in Int, NEW option \in DateOptions
    PROVE  LET today == now + ServerOffset
               shown == CreatedAt(t, offset) + ServerOffset
           IN  InRange(CreatedAt(t, offset), mapToDate(option, now))
                  <=> IsMeant(option, today, shown) /\ ~ IsLeftOut(option, today, shown)
<1> DEFINE today == now + ServerOffset
           shown == CreatedAt(t, offset) + ServerOffset
<1>1. CreatedAt(t, offset) \in Int
  BY DEF CreatedAt
<1>2. IsMeant(option, today, shown) /\ ~ IsLeftOut(option, today, shown)
         <=> /\ IsMeant(option, today, shown) /\ IsMeant(option, today, shown - 1)
             /\ option = "last-week" => Day(shown - 1) % 7 # 6
  BY DEF IsLeftOut
<1>3. CASE option = "last-week"
  BY <1>1, <1>2, <1>3, LastWeekCovers
<1>4. CASE option # "last-week"
  BY <1>1, <1>2, <1>4, TodayCovers, YesterdayCovers, ThisWeekCovers, ThisMonthCovers, LastMonthCovers
     DEF DateOptions
<1>. QED  BY <1>3, <1>4

\* In UTC a text shows its own instant.
LEMMA RangesMeant ==
    ASSUME ServerOffset = 0
    PROVE  RangesAreMeant
<1>. SUFFICES ASSUME NEW now \in AskedAt, NEW option \in DateOptions, NEW t \in OrderedAt
              PROVE  InRange(CreatedAt(t, ServerOffset), mapToDate(option, now))
                        <=> IsMeant(option, now, t) /\ ~ IsLeftOut(option, now, t)
  BY DEF RangesAreMeant
<1>1. now \in Int /\ t \in Int /\ InCalendar(now + ServerOffset)
  BY CalendarAssumption
<1>2. CreatedAt(t, ServerOffset) + ServerOffset = t /\ now + ServerOffset = now
  BY <1>1 DEF CreatedAt
<1>. QED  BY <1>1, <1>2, CalendarAssumption, RangesOfTexts

\* On a server whose clock is UTC, the range of an option holds no order of another day, week or
\* month, and of its own all but those of the first instant and of the Sunday of last week after
\* that Sunday's first instant: for every calendar and whenever the history is asked for
\* (getTimeRange.ts, getOrderHistory).
THEOREM RangesCoverCorrect ==
    ASSUME ServerOffset = 0
    PROVE  Spec => []RangesCover
<1>1. RangesCover
  BY RangesMeant DEF RangesCover
<1>. QED  BY <1>1, PTL

(***************************************************************************)
(* The list of a device.                                                   *)
(***************************************************************************)

\* The time an order is sorted by: now, or when it is due if that is later.
LEMMA TimesAreNat ==
    ASSUME NEW order \in Listed, NEW now \in Nat
    PROVE  /\ DueTime(order) \in Nat
           /\ getSortingTime(order, now) = IF DueTime(order) <= now THEN now ELSE DueTime(order)
<1>1. DueTime(order) \in Nat
  BY DEF DueTime, Listed, None
<1>. QED  BY <1>1, MaxOfTwo DEF getSortingTime

\* The places of a list by the times of its orders.
ByTime(orders, now) ==
    {p \in (DOMAIN orders) \X (DOMAIN orders) :
       \/ getSortingTime(orders[p[1]], now) < getSortingTime(orders[p[2]], now)
       \/ /\ getSortingTime(orders[p[1]], now) = getSortingTime(orders[p[2]], now)
          /\ p[1] < p[2]}

\* The times, and of equal ones the places, order a list strictly.
LEMMA ByTimeIsOrder ==
    ASSUME NEW orders \in Seq(Listed), NEW now \in Nat
    PROVE  IsOrder(DOMAIN orders, ByTime(orders, now))
<1> DEFINE Time(i) == getSortingTime(orders[i], now)
           D == DOMAIN orders
           Sooner(i, j) == Time(i) < Time(j) \/ (Time(i) = Time(j) /\ i < j)
<1>1. \A i \in D : Time(i) \in Int /\ i \in Int
  <2>. SUFFICES ASSUME NEW i \in D PROVE Time(i) \in Int /\ i \in Int
    OBVIOUS
  <2>1. orders[i] \in Listed /\ i \in Int
    OBVIOUS
  <2>. QED  BY <2>1, TimesAreNat
<1>2. \A i, j \in D : <<i, j>> \in ByTime(orders, now) <=> Sooner(i, j)
  BY DEF ByTime
<1> HIDE DEF Time, D
<1>3. /\ \A i \in D : ~ Sooner(i, i)
      /\ \A i, j \in D : i # j => Sooner(i, j) \/ Sooner(j, i)
  BY <1>1
<1>4. \A i, j, k \in D : Sooner(i, j) /\ Sooner(j, k) => Sooner(i, k)
  BY <1>1
<1> HIDE DEF Sooner
<1>5. IsOrder(D, ByTime(orders, now))
  BY <1>2, <1>3, <1>4 DEF IsOrder
<1>. QED  BY <1>5 DEF D

\* The list takes each place of what came once, by the times.
LEMMA SortFacts ==
    ASSUME NEW orders \in Seq(Listed), NEW now \in Nat
    PROVE  LET n == Len(orders)
               f == InOrder(DOMAIN orders, ByTime(orders, now))
               list == sortOrders(orders, now)
           IN  /\ n \in Nat /\ f \in [1..n -> 1..n] /\ DOMAIN list = 1..n /\ list \in Seq(Listed) /\ Len(list) = n
               /\ \A k \in 1..n : list[k] = orders[f[k]]
               /\ \A i, j \in 1..n : i < j => <<f[i], f[j]>> \in ByTime(orders, now)
               /\ \A i, j \in 1..n : f[i] = f[j] => i = j
               /\ \A p \in 1..n : /\ Cardinality(Before(p, 1..n, ByTime(orders, now))) + 1 \in 1..n
                                  /\ f[Cardinality(Before(p, 1..n, ByTime(orders, now))) + 1] = p
<1> DEFINE n == Len(orders)
           R == ByTime(orders, now)
           f == InOrder(DOMAIN orders, R)
           list == sortOrders(orders, now)
<1>1. n \in Nat /\ DOMAIN orders = 1..n /\ IsFiniteSet(1..n) /\ Cardinality(1..n) = n
      /\ \A i \in 1..n : orders[i] \in Listed
  <2>1. n \in Nat /\ DOMAIN orders = 1..n /\ \A i \in 1..n : orders[i] \in Listed
    OBVIOUS
  <2> HIDE DEF n
  <2>2. IsFiniteSet(1..n) /\ Cardinality(1..n) = n
    BY <2>1, FS_Interval
  <2>. QED  BY <2>1, <2>2
<1>2. IsOrder(1..n, R)
  BY <1>1, ByTimeIsOrder
<1>3. f = InOrder(1..n, R)
  BY <1>1
<1>4. list = [k \in 1..n |-> orders[f[k]]]
  BY DEF sortOrders, ByTime
<1> HIDE DEF n, R, f, list
<1>5. /\ f \in [1..n -> 1..n]
      /\ \A p \in 1..n : /\ Cardinality(Before(p, 1..n, R)) + 1 \in 1..n
                         /\ f[Cardinality(Before(p, 1..n, R)) + 1] = p
      /\ \A i, j \in 1..n : i < j => <<f[i], f[j]>> \in R
  BY <1>1, <1>2, <1>3, InOrderFacts
<1>6. \A i, j \in 1..n : f[i] = f[j] => i = j
  <2>. SUFFICES ASSUME NEW i \in 1..n, NEW j \in 1..n, i < j PROVE f[i] # f[j]
    BY <1>1
  <2>1. <<f[i], f[j]>> \in R /\ f[i] \in 1..n
    BY <1>5
  <2>. QED  BY <1>2, <2>1 DEF IsOrder
<1>7. list \in Seq(Listed) /\ Len(list) = n /\ DOMAIN list = 1..n
  <2>1. list \in [1..n -> Listed]
    BY <1>1, <1>4, <1>5
  <2>. QED  BY <1>1, <2>1
<1>8. \A k \in 1..n : list[k] = orders[f[k]]
  BY <1>4
<1>. QED  BY <1>1, <1>5, <1>6, <1>7, <1>8 DEF n, R, f, list

\* Nothing is lost or doubled by the sorting.
LEMMA CountSorted ==
    ASSUME NEW orders \in Seq(Listed), NEW now \in Nat, NEW x
    PROVE  Count(sortOrders(orders, now), x) = Count(orders, x)
<1> DEFINE n == Len(orders)
           list == sortOrders(orders, now)
           f == InOrder(DOMAIN orders, ByTime(orders, now))
<1>2. /\ n \in Nat /\ f \in [1..n -> 1..n] /\ DOMAIN list = 1..n
      /\ \A k \in 1..n : list[k] = orders[f[k]]
      /\ \A i, j \in 1..n : f[i] = f[j] => i = j
      /\ \A p \in 1..n : \E k \in 1..n : f[k] = p
  BY SortFacts
<1>3. IsFiniteSet(1..n) /\ DOMAIN orders = 1..n
  BY <1>2, FS_Interval
<1> HIDE DEF n, f, list
<1>4. Enumerates(f, n, 1..n)
  BY <1>2 DEF Enumerates
<1>5. Follows(list, orders, f, n)
  BY <1>2 DEF Follows
<1>6. Cardinality(PlacesOf(x, list, 1..n)) = Cardinality(PlacesOf(x, orders, 1..n))
  BY <1>2, <1>4, <1>5, CountRearranged
<1>. QED  BY <1>2, <1>3, <1>6 DEF Count, PlacesOf, list

\* The late ones come first, as they came.
LEMMA LateFirst ==
    ASSUME NEW orders \in Seq(Listed), NEW now \in Nat
    PROVE  LET list == sortOrders(orders, now)
               c == Cardinality(Late(orders, now))
           IN  /\ c \in Nat /\ Late(list, now) = 1..c
               /\ Kept(list, Late(list, now)) = Kept(orders, Late(orders, now))
<1> DEFINE n == Len(orders)
           R == ByTime(orders, now)
           L == Late(orders, now)
           c == Cardinality(L)
           list == sortOrders(orders, now)
           f == InOrder(DOMAIN orders, R)
<1>2. /\ n \in Nat /\ f \in [1..n -> 1..n] /\ DOMAIN list = 1..n
      /\ \A k \in 1..n : list[k] = orders[f[k]]
      /\ \A i, j \in 1..n : f[i] = f[j] => i = j
      /\ \A p \in 1..n : /\ Cardinality(Before(p, 1..n, R)) + 1 \in 1..n
                         /\ f[Cardinality(Before(p, 1..n, R)) + 1] = p
  BY SortFacts
<1> HIDE DEF list, f
<1>3. DOMAIN orders = 1..n /\ L \in SUBSET (1..n) /\ L \in SUBSET Nat /\ IsFiniteSet(L)
  <2>1. DOMAIN orders = 1..n /\ L \in SUBSET DOMAIN orders
    BY DEF Late
  <2>3. IsFiniteSet(1..n)
    <3>1. n \in Int
      BY <1>2
    <3> HIDE DEF n
    <3>. QED  BY <3>1, FS_Interval
  <2>2. L \in SUBSET Nat
    BY <2>1
  <2>. QED  BY <2>1, <2>2, <2>3, FS_Subset
<1>4. \A i \in 1..n : orders[i] \in Listed /\ (i \in L <=> DueTime(orders[i]) <= now)
  BY <1>3 DEF Late
<1>5. ASSUME NEW p \in L PROVE Before(p, 1..n, R) = {j \in L : j < p}
  <2>1. \A i \in 1..n : /\ DueTime(orders[i]) \in Nat
                        /\ getSortingTime(orders[i], now) = IF i \in L THEN now ELSE DueTime(orders[i])
    BY <1>4, TimesAreNat
  <2>2. \A i \in 1..n : i \notin L => DueTime(orders[i]) > now
    BY <1>4, <2>1
  <2>3. \A j \in 1..n : <<j, p>> \in R <=>
          \/ getSortingTime(orders[j], now) < getSortingTime(orders[p], now)
          \/ getSortingTime(orders[j], now) = getSortingTime(orders[p], now) /\ j < p
    BY <1>3 DEF ByTime
  <2>4. getSortingTime(orders[p], now) = now
    BY <1>3, <2>1
  <2>5. \A j \in 1..n : <<j, p>> \in R <=> j \in L /\ j < p
    <3>. SUFFICES ASSUME NEW j \in 1..n PROVE <<j, p>> \in R <=> j \in L /\ j < p
      OBVIOUS
    <3>1. CASE j \in L
      <4>1. getSortingTime(orders[j], now) = now
        BY <2>1, <3>1
      <4>. QED  BY <2>3, <2>4, <3>1, <4>1
    <3>2. CASE j \notin L
      <4>1. getSortingTime(orders[j], now) > now /\ getSortingTime(orders[j], now) \in Nat
        BY <2>1, <2>2, <3>2
      <4>. QED  BY <2>3, <2>4, <3>2, <4>1
    <3>. QED  BY <3>1, <3>2
  <2>. QED  BY <1>3, <2>5 DEF Before
<1> HIDE DEF n, R, L
<1>6. /\ c \in Nat /\ Ascending(L) \in [1..c -> L]
      /\ \A p \in L : /\ Cardinality({j \in L : j < p}) + 1 \in 1..c
                      /\ Ascending(L)[Cardinality({j \in L : j < p}) + 1] = p
      /\ \A i, j \in 1..c : i < j => Ascending(L)[i] < Ascending(L)[j]
  BY <1>3, AscendingFacts
<1>7. \A i, j \in 1..c : Ascending(L)[i] = Ascending(L)[j] => i = j
  <2> HIDE DEF c
  <2>1. Ascending(L) \in [1..c -> Int]
    <3>1. \A p \in L : p \in Int
      BY <1>3
    <3>. QED  BY <1>6, <3>1
  <2>. QED  BY <1>6, <2>1, RisingIsInjective
<1>8. \A p \in L : \E k \in 1..c : k \in 1..n /\ f[k] = p /\ Ascending(L)[k] = p
  <2>. SUFFICES ASSUME NEW p \in L PROVE \E k \in 1..c : k \in 1..n /\ f[k] = p /\ Ascending(L)[k] = p
    OBVIOUS
  <2>1. p \in 1..n
    BY <1>3
  <2>. QED  BY <1>2, <1>5, <1>6, <2>1
<1>9. \A k \in 1..c : k \in 1..n /\ f[k] = Ascending(L)[k] /\ f[k] \in L
  <2>. SUFFICES ASSUME NEW k \in 1..c PROVE k \in 1..n /\ f[k] = Ascending(L)[k] /\ f[k] \in L
    OBVIOUS
  <2>1. Ascending(L)[k] \in L
    BY <1>6
  <2>2. PICK i \in 1..c : i \in 1..n /\ f[i] = Ascending(L)[k] /\ Ascending(L)[i] = Ascending(L)[k]
    BY <1>8, <2>1
  <2>3. i = k
    BY <1>7, <2>2
  <2>. QED  BY <2>1, <2>2, <2>3
<1>10. Late(list, now) = 1..c
  <2>1. \A k \in 1..n : k \in Late(list, now) <=> f[k] \in L
    BY <1>2, <1>4 DEF Late
  <2>2. \A k \in 1..n : f[k] \in L => k \in 1..c
    <3>. SUFFICES ASSUME NEW k \in 1..n, f[k] \in L PROVE k \in 1..c
      OBVIOUS
    <3>1. PICK i \in 1..c : i \in 1..n /\ f[i] = f[k]
      BY <1>8
    <3>. QED  BY <1>2, <3>1
  <2>3. Late(list, now) \subseteq 1..n
    BY <1>2 DEF Late
  <2>. QED  BY <1>9, <2>1, <2>2, <2>3
<1>11. Kept(list, 1..c) = Kept(orders, L)
  <2>1. Cardinality(1..c) = c
    BY <1>6, FS_Interval
  <2> HIDE DEF c
  <2>2. \A k \in 1..c : list[Ascending(1..c)[k]] = orders[Ascending(L)[k]]
    <3>. SUFFICES ASSUME NEW k \in 1..c PROVE list[Ascending(1..c)[k]] = orders[Ascending(L)[k]]
      OBVIOUS
    <3>1. Ascending(1..c)[k] = k
      BY <1>6, AscendingFirst
    <3>. QED  BY <1>2, <1>9, <3>1
  <2>. QED  BY <2>1, <2>2 DEF Kept, c
<1>. QED  BY <1>6, <1>10, <1>11 DEF L, list

\* What the list keeps of its order.
LEMMA ListSorted ==
    ASSUME NEW orders \in Seq(Listed), NEW now \in Nat
    PROVE  LET list == sortOrders(orders, now)
           IN  \A i, j \in DOMAIN list :
                 /\ i \in Late(list, now) /\ j \notin Late(list, now) => i < j
                 /\ i \notin Late(list, now) /\ DueTime(list[i]) < DueTime(list[j]) => i < j
<1> DEFINE n == Len(orders)
           list == sortOrders(orders, now)
           f == InOrder(DOMAIN orders, ByTime(orders, now))
           Time(k) == getSortingTime(list[k], now)
<1>1. /\ n \in Nat /\ f \in [1..n -> 1..n] /\ DOMAIN list = 1..n /\ list \in Seq(Listed)
      /\ \A k \in 1..n : list[k] = orders[f[k]]
      /\ \A i, j \in 1..n : i < j => <<f[i], f[j]>> \in ByTime(orders, now)
  BY SortFacts
<1> HIDE DEF n, list, f
<1>2. \A k \in 1..n : list[k] \in Listed
  BY <1>1
<1>3. \A k \in 1..n : /\ DueTime(list[k]) \in Nat
                      /\ Time(k) = IF DueTime(list[k]) <= now THEN now ELSE DueTime(list[k])
                      /\ k \in Late(list, now) <=> DueTime(list[k]) <= now
  <2>. SUFFICES ASSUME NEW k \in 1..n
                PROVE  /\ DueTime(list[k]) \in Nat
                       /\ Time(k) = IF DueTime(list[k]) <= now THEN now ELSE DueTime(list[k])
                       /\ k \in Late(list, now) <=> DueTime(list[k]) <= now
    OBVIOUS
  <2>1. DueTime(list[k]) \in Nat /\ Time(k) = IF DueTime(list[k]) <= now THEN now ELSE DueTime(list[k])
    BY <1>2, TimesAreNat
  <2>. QED  BY <1>1, <2>1 DEF Late
<1>4. \A i, j \in 1..n : i < j => Time(i) <= Time(j)
  <2>. SUFFICES ASSUME NEW i \in 1..n, NEW j \in 1..n, i < j PROVE Time(i) <= Time(j)
    OBVIOUS
  <2>1. <<f[i], f[j]>> \in ByTime(orders, now)
    BY <1>1
  <2>2. Time(i) < Time(j) \/ Time(i) = Time(j)
    BY <1>1, <2>1 DEF ByTime
  <2>3. Time(i) \in Int /\ Time(j) \in Int
    BY <1>3
  <2>. QED  BY <2>2, <2>3
<1> HIDE DEF Time
<1>5. ASSUME NEW i \in 1..n, NEW j \in 1..n, Time(i) < Time(j) PROVE i < j
  <2>1. Time(i) \in Int /\ Time(j) \in Int
    BY <1>3
  <2>2. ~ (Time(j) <= Time(i))
    BY <1>5, <2>1
  <2>3. i # j /\ ~ (j < i)
    BY <1>4, <1>5, <2>1, <2>2
  <2>. QED  BY <1>1, <2>3
<1>6. ASSUME NEW i \in 1..n, NEW j \in 1..n
      PROVE  /\ i \in Late(list, now) /\ j \notin Late(list, now) => i < j
             /\ i \notin Late(list, now) /\ DueTime(list[i]) < DueTime(list[j]) => i < j
  <2>1. i \in Late(list, now) /\ j \notin Late(list, now) => Time(i) < Time(j)
    BY <1>3
  <2>2. i \notin Late(list, now) /\ DueTime(list[i]) < DueTime(list[j]) => Time(i) < Time(j)
    BY <1>3
  <2>. QED  BY <1>5, <2>1, <2>2
<1>. QED  BY <1>1, <1>6 DEF list

\* What came has every order asked for.
LEMMA CountGathered ==
    ASSUME NEW l \in Lists, NEW x
    PROVE  LET came == Gathered(l.providers, l.statuses, l.businesses, l.munchi, l.rows, l.foodora)
               OfWolt == "Wolt" \in l.providers /\ x.status \in l.statuses /\ x.business \in l.businesses
               foodora == IF "Foodora" \in l.providers THEN FoodoraList(l.foodora, l.statuses) ELSE <<>>
           IN  /\ came \in Seq(Listed)
               /\ Count(came, x) = Count(l.munchi, x) + (IF OfWolt THEN Count(l.rows, x) ELSE 0) + Count(foodora, x)
<1> DEFINE asked == {i \in DOMAIN l.rows : l.rows[i].status \in l.statuses /\ l.rows[i].business \in l.businesses}
           ofWolt == IF "Wolt" \in l.providers THEN WoltList(l.rows, l.statuses, l.businesses) ELSE <<>>
           foodora == IF "Foodora" \in l.providers THEN FoodoraList(l.foodora, l.statuses) ELSE <<>>
           OfWolt == "Wolt" \in l.providers /\ x.status \in l.statuses /\ x.business \in l.businesses
<1>1. /\ l.munchi \in Seq(Listed) /\ l.rows \in Seq(Listed)
      /\ l.foodora.accepted \in Seq(Listed) /\ l.foodora.cancelled \in Seq(Listed)
  BY ListsAssumption
<1>2. <<>> \in Seq(Listed) /\ Count(<<>>, x) = 0
  <2>1. {i \in DOMAIN <<>> : <<>>[i] = x} = {}
    OBVIOUS
  <2>. QED  BY <2>1, FS_EmptySet DEF Count
<1>3. WoltList(l.rows, l.statuses, l.businesses) = Kept(l.rows, asked)
  BY DEF WoltList
<1>4. /\ Kept(l.rows, asked) \in Seq(Listed)
      /\ Count(Kept(l.rows, asked), x) = Cardinality({i \in asked : l.rows[i] = x})
  <2>1. asked \in SUBSET DOMAIN l.rows
    OBVIOUS
  <2> HIDE DEF asked
  <2>2. Kept(l.rows, asked) \in Seq(Listed)
    BY <1>1, <2>1, KeptFacts
  <2>3. Count(Kept(l.rows, asked), x) = Cardinality({i \in asked : l.rows[i] = x})
    BY <1>1, <2>1, CountKept
  <2>. QED  BY <2>2, <2>3
<1>5. ofWolt \in Seq(Listed) /\ Count(ofWolt, x) = IF OfWolt THEN Count(l.rows, x) ELSE 0
  <2>1. CASE "Wolt" \notin l.providers
    BY <1>2, <2>1
  <2>2. CASE "Wolt" \in l.providers
    <3>1. x.status \in l.statuses /\ x.business \in l.businesses
            => {i \in asked : l.rows[i] = x} = {i \in DOMAIN l.rows : l.rows[i] = x}
      OBVIOUS
    <3>2. ~ (x.status \in l.statuses /\ x.business \in l.businesses) => {i \in asked : l.rows[i] = x} = {}
      OBVIOUS
    <3>3. Cardinality({}) = 0
      BY FS_EmptySet
    <3>. QED  BY <1>3, <1>4, <2>2, <3>1, <3>2, <3>3 DEF Count
  <2>. QED  BY <2>1, <2>2
<1>6. foodora \in Seq(Listed)
  BY <1>1, <1>2 DEF FoodoraList
<1>7. Gathered(l.providers, l.statuses, l.businesses, l.munchi, l.rows, l.foodora) = (l.munchi \o ofWolt) \o foodora
  BY DEF Gathered
<1> HIDE DEF ofWolt, foodora
<1>8. l.munchi \o ofWolt \in Seq(Listed) /\ (l.munchi \o ofWolt) \o foodora \in Seq(Listed)
  BY <1>1, <1>5, <1>6
<1>9. Count(l.munchi \o ofWolt, x) = Count(l.munchi, x) + Count(ofWolt, x)
  BY <1>1, <1>5, CountConcat
<1>10. Count((l.munchi \o ofWolt) \o foodora, x) = Count(l.munchi \o ofWolt, x) + Count(foodora, x)
  BY <1>6, <1>8, CountConcat
<1> HIDE DEF OfWolt
<1>11. Count((l.munchi \o ofWolt) \o foodora, x) = Count(l.munchi, x) + (IF OfWolt THEN Count(l.rows, x) ELSE 0) + Count(foodora, x)
  BY <1>5, <1>9, <1>10
<1>. QED  BY <1>7, <1>8, <1>11 DEF foodora, OfWolt

\* The list of a device is in order, whatever came.
LEMMA ListsAreInOrder ==
    ASSUME NEW l \in Lists
    PROVE  ListIsInOrder(l)
<1> DEFINE answer == ListOrders(l.providers, l.statuses, l.businesses, l.munchi, l.rows, l.foodora, l.now)
           came == Gathered(l.providers, l.statuses, l.businesses, l.munchi, l.rows, l.foodora)
           OfWolt(x) == "Wolt" \in l.providers /\ x.status \in l.statuses /\ x.business \in l.businesses
           foodora == IF "Foodora" \in l.providers THEN FoodoraList(l.foodora, l.statuses) ELSE <<>>
           list == sortOrders(came, l.now)
<1>1. l.now \in Nat
  BY ListsAssumption
<1>2. /\ came \in Seq(Listed)
      /\ \A x : Count(came, x) = Count(l.munchi, x) + (IF OfWolt(x) THEN Count(l.rows, x) ELSE 0) + Count(foodora, x)
  BY CountGathered
<1>3. IF "Foodora" \in l.providers /\ l.statuses \intersect {"in_progress", "rejected"} = {}
      THEN answer.fails ELSE ~answer.fails /\ answer.orders = list
  BY DEF ListOrders, FoodoraRefuses
<1> HIDE DEF came
<1>4. \A x : Count(list, x) = Count(came, x)
  BY <1>1, <1>2, CountSorted
<1>5. Kept(list, Late(list, l.now)) = Kept(came, Late(came, l.now))
  BY <1>1, <1>2, LateFirst
<1>6. \A i, j \in DOMAIN list :
        /\ i \in Late(list, l.now) /\ j \notin Late(list, l.now) => i < j
        /\ i \notin Late(list, l.now) /\ DueTime(list[i]) < DueTime(list[j]) => i < j
  BY <1>1, <1>2, ListSorted
<1> HIDE DEF list, answer, foodora
<1>. QED  BY <1>2, <1>3, <1>4, <1>5, <1>6 DEF ListIsInOrder, came, answer, foodora

\* The list of a device has every order asked for, as often as it came, the late ones first and as
\* they came, the others by the time they are due, for all orders and whenever it is asked for
\* (ProviderManagmentService.getOrderByStatus, OrderService.sortOrders).
THEOREM ListInOrderCorrect ==
    Spec => []ListInOrder
<1>1. ListInOrder
  BY ListsAreInOrder DEF ListInOrder
<1>. QED  BY <1>1, PTL

(***************************************************************************)
(* The history.                                                            *)
(***************************************************************************)

\* The places that a page has.
LEMMA PageBounds ==
    ASSUME NEW n \in Nat \ {0}, NEW m \in Nat, NEW p \in 1..((m + n - 1) \div n)
    PROVE  /\ (p - 1) * n \in Nat /\ p * n \in Nat /\ (p - 1) * n < m
           /\ p * n = (p - 1) * n + n
<1>1. p \in Nat /\ p >= 1 /\ m + n - 1 \in Nat
  OBVIOUS
<1>2. ((m + n - 1) \div n) * n <= m + n - 1
  BY <1>1
<1>3. (m + n - 1) \div n \in Int
  BY <1>1
<1>4. p * n <= ((m + n - 1) \div n) * n
  <2>1. \A a, b \in Nat : a <= b => a * n <= b * n
    OBVIOUS
  <2>2. (m + n - 1) \div n \in Nat /\ p <= (m + n - 1) \div n
    BY <1>1, <1>3
  <2>. QED  BY <1>1, <2>1, <2>2
<1>5. p * n = (p - 1) * n + n /\ (p - 1) * n \in Nat /\ p * n \in Nat
  <2>1. p - 1 \in Nat
    BY <1>1
  <2>2. \A a \in Nat : a * n \in Nat /\ (a + 1) * n = a * n + n
    OBVIOUS
  <2>3. (p - 1) + 1 = p
    BY <1>1
  <2>. QED  BY <2>1, <2>2, <2>3
<1>6. p * n <= m + n - 1
  <2> DEFINE d == (m + n - 1) \div n
  <2>1. d * n \in Int
    BY <1>3
  <2> HIDE DEF d
  <2>. QED  BY <1>2, <1>4, <1>5, <2>1 DEF d
<1>. QED  BY <1>5, <1>6

\* A page ends where the next ones have not begun.
LEMMA PagesAscend ==
    ASSUME NEW n \in Nat \ {0}, NEW p \in Nat, NEW q \in Nat, p < q
    PROVE  p * n <= (q - 1) * n
<1>1. \A a, b \in Nat : a <= b => a * n <= b * n
  OBVIOUS
<1>2. q - 1 \in Nat /\ p <= q - 1
  OBVIOUS
<1>. QED  BY <1>1, <1>2

\* Every place is on a page.
LEMMA PlacesHavePages ==
    ASSUME NEW n \in Nat \ {0}, NEW m \in Nat, NEW k \in 1..m
    PROVE  \E p \in 1..((m + n - 1) \div n) : (p - 1) * n < k /\ k <= p * n
<1> DEFINE d == (k - 1) \div n
           r == (k - 1) % n
<1>1. k - 1 \in Nat /\ d \in Nat /\ r \in 0..(n - 1) /\ k - 1 = d * n + r
  <2>1. k - 1 \in Nat
    OBVIOUS
  <2>. QED  BY <2>1
<1>2. (d + 1) * n = d * n + n /\ d * n \in Nat
  <2> HIDE DEF d
  <2>. QED  BY <1>1
<1>3. d + 1 <= (m + n - 1) \div n
  <2> DEFINE top == (m + n - 1) \div n
  <2>1. top \in Int /\ m + n - 1 < (top + 1) * n
    <3>1. m + n - 1 \in Nat
      OBVIOUS
    <3>. QED  BY <3>1
  <2> HIDE DEF top, d, r
  <2>2. d * n + n <= m + n - 1
    BY <1>1, <1>2
  <2>3. (d + 1) * n < (top + 1) * n
    BY <1>1, <1>2, <2>1, <2>2
  <2>4. d + 1 < top + 1
    <3>. SUFFICES ASSUME top + 1 <= d + 1 PROVE FALSE
      BY <1>1, <2>1
    <3>1. \A a, b \in Int : a <= b => a * n <= b * n
      OBVIOUS
    <3>2. (top + 1) * n <= (d + 1) * n
      BY <1>1, <2>1, <3>1
    <3>3. (top + 1) * n \in Int /\ (d + 1) * n \in Int
      BY <1>1, <2>1
    <3>. QED  BY <2>3, <3>2, <3>3
  <2>. QED  BY <1>1, <2>1, <2>4 DEF top
<1>4. (d + 1) - 1 = d /\ d + 1 \in Int /\ d + 1 >= 1
  <2> HIDE DEF d
  <2>. QED  BY <1>1
<1>5. d * n < k /\ k <= (d + 1) * n
  <2> HIDE DEF d, r
  <2>. QED  BY <1>1, <1>2
<1>6. (m + n - 1) \div n \in Int
  OBVIOUS
<1> HIDE DEF d
<1>. QED  BY <1>3, <1>4, <1>5, <1>6

\* The later number first, and equal ones as the database has them.
Later(found, tie) ==
    {p \in found \X found : \/ p[1].number > p[2].number
                            \/ p[1].number = p[2].number /\ tie[p[1].id] < tie[p[2].id]}

\* Orders by number, and with equal numbers as the database breaks the tie, are in a strict total order.
LEMMA LaterIsOrder ==
    ASSUME NEW found, \A r \in found : r.number \in Nat, NEW tie, BreaksTies(tie, found)
    PROVE  IsOrder(found, Later(found, tie))
<1> DEFINE First(r, s) == r.number > s.number \/ (r.number = s.number /\ tie[r.id] < tie[s.id])
<1>1. \A r, s \in found : <<r, s>> \in Later(found, tie) <=> First(r, s)
  BY DEF Later
<1>2. \A r \in found : r.number \in Int /\ tie[r.id] \in Int
  BY DEF BreaksTies
<1>3. \A r \in found : ~ First(r, r)
  BY <1>2
<1>4. ASSUME NEW r \in found, NEW s \in found, r # s PROVE First(r, s) \/ First(s, r)
  <2>1. tie[r.id] # tie[s.id]
    BY <1>4 DEF BreaksTies
  <2>. QED  BY <1>2, <2>1
<1>5. \A r, s, t \in found : First(r, s) /\ First(s, t) => First(r, t)
  BY <1>2
<1> HIDE DEF First
<1>. QED  BY <1>1, <1>3, <1>4, <1>5 DEF IsOrder

\* A page is a part of the orders found, in their order.
LEMMA PageFacts ==
    ASSUME NEW found, IsFiniteSet(found), \A r \in found : r.number \in Nat,
           NEW tie, BreaksTies(tie, found),
           NEW n \in Nat \ {0}, NEW p \in 1..((Cardinality(found) + n - 1) \div n)
    PROVE  LET all == InOrder(found, Later(found, tie))
               m == Cardinality(found)
               page == Page(found, p, n, tie)
           IN  /\ (p - 1) * n \in Nat /\ p * n \in Nat /\ m \in Nat /\ (p - 1) * n < m
               /\ Len(page) = (IF p * n <= m THEN n ELSE m - (p - 1) * n)
               /\ DOMAIN page = 1..Len(page) /\ Len(page) \in Nat
               /\ \A i \in 1..Len(page) : /\ page[i] = all[(p - 1) * n + i]
                                          /\ (p - 1) * n + i \in 1..m
<1> DEFINE all == InOrder(found, Later(found, tie))
           m == Cardinality(found)
           last == Min({p * n, Len(all)})
<1>1. m \in Nat /\ all \in [1..m -> found]
  BY LaterIsOrder, InOrderFacts
<1>2. Len(all) = m /\ all \in Seq(found)
  BY <1>1
<1>3. (p - 1) * n \in Nat /\ p * n \in Nat /\ (p - 1) * n < m /\ p * n = (p - 1) * n + n
  <2>1. m \in Nat /\ p \in 1..((m + n - 1) \div n)
    BY <1>1
  <2> HIDE DEF m
  <2>. QED  BY <2>1, PageBounds
<1>4. last = IF p * n <= m THEN p * n ELSE m
  <2>1. PICK top \in Nat : top = p * n
    BY <1>3
  <2> DEFINE S == {top, m}
  <2>2. Min(S) \in S /\ \A x \in S : Min(S) <= x
    <3>1. S \in SUBSET Nat /\ S # {}
      BY <1>1
    <3> HIDE DEF S
    <3>. QED  BY <3>1, MinFacts
  <2> HIDE DEF m
  <2>3. Min(S) = IF top <= m THEN top ELSE m
    BY <1>1, <2>2
  <2>4. last = Min(S)
    BY <1>2, <2>1
  <2> HIDE DEF S, last
  <2>. QED  BY <2>1, <2>3, <2>4
<1>5. Page(found, p, n, tie) = SubSeq(all, (p - 1) * n + 1, last)
  BY DEF Page, Later
<1> HIDE DEF all, m, last
<1>6. (p - 1) * n + 1 \in 1..(m + 1) /\ last \in ((p - 1) * n + 1)..m /\ last \in Nat
  BY <1>1, <1>3, <1>4
<1> DEFINE page == Page(found, p, n, tie)
           lo == (p - 1) * n
<1>7. Len(page) = last - lo /\ DOMAIN page = 1..Len(page)
      /\ \A i \in 1..Len(page) : page[i] = all[lo + i]
  <2>1. PICK b \in Nat : b = lo
    BY <1>3
  <2>2. b + 1 \in 1..(Len(all) + 1) /\ last \in b..Len(all) /\ last \in Nat
    BY <1>2, <1>6, <2>1
  <2>3. page = SubSeq(all, b + 1, last)
    BY <1>5, <2>1
  <2>4. /\ page \in Seq(found)
        /\ Len(page) = IF b + 1 <= last THEN last - (b + 1) + 1 ELSE 0
        /\ \A i \in 1..(last - (b + 1) + 1) : page[i] = all[b + 1 + i - 1]
    <3> HIDE DEF page
    <3>1. b + 1 \in 1..(Len(all) + 1) /\ last \in ((b + 1) - 1)..Len(all)
      BY <2>2
    <3>. QED  BY <1>2, <2>3, <3>1, SubSeqProperties
  <2> HIDE DEF page, lo
  <2>5. b + 1 <= last
    BY <1>6, <2>1 DEF lo
  <2>6. Len(page) = last - b
    BY <2>2, <2>4, <2>5
  <2>7. DOMAIN page = 1..Len(page)
    BY <2>4
  <2>8. \A i \in 1..Len(page) : page[i] = all[b + i]
    <3>. SUFFICES ASSUME NEW i \in 1..Len(page) PROVE page[i] = all[b + i]
      OBVIOUS
    <3>1. i \in 1..(last - (b + 1) + 1) /\ b + 1 + i - 1 = b + i
      BY <2>2, <2>6
    <3>. QED  BY <2>4, <3>1
  <2>. QED  BY <2>1, <2>6, <2>7, <2>8
<1>8. Len(page) = (IF p * n <= m THEN n ELSE m - (p - 1) * n) /\ Len(page) \in Nat
  <2> HIDE DEF page
  <2>. QED  BY <1>1, <1>3, <1>4, <1>7
<1>9. \A i \in 1..Len(page) : lo + i \in 1..m
  <2> HIDE DEF page, lo
  <2>1. lo \in Nat /\ last \in Nat /\ last <= m
    BY <1>1, <1>3, <1>6 DEF lo
  <2>. QED  BY <1>1, <1>7, <2>1
<1>. QED  BY <1>1, <1>3, <1>7, <1>8, <1>9 DEF all, m

\* Pages of which the database breaks the ties alike are the orders found, each once, none before one of a later number.
LEMMA PagesAreWhole ==
    ASSUME NEW found, IsFiniteSet(found), \A r \in found : r.number \in Nat,
           NEW tie, BreaksTies(tie, found), NEW n \in Nat \ {0}
    PROVE  LET pages == 1..((Cardinality(found) + n - 1) \div n)
               Shown(page) == Page(found, page, n, tie)
           IN  /\ UNION {ToSet(Shown(page)) : page \in pages} = found
               /\ \A p, q \in pages : \A i \in DOMAIN Shown(p), j \in DOMAIN Shown(q) :
                    p < q \/ (p = q /\ i < j) =>
                      Shown(p)[i] # Shown(q)[j] /\ Shown(p)[i].number >= Shown(q)[j].number
               /\ \A p, q \in pages : p < q => Len(Shown(p)) = n
<1> DEFINE m == Cardinality(found)
           pages == 1..((m + n - 1) \div n)
           Shown(page) == Page(found, page, n, tie)
           all == InOrder(found, Later(found, tie))
<1>1. /\ m \in Nat /\ all \in [1..m -> found]
      /\ \A i, j \in 1..m : i < j => all[i] # all[j] /\ all[i].number >= all[j].number
      /\ \A r \in found : \E k \in 1..m : all[k] = r
  <2>1. /\ m \in Nat /\ all \in [1..m -> found]
        /\ \A i, j \in 1..m : i < j => <<all[i], all[j]>> \in Later(found, tie)
        /\ \A r \in found : /\ Cardinality(Before(r, found, Later(found, tie))) + 1 \in 1..m
                            /\ all[Cardinality(Before(r, found, Later(found, tie))) + 1] = r
    BY LaterIsOrder, InOrderFacts
  <2>2. \A r, s \in found : <<r, s>> \in Later(found, tie) => r # s /\ r.number >= s.number
    BY DEF Later, BreaksTies
  <2> HIDE DEF all, m
  <2>. QED  BY <2>1, <2>2
<1>2. \A p \in pages :
         /\ (p - 1) * n \in Nat /\ p * n \in Nat /\ (p - 1) * n < m
         /\ Len(Shown(p)) = (IF p * n <= m THEN n ELSE m - (p - 1) * n)
         /\ DOMAIN Shown(p) = 1..Len(Shown(p)) /\ Len(Shown(p)) \in Nat
         /\ \A i \in 1..Len(Shown(p)) : /\ Shown(p)[i] = all[(p - 1) * n + i]
                                        /\ (p - 1) * n + i \in 1..m
  BY PageFacts
<1> HIDE DEF all
<1>3. \A p \in pages : p \in Nat /\ p >= 1 /\ p * n = (p - 1) * n + n
  <2>. SUFFICES ASSUME NEW p \in pages PROVE p \in Nat /\ p >= 1 /\ p * n = (p - 1) * n + n
    OBVIOUS
  <2>1. p * n = (p - 1) * n + n
    BY <1>1, PageBounds
  <2>. QED  BY <1>1, <2>1
<1>4. \A p, q \in pages : p < q => p * n <= (q - 1) * n
  BY <1>3, PagesAscend
<1>5. \A k \in 1..m : \E p \in pages : (p - 1) * n < k /\ k <= p * n
  BY <1>1, PlacesHavePages
<1> HIDE DEF Shown, pages, m
<1>6. \A p, q \in pages : p < q => Len(Shown(p)) = n
  <2>. SUFFICES ASSUME NEW p \in pages, NEW q \in pages, p < q PROVE Len(Shown(p)) = n
    OBVIOUS
  <2>1. p * n <= m
    BY <1>1, <1>2, <1>4
  <2>. QED  BY <1>2, <2>1
<1>7. ASSUME NEW p \in pages, NEW q \in pages, NEW i \in DOMAIN Shown(p), NEW j \in DOMAIN Shown(q),
             p < q \/ (p = q /\ i < j)
      PROVE  Shown(p)[i] # Shown(q)[j] /\ Shown(p)[i].number >= Shown(q)[j].number
  <2>1. PICK a \in Nat, b \in Nat : a = (p - 1) * n /\ b = (q - 1) * n
    BY <1>2
  <2>2. /\ Shown(p)[i] = all[a + i] /\ a + i \in 1..m /\ i \in 1..Len(Shown(p))
        /\ Shown(q)[j] = all[b + j] /\ b + j \in 1..m /\ j \in 1..Len(Shown(q))
    BY <1>2, <2>1
  <2>3. a + i < b + j
    <3>1. CASE p < q
      <4>1. Len(Shown(p)) = n
        BY <1>6, <3>1
      <4>2. a + n <= b
        BY <1>3, <1>4, <2>1, <3>1
      <4>. QED  BY <2>2, <4>1, <4>2
    <3>2. CASE p = q /\ i < j
      BY <2>1, <2>2, <3>2
    <3>. QED  BY <1>7, <3>1, <3>2
  <2>. QED  BY <1>1, <2>2, <2>3
<1>8. \A p \in pages : ToSet(Shown(p)) \subseteq found
  <2>. SUFFICES ASSUME NEW p \in pages, NEW i \in DOMAIN Shown(p) PROVE Shown(p)[i] \in found
    BY DEF ToSet
  <2>1. PICK a \in Nat : a = (p - 1) * n
    BY <1>2
  <2>2. Shown(p)[i] = all[a + i] /\ a + i \in 1..m
    BY <1>2, <2>1
  <2>. QED  BY <1>1, <2>2
<1>9. ASSUME NEW r \in found PROVE \E p \in pages : r \in ToSet(Shown(p))
  <2>1. PICK k \in 1..m : all[k] = r
    BY <1>1
  <2>2. PICK p \in pages : (p - 1) * n < k /\ k <= p * n
    BY <1>5
  <2>3. PICK a \in Nat : a = (p - 1) * n
    BY <1>2
  <2>4. k - a \in 1..Len(Shown(p)) /\ a + (k - a) = k
    <3>1. PICK e \in Nat : e = p * n
      BY <1>2
    <3>2. e = a + n /\ a < k /\ k <= e
      BY <1>3, <2>2, <2>3, <3>1
    <3>3. Len(Shown(p)) = (IF e <= m THEN n ELSE m - a)
      BY <1>2, <2>3, <3>1
    <3>. QED  BY <1>1, <3>2, <3>3
  <2>5. Shown(p)[k - a] = r
    BY <1>2, <2>1, <2>3, <2>4
  <2>. QED  BY <1>2, <2>4, <2>5 DEF ToSet
<1>10. UNION {ToSet(Shown(page)) : page \in pages} = found
  BY <1>8, <1>9
<1>. QED  BY <1>6, <1>7, <1>10 DEF Shown, pages, m

\* When the numbers differ it is all the same how the database breaks ties.
LEMMA PagesAlike ==
    ASSUME NEW found, \A r, s \in found : r.number = s.number => r = s,
           NEW page, NEW n, NEW tie, NEW other, BreaksTies(tie, found), BreaksTies(other, found)
    PROVE  Page(found, page, n, tie) = Page(found, page, n, other)
<1>1. \A r \in found : ~ (tie[r.id] < tie[r.id]) /\ ~ (other[r.id] < other[r.id])
  BY DEF BreaksTies
<1>2. Later(found, tie) = Later(found, other)
  BY <1>1 DEF Later
<1>3. /\ Page(found, page, n, tie) =
           SubSeq(InOrder(found, Later(found, tie)), (page - 1) * n + 1,
                  Min({page * n, Len(InOrder(found, Later(found, tie)))}))
      /\ Page(found, page, n, other) =
           SubSeq(InOrder(found, Later(found, other)), (page - 1) * n + 1,
                  Min({page * n, Len(InOrder(found, Later(found, other)))}))
  BY DEF Page, Later
<1>. QED  BY <1>2, <1>3

\* What the pages of a history are, when the database breaks ties by ties[page].
PagesHold(found, n, ties) ==
    LET pages == 1..((Cardinality(found) + n - 1) \div n)
        Shown(page) == Page(found, page, n, ties[page])
    IN  /\ \/ \A r, s \in found : r.number = s.number => r = s
           \/ \A p, q \in pages : ties[p] = ties[q]
           => /\ UNION {ToSet(Shown(page)) : page \in pages} = found
              /\ \A p, q \in pages : \A i \in DOMAIN Shown(p), j \in DOMAIN Shown(q) :
                   p < q \/ (p = q /\ i < j) =>
                     Shown(p)[i] # Shown(q)[j] /\ Shown(p)[i].number >= Shown(q)[j].number
        /\ \A p, q \in pages : p < q => Len(Shown(p)) = n

\* The pages of a history hold that, however the database breaks ties.
LEMMA PagesOfTies ==
    ASSUME NEW found, IsFiniteSet(found), \A r \in found : r.number \in Nat, NEW ties,
           \A page \in 1..(Cardinality(found) + 1) : BreaksTies(ties[page], found), NEW n \in Nat \ {0}
    PROVE  PagesHold(found, n, ties)
<1> DEFINE m == Cardinality(found)
           pages == 1..((m + n - 1) \div n)
           Shown(page) == Page(found, page, n, ties[page])
           Steady(page) == Page(found, page, n, ties[1])
           differ == \A r, s \in found : r.number = s.number => r = s
           alike == \A p, q \in pages : ties[p] = ties[q]
<1>1. m \in Nat
  BY FS_CardinalityType
<1>2. ASSUME NEW p \in pages PROVE p \in 1..(m + 1)
  <2> HIDE DEF m
  <2>1. /\ (p - 1) * n \in Nat /\ (p - 1) * n < m /\ p \in Nat /\ p - 1 \in Nat
    BY <1>1, PageBounds
  <2>2. \A a \in Nat : a <= a * n
    OBVIOUS
  <2>3. p - 1 <= (p - 1) * n
    BY <2>1, <2>2
  <2>. QED  BY <1>1, <2>1, <2>3
<1>3. 1 \in 1..(m + 1)
  BY <1>1
<1>4. \A page \in 1..(m + 1) : BreaksTies(ties[page], found)
  OBVIOUS
<1>5. \A p, q \in pages : p < q => Len(Shown(p)) = n
  <2>. SUFFICES ASSUME NEW p \in pages, NEW q \in pages, p < q PROVE Len(Shown(p)) = n
    OBVIOUS
  <2>1. PICK tie : tie = ties[p]
    OBVIOUS
  <2>2. BreaksTies(tie, found)
    BY <1>2, <1>4, <2>1
  <2>3. \A a, b \in pages : a < b => Len(Page(found, a, n, tie)) = n
    BY <2>2, PagesAreWhole
  <2>. QED  BY <2>1, <2>3
<1>6. ASSUME differ \/ alike, NEW page \in pages PROVE Shown(page) = Steady(page)
  <2>1. CASE differ
    BY <1>2, <1>3, <1>4, <2>1, PagesAlike
  <2>2. CASE alike
    <3>1. 1 \in pages
      BY <1>1
    <3>2. ties[page] = ties[1]
      BY <1>6, <2>2, <3>1
    <3>. QED  BY <3>2
  <2>. QED  BY <1>6, <2>1, <2>2
<1>7. /\ UNION {ToSet(Steady(page)) : page \in pages} = found
      /\ \A p, q \in pages : \A i \in DOMAIN Steady(p), j \in DOMAIN Steady(q) :
           p < q \/ (p = q /\ i < j) => Steady(p)[i] # Steady(q)[j] /\ Steady(p)[i].number >= Steady(q)[j].number
  <2>1. PICK tie : tie = ties[1]
    OBVIOUS
  <2>2. BreaksTies(tie, found)
    BY <1>3, <1>4, <2>1
  <2>3. /\ UNION {ToSet(Page(found, page, n, tie)) : page \in pages} = found
        /\ \A p, q \in pages : \A i \in DOMAIN Page(found, p, n, tie), j \in DOMAIN Page(found, q, n, tie) :
             p < q \/ (p = q /\ i < j) =>
               /\ Page(found, p, n, tie)[i] # Page(found, q, n, tie)[j]
               /\ Page(found, p, n, tie)[i].number >= Page(found, q, n, tie)[j].number
    BY <2>2, PagesAreWhole
  <2>. QED  BY <2>1, <2>3
<1> HIDE DEF Shown, Steady, pages
<1>8. differ \/ alike =>
        /\ UNION {ToSet(Shown(page)) : page \in pages} = found
        /\ \A p, q \in pages : \A i \in DOMAIN Shown(p), j \in DOMAIN Shown(q) :
             p < q \/ (p = q /\ i < j) => Shown(p)[i] # Shown(q)[j] /\ Shown(p)[i].number >= Shown(q)[j].number
  <2>. SUFFICES ASSUME differ \/ alike
                PROVE  /\ UNION {ToSet(Shown(page)) : page \in pages} = found
                       /\ \A p, q \in pages : \A i \in DOMAIN Shown(p), j \in DOMAIN Shown(q) :
                            p < q \/ (p = q /\ i < j) =>
                              Shown(p)[i] # Shown(q)[j] /\ Shown(p)[i].number >= Shown(q)[j].number
    OBVIOUS
  <2>1. \A page \in pages : Shown(page) = Steady(page)
    BY <1>6
  <2>2. UNION {ToSet(Shown(page)) : page \in pages} = UNION {ToSet(Steady(page)) : page \in pages}
    BY <2>1
  <2>. QED  BY <1>7, <2>1, <2>2
<1>. QED  BY <1>5, <1>8 DEF PagesHold, Shown, pages, m

\* A history that is asked for by means of payment, once for cash and once for card, has
\* every order of the one that is asked for without, and none twice: also the orders that
\* say nothing of their payment (getOrderHistory).
THEOREM PaymentsSplitHistory ==
    ASSUME NEW rows, NEW filter, "payMethod" \notin DOMAIN filter, NEW range
    PROVE  LET whole == Found(rows, filter, range)
               cash  == Found(rows, Paid(filter, "Cash"), range)
               card  == Found(rows, Paid(filter, "Card"), range)
           IN  /\ cash \union card = whole /\ cash \intersect card = {}
               /\ IsFiniteSet(rows) => Cardinality(whole) = Cardinality(cash) + Cardinality(card)
<1> DEFINE whole == Found(rows, filter, range)
           cash  == Found(rows, Paid(filter, "Cash"), range)
           card  == Found(rows, Paid(filter, "Card"), range)
<1>1. ASSUME NEW method \in {"Cash", "Card"}
      PROVE  Found(rows, Paid(filter, method), range)
                = {r \in Found(rows, filter, range) : PaidBy(r, {method})}
  <2> DEFINE f == Paid(filter, method)
  <2>1. DOMAIN f = {"payMethod"} \union DOMAIN filter
    BY DEF Paid
  <2>2. f["payMethod"] = {method}
    BY DEF Paid
  <2>3. \A name \in {"orderStatus", "provider"} : \A default : Given(f, name, default) = Given(filter, name, default)
    BY DEF Given, Paid
  <2> HIDE DEF f
  <2>4. Found(rows, f, range) = {r \in Found(rows, filter, range) : PaidBy(r, {method})}
    BY <2>1, <2>2, <2>3 DEF Found
  <2>. QED  BY <2>4 DEF f
<1>2. \A r \in whole : PaidBy(r, {"Cash"}) <=> ~ PaidBy(r, {"Card"})
  BY DEF PaidBy
<1>3. cash \union card = whole /\ cash \intersect card = {}
  BY <1>1, <1>2
<1>4. ASSUME IsFiniteSet(rows)
      PROVE  Cardinality(whole) = Cardinality(cash) + Cardinality(card)
  <2>1. whole \subseteq rows
    BY DEF Found
  <2>2. IsFiniteSet(whole)
    BY <1>4, <2>1, FS_Subset
  <2>3. IsFiniteSet(cash) /\ IsFiniteSet(card)
    BY <1>3, <2>2, FS_Subset
  <2>4. Cardinality(cash) \in Nat /\ Cardinality(card) \in Nat /\ Cardinality({}) = 0
    BY <2>3, FS_CardinalityType, FS_EmptySet
  <2>5. Cardinality(cash \union card)
           = Cardinality(cash) + Cardinality(card) - Cardinality(cash \intersect card)
    <3> HIDE DEF whole, cash, card
    <3>. QED  BY <2>3, FS_Union
  <2>6. Cardinality(whole) = Cardinality(cash) + Cardinality(card) - 0
    BY <1>3, <2>4, <2>5
  <2>. QED  BY <2>4, <2>6
<1>. QED  BY <1>3, <1>4

\* A total is a number, and that of two sets of orders is the sum of theirs.
LEMMA TotalFacts ==
    ASSUME NEW S, IsFiniteSet(S), \A r \in S : r.total \in Int
    PROVE  /\ \A A \in SUBSET S : TotalOf(A) \in Int
           /\ \A A, B \in SUBSET S : A \intersect B = {} => TotalOf(A \union B) = TotalOf(A) + TotalOf(B)
<1>1. PICK f : f = [r \in S |-> r.total]
  OBVIOUS
<1>2. \A x \in S : f[x] \in Int
  BY <1>1
<1>3. \A A \in SUBSET S : TotalOf(A) = SumFunctionOnSet(f, A)
  <2>. SUFFICES ASSUME NEW A \in SUBSET S PROVE TotalOf(A) = SumFunctionOnSet(f, A)
    OBVIOUS
  <2>1. PICK g : g = [r \in A |-> r.total]
    OBVIOUS
  <2>2. IsFiniteSet(A) /\ \A x \in A : f[x] \in Int
    BY <1>2, FS_Subset
  <2>3. \A x \in A : g[x] = f[x]
    BY <1>1, <2>1
  <2>4. SumFunctionOnSet(g, A) = SumFunctionOnSet(f, A)
    BY <2>2, <2>3, SumSame
  <2>. QED  BY <2>1, <2>4 DEF TotalOf
<1>4. \A A \in SUBSET S : SumFunctionOnSet(f, A) \in Int
  BY <1>2, SumType
<1>5. \A A, B \in SUBSET S : A \intersect B = {} =>
        SumFunctionOnSet(f, A \union B) = SumFunctionOnSet(f, A) + SumFunctionOnSet(f, B)
  BY <1>2, SumUnion
<1>. QED  BY <1>3, <1>4, <1>5

\* What is said of two sets of orders is said of them together.
LEMMA AnalyticsAdd ==
    ASSUME NEW A, NEW B, IsFiniteSet(A \union B), A \intersect B = {},
           \A r \in A \union B : r.total \in Int,
           NEW total \in {"totalSales", "totalRejections", "totalRejectionValue"}
    PROVE  analyzeOrderData(A \union B)[total] = analyzeOrderData(A)[total] + analyzeOrderData(B)[total]
<1> DEFINE S == A \union B
           Is(T, status) == {r \in T : r.status = status}
<1>1. \A status : /\ Is(S, status) = Is(A, status) \union Is(B, status)
                  /\ Is(A, status) \intersect Is(B, status) = {}
                  /\ Is(A, status) \in SUBSET S /\ Is(B, status) \in SUBSET S
  OBVIOUS
<1>2. \A T : /\ analyzeOrderData(T)["totalSales"] = TotalOf(Is(T, "delivered"))
             /\ analyzeOrderData(T)["totalRejections"] = Cardinality(Is(T, "rejected"))
             /\ analyzeOrderData(T)["totalRejectionValue"] = TotalOf(Is(T, "rejected"))
  BY DEF analyzeOrderData
<1> HIDE DEF Is
<1>3. \A status : TotalOf(Is(S, status)) = TotalOf(Is(A, status)) + TotalOf(Is(B, status))
  <2> HIDE DEF S
  <2>1. \A U, V \in SUBSET S : U \intersect V = {} => TotalOf(U \union V) = TotalOf(U) + TotalOf(V)
    BY TotalFacts DEF S
  <2>. QED  BY <1>1, <2>1
<1>4. Cardinality(Is(S, "rejected")) = Cardinality(Is(A, "rejected")) + Cardinality(Is(B, "rejected"))
  <2>1. PICK U, V : U = Is(A, "rejected") /\ V = Is(B, "rejected")
    OBVIOUS
  <2>2. IsFiniteSet(U) /\ IsFiniteSet(V)
    <3>1. U \in SUBSET S /\ V \in SUBSET S
      BY <1>1, <2>1
    <3>. QED  BY <3>1, FS_Subset
  <2>3. Cardinality(U \union V) = Cardinality(U) + Cardinality(V) - Cardinality(U \intersect V)
    BY <2>2, FS_Union
  <2>4. U \intersect V = {} /\ Is(S, "rejected") = U \union V
    BY <1>1, <2>1
  <2>5. Cardinality(U) \in Nat /\ Cardinality(V) \in Nat /\ Cardinality({}) = 0
    BY <2>2, FS_CardinalityType, FS_EmptySet
  <2>6. Cardinality(U \union V) = Cardinality(U) + Cardinality(V)
    <3>1. Cardinality(U \union V) = Cardinality(U) + Cardinality(V) - 0
      BY <2>3, <2>4, <2>5
    <3>. QED  BY <2>5, <3>1
  <2>. QED  BY <2>1, <2>4, <2>6
<1> HIDE DEF S
<1>5. \A T : analyzeOrderData(T)[total] = IF total = "totalSales" THEN TotalOf(Is(T, "delivered"))
             ELSE IF total = "totalRejections" THEN Cardinality(Is(T, "rejected"))
             ELSE TotalOf(Is(T, "rejected"))
  BY <1>2
<1>6. analyzeOrderData(S)[total] = analyzeOrderData(A)[total] + analyzeOrderData(B)[total]
  <2>1. CASE total = "totalSales"
    BY <1>3, <1>5, <2>1
  <2>2. CASE total = "totalRejections"
    BY <1>4, <1>5, <2>2
  <2>3. CASE total = "totalRejectionValue"
    BY <1>3, <1>5, <2>3
  <2>. QED  BY <2>1, <2>2, <2>3
<1>. QED  BY <1>6 DEF S

\* The orders found are some of the rows.
LEMMA FoundFacts ==
    ASSUME NEW h \in Histories, NEW filter
    PROVE  LET found == Found(h.rows, filter, h.range)
           IN  /\ found \subseteq h.rows /\ IsFiniteSet(found) /\ Cardinality(found) \in Nat
               /\ \A r \in found : r.number \in Nat /\ r.total \in Int
               /\ \A page \in 1..(Cardinality(found) + 1) : BreaksTies(h.ties[page], found)
<1> DEFINE found == Found(h.rows, filter, h.range)
<1>1. /\ h.rows \subseteq Row /\ IsFiniteSet(h.rows)
      /\ \A page \in 1..(Cardinality(h.rows) + 1) : BreaksTies(h.ties[page], h.rows)
  BY HistoriesAssumption
<1>2. \A r \in Row : r.number \in Nat /\ r.total \in Int
  BY DEF Row
<1>3. found \subseteq h.rows
  BY DEF Found
<1> HIDE DEF found
<1>4. /\ IsFiniteSet(found) /\ Cardinality(found) <= Cardinality(h.rows)
      /\ Cardinality(found) \in Nat /\ Cardinality(h.rows) \in Nat
  BY <1>1, <1>3, FS_Subset, FS_CardinalityType
<1>5. ASSUME NEW page \in 1..(Cardinality(found) + 1) PROVE BreaksTies(h.ties[page], found)
  <2>1. BreaksTies(h.ties[page], h.rows)
    BY <1>1, <1>4
  <2>. QED  BY <1>3, <2>1 DEF BreaksTies
<1>. QED  BY <1>1, <1>2, <1>3, <1>4, <1>5 DEF found

LEMMA HistoriesAreWhole ==
    ASSUME NEW h \in Histories
    PROVE  HistoryIsWhole(h)
<1> DEFINE Ask(filter, page) == getOrderHistory(h.rows, filter, h.range, page, h.rowPerPage, h.ties[page])
           found == Found(h.rows, h.filter, h.range)
           cash == Found(h.rows, Paid(h.filter, "Cash"), h.range)
           card == Found(h.rows, Paid(h.filter, "Card"), h.range)
           pages == 1..((Cardinality(found) + h.rowPerPage - 1) \div h.rowPerPage)
           Shown(page) == Page(found, page, h.rowPerPage, h.ties[page])
           steady == \/ \A r, s \in found : r.number = s.number => r = s
                     \/ \A p, q \in pages : h.ties[p] = h.ties[q]
           totals == {"totalSales", "totalRejections", "totalRejectionValue"}
<1>1. /\ IsFiniteSet(found) /\ \A r \in found : r.number \in Nat /\ r.total \in Int
      /\ \A page \in 1..(Cardinality(found) + 1) : BreaksTies(h.ties[page], found)
      /\ h.rowPerPage \in Nat \ {0} /\ IsFiniteSet(h.rows) /\ "payMethod" \notin DOMAIN h.filter
  BY FoundFacts, HistoriesAssumption
<1>2. /\ cash \union card = found /\ cash \intersect card = {}
      /\ Cardinality(found) = Cardinality(cash) + Cardinality(card)
  BY <1>1, PaymentsSplitHistory
<1>3. \A filter, page :
        /\ Ask(filter, page).totalOrders = Cardinality(Found(h.rows, filter, h.range))
        /\ Ask(filter, page).orders = Page(Found(h.rows, filter, h.range), page, h.rowPerPage, h.ties[page])
        /\ Ask(filter, page).analytics = analyzeOrderData(Found(h.rows, filter, h.range))
  BY DEF getOrderHistory
<1>4. /\ steady =>
           /\ UNION {ToSet(Shown(page)) : page \in pages} = found
           /\ \A p, q \in pages : \A i \in DOMAIN Shown(p), j \in DOMAIN Shown(q) :
                p < q \/ (p = q /\ i < j) => Shown(p)[i] # Shown(q)[j] /\ Shown(p)[i].number >= Shown(q)[j].number
      /\ \A p, q \in pages : p < q => Len(Shown(p)) = h.rowPerPage
  <2>1. PagesHold(found, h.rowPerPage, h.ties)
    <3> HIDE DEF found
    <3>. QED  BY <1>1, PagesOfTies
  <2>. QED  BY <2>1 DEF PagesHold
<1>5. \A total \in totals : analyzeOrderData(found)[total] = analyzeOrderData(cash)[total] + analyzeOrderData(card)[total]
  <2> HIDE DEF found, cash, card
  <2>. QED  BY <1>1, <1>2, AnalyticsAdd
<1>6. ASSUME \A r \in found : r.status \in {"delivered", "rejected"}
      PROVE  analyzeOrderData(found).totalSales + analyzeOrderData(found).totalRejectionValue = TotalOf(found)
  <2> DEFINE A == {r \in found : r.status = "delivered"}
             B == {r \in found : r.status = "rejected"}
  <2>1. A \union B = found /\ A \intersect B = {} /\ A \in SUBSET found /\ B \in SUBSET found
    BY <1>6
  <2>2. analyzeOrderData(found).totalSales = TotalOf(A) /\ analyzeOrderData(found).totalRejectionValue = TotalOf(B)
    BY DEF analyzeOrderData
  <2> HIDE DEF A, B, found
  <2>3. TotalOf(A \union B) = TotalOf(A) + TotalOf(B)
    BY <1>1, <2>1, TotalFacts
  <2>. QED  BY <2>1, <2>2, <2>3
<1> HIDE DEF found, cash, card
<1>7. /\ Ask(h.filter, 1).totalOrders = Cardinality(found)
      /\ \A page : Ask(h.filter, page).orders = Shown(page)
      /\ Ask(h.filter, 1).analytics = analyzeOrderData(found)
      /\ Ask(Paid(h.filter, "Cash"), 1).totalOrders = Cardinality(cash)
      /\ Ask(Paid(h.filter, "Cash"), 1).analytics = analyzeOrderData(cash)
      /\ Ask(Paid(h.filter, "Card"), 1).totalOrders = Cardinality(card)
      /\ Ask(Paid(h.filter, "Card"), 1).analytics = analyzeOrderData(card)
  BY <1>3 DEF found, cash, card
<1>8. UNION {ToSet(Shown(page)) : page \in pages} = UNION {ToSet(Ask(h.filter, page).orders) : page \in pages}
  BY <1>7
<1> HIDE DEF Ask, Shown
<1>. QED
  BY <1>2, <1>4, <1>5, <1>6, <1>7, <1>8 DEF HistoryIsWhole, Ask, found

\* The pages of the history show exactly the orders its totals are of, each once and by number, as
\* long as the numbers differ or the database breaks ties alike for every page; and what was paid
\* in cash and by card adds up to the whole, for all rows, filters and sizes of a page
\* (HistoryService.getOrderHistory, FinancialAnalyticsService.analyzeOrderData).
THEOREM HistoryAddsUpCorrect ==
    Spec => []HistoryAddsUp
<1>1. HistoryAddsUp
  BY HistoriesAreWhole DEF HistoryAddsUp
<1>. QED  BY <1>1, PTL

(***************************************************************************)
(* The sales by product.                                                   *)
(***************************************************************************)

\* What is counted of a product.
Entry == [name : STRING, quantity : Int, total : Int]

\* A line adds to the entry of its product, the first one there is, or is one more.
LEMMA AddProductFacts ==
    ASSUME NEW entries \in Seq(Entry), NEW line \in Line
    PROVE  LET known == {i \in DOMAIN entries : entries[i].name = line.name}
               after == addProduct(entries, line)
           IN  /\ after \in Seq(Entry)
               /\ known = {} => after = Append(entries, NewEntry(line))
               /\ known # {} => \E k \in known :
                    /\ Len(after) = Len(entries)
                    /\ \A i \in 1..Len(entries) : i # k => after[i] = entries[i]
                    /\ after[k].name = line.name
                    /\ after[k].quantity = entries[k].quantity + line.quantity
                    /\ after[k].total = entries[k].total + line.price * line.quantity
<1> DEFINE known == {i \in DOMAIN entries : entries[i].name = line.name}
           after == addProduct(entries, line)
<1>1. /\ line.name \in STRING /\ line.price \in Int /\ line.quantity \in Int
      /\ line.price * line.quantity \in Int
  BY DEF Line
<1>2. DOMAIN entries = 1..Len(entries) /\ Len(entries) \in Nat /\ \A i \in 1..Len(entries) : entries[i] \in Entry
  OBVIOUS
<1>3. CASE known = {}
  <2>1. after = Append(entries, NewEntry(line))
    BY <1>3 DEF addProduct
  <2>2. NewEntry(line) \in Entry
    BY <1>1 DEF NewEntry, Entry
  <2>. QED  BY <1>3, <2>1, <2>2
<1>4. CASE known # {}
  <2> DEFINE k == Min(known)
  <2>1. k \in known
    <3>1. known \in SUBSET Nat
      BY <1>2
    <3> HIDE DEF known
    <3>. QED  BY <1>4, <3>1, MinFacts
  <2>2. after = [entries EXCEPT ![k].quantity = @ + line.quantity, ![k].total = @ + line.price * line.quantity]
    BY <1>4 DEF addProduct
  <2> HIDE DEF k, after
  <2>3. k \in 1..Len(entries) /\ entries[k].name = line.name /\ entries[k] \in Entry
    BY <1>2, <2>1
  <2>4. PICK e : e = [name |-> entries[k].name, quantity |-> entries[k].quantity + line.quantity,
                      total |-> entries[k].total + line.price * line.quantity]
    OBVIOUS
  <2>5. e \in Entry
    BY <1>1, <2>3, <2>4 DEF Entry
  <2>6. after = [entries EXCEPT ![k] = e]
    <3>1. DOMAIN after = DOMAIN entries /\ \A i \in DOMAIN entries : i # k => after[i] = entries[i]
      BY <2>2
    <3>2. [[entries[k] EXCEPT !.quantity = @ + line.quantity] EXCEPT !.total = @ + line.price * line.quantity] = e
      <4>1. PICK q : q = entries[k].quantity + line.quantity
        OBVIOUS
      <4>2. PICK t : t = entries[k].total + line.price * line.quantity
        OBVIOUS
      <4>3. q \in Int /\ t \in Int
        BY <1>1, <2>3, <4>1, <4>2 DEF Entry
      <4>4. PICK r \in Entry : r = entries[k]
        BY <2>3
      <4>5. [[r EXCEPT !.quantity = q] EXCEPT !.total = t] = [name |-> r.name, quantity |-> q, total |-> t]
        <5>1. PICK u : u = [name |-> r.name, quantity |-> q, total |-> r.total]
          OBVIOUS
        <5>2. [r EXCEPT !.quantity = q] = u
          BY <4>3, <4>4, <5>1 DEF Entry
        <5>3. [u EXCEPT !.total = t] = [name |-> r.name, quantity |-> q, total |-> t]
          BY <5>1
        <5>. QED  BY <5>2, <5>3
      <4>6. [r EXCEPT !.quantity = q].total = r.total
        BY <4>4 DEF Entry
      <4>. QED  BY <2>4, <4>1, <4>2, <4>4, <4>5, <4>6
    <3>3. after[k] = [[entries[k] EXCEPT !.quantity = @ + line.quantity] EXCEPT !.total = @ + line.price * line.quantity]
      BY <1>2, <2>2, <2>3
    <3>4. after = [i \in DOMAIN entries |-> after[i]]
      BY <2>2
    <3>. QED  BY <1>2, <2>3, <3>1, <3>2, <3>3, <3>4
  <2>7. after \in Seq(Entry) /\ Len(after) = Len(entries) /\ after[k] = e
        /\ \A i \in 1..Len(entries) : i # k => after[i] = entries[i]
    BY <1>2, <2>3, <2>5, <2>6
  <2>. QED  BY <1>4, <2>1, <2>3, <2>4, <2>7 DEF after
<1>. QED  BY <1>3, <1>4

\* The products after each of some lines.
ProductsAfter(F, base, lines) ==
    /\ F[0] = base /\ F[Len(lines)] = FoldLeft(addProduct, base, lines)
    /\ \A k \in 0..(Len(lines) - 1) : F[k + 1] = addProduct(F[k], lines[k + 1])

\* What addOrder computes is the last of the products after each line.
LEMMA ProductsFold ==
    ASSUME NEW base \in Seq(Entry), NEW lines \in Seq(Line)
    PROVE  \E F : ProductsAfter(F, base, lines)
<1> DEFINE n == Len(lines)
           V == Seq(Entry)
           Solves(h) == h = [s \in SUBSET (1..n) |->
                               IF s = {} THEN base ELSE addProduct(h[s \ {Max(s)}], lines[Max(s)])]
<1>1. n \in Nat /\ DOMAIN lines = 1..n /\ \A i \in 1..n : lines[i] \in Line
  OBVIOUS
<1>2. PICK g : g = [p \in (1..n) \X V |-> addProduct(p[2], lines[p[1]])]
  OBVIOUS
<1>3. \A i \in 1..n : \A v \in V : g[<<i, v>>] = addProduct(v, lines[i]) /\ addProduct(v, lines[i]) \in V
  <2>1. \A i \in 1..n : \A v \in V : addProduct(v, lines[i]) \in V
    BY <1>1, AddProductFacts
  <2>. QED  BY <1>2, <2>1
<1>4. PICK f \in [SUBSET (1..n) -> V] : IsLeftFold(f, n, base, g)
  <2>1. StaysIn(g, 1..n, V)
    BY <1>3 DEF StaysIn
  <2>. QED  BY <1>1, <2>1, LeftFoldExists
<1>5. \A s \in SUBSET (1..n) : s # {} => Max(s) \in 1..n
  BY <1>1, LastPlace
<1>6. Solves(f)
  <2>1. \A s \in SUBSET (1..n) : f[s] = IF s = {} THEN base ELSE addProduct(f[s \ {Max(s)}], lines[Max(s)])
    BY <1>3, <1>4, <1>5 DEF IsLeftFold
  <2>. QED  BY <2>1
<1>7. PICK h : h = CHOOSE any : Solves(any)
  OBVIOUS
<1>8. Solves(h)
  BY <1>6, <1>7
<1>9. FoldLeft(addProduct, base, lines) = h[1..n]
  BY <1>1, <1>7 DEF FoldLeft, MapThenFoldSet
<1> DEFINE F == [k \in 0..n |-> h[1..k]]
<1>10. F[0] = base
  <2>1. h[{}] = base /\ 0 \in 0..n
    BY <1>1, <1>8
  <2>2. 1..0 = {}
    OBVIOUS
  <2>. QED  BY <2>1, <2>2
<1>11. F[n] = FoldLeft(addProduct, base, lines)
  BY <1>1, <1>9
<1>12. ASSUME NEW k \in 0..(n - 1) PROVE F[k + 1] = addProduct(F[k], lines[k + 1])
  <2>1. /\ 1..(k + 1) \in SUBSET (1..n) /\ 1..(k + 1) # {}
        /\ Max(1..(k + 1)) = k + 1 /\ (1..(k + 1)) \ {k + 1} = 1..k
    BY <1>1, LastPlace
  <2>2. h[1..(k + 1)] = addProduct(h[(1..(k + 1)) \ {Max(1..(k + 1))}], lines[Max(1..(k + 1))])
    BY <1>8, <2>1
  <2>3. k \in 0..n /\ k + 1 \in 0..n
    BY <1>1
  <2> HIDE DEF n
  <2>. QED  BY <2>1, <2>2, <2>3
<1>. QED  BY <1>10, <1>11, <1>12 DEF ProductsAfter

\* The lines at some places P, and the sums of them.
Quantities(at, P) == [p \in P |-> at[p].quantity]

Totals(at, P) == [p \in P |-> at[p].price * at[p].quantity]

Named(at, sold, name) == {p \in sold : at[p].name = name}

\* The entries are of the lines at the places of sold.
Counted(entries, at, P, sold) ==
    /\ entries \in Seq(Entry) /\ sold \in SUBSET P
    /\ {entries[i].name : i \in DOMAIN entries} = {at[p].name : p \in sold}
    /\ \A i, j \in DOMAIN entries : entries[i].name = entries[j].name => i = j
    /\ \A i \in DOMAIN entries :
         /\ entries[i].quantity = SumFunctionOnSet(Quantities(at, P), Named(at, sold, entries[i].name))
         /\ entries[i].total = SumFunctionOnSet(Totals(at, P), Named(at, sold, entries[i].name))

\* One more line is counted, and no other one twice.
LEMMA AddProductCounts ==
    ASSUME NEW P, IsFiniteSet(P), NEW at \in [P -> Line], NEW entries, NEW sold, NEW z \in P \ sold,
           Counted(entries, at, P, sold)
    PROVE  Counted(addProduct(entries, at[z]), at, P, sold \union {z})
<1> DEFINE line == at[z]
           after == addProduct(entries, line)
           more == sold \union {z}
           known == {i \in DOMAIN entries : entries[i].name = line.name}
           Q == Quantities(at, P)
           T == Totals(at, P)
<1>1. /\ entries \in Seq(Entry) /\ sold \in SUBSET P /\ line \in Line /\ line.name \in STRING
      /\ line.price \in Int /\ line.quantity \in Int /\ line.price * line.quantity \in Int
      /\ more \in SUBSET P
  <2>1. entries \in Seq(Entry) /\ sold \in SUBSET P
    BY DEF Counted
  <2>2. line \in Line
    OBVIOUS
  <2>. QED  BY <2>1, <2>2 DEF Line
<1>2. DOMAIN entries = 1..Len(entries) /\ Len(entries) \in Nat
  BY <1>1
<1>3. after \in Seq(Entry) /\ (known = {} => after = Append(entries, NewEntry(line)))
  BY <1>1, AddProductFacts
<1>4. known # {} => \E k \in known :
                    /\ Len(after) = Len(entries)
                    /\ \A i \in 1..Len(entries) : i # k => after[i] = entries[i]
                    /\ after[k].name = line.name
                    /\ after[k].quantity = entries[k].quantity + line.quantity
                    /\ after[k].total = entries[k].total + line.price * line.quantity
  BY <1>1, AddProductFacts
<1>5. /\ \A p \in P : Q[p] \in Int /\ T[p] \in Int
      /\ Q[z] = line.quantity /\ T[z] = line.price * line.quantity
  BY DEF Quantities, Totals, Line
<1>6. \A name : /\ name # line.name => Named(at, more, name) = Named(at, sold, name)
                /\ Named(at, sold, name) \in SUBSET P /\ z \in P \ Named(at, sold, name)
  BY <1>1 DEF Named
<1>7. Named(at, more, line.name) = Named(at, sold, line.name) \union {z}
  BY DEF Named
<1>8. \A name : /\ SumFunctionOnSet(Q, Named(at, sold, name) \union {z}) = SumFunctionOnSet(Q, Named(at, sold, name)) + line.quantity
                /\ SumFunctionOnSet(T, Named(at, sold, name) \union {z}) = SumFunctionOnSet(T, Named(at, sold, name)) + line.price * line.quantity
  <2>. SUFFICES ASSUME NEW name
       PROVE /\ SumFunctionOnSet(Q, Named(at, sold, name) \union {z}) = SumFunctionOnSet(Q, Named(at, sold, name)) + line.quantity
             /\ SumFunctionOnSet(T, Named(at, sold, name) \union {z}) = SumFunctionOnSet(T, Named(at, sold, name)) + line.price * line.quantity
    OBVIOUS
  <2>1. Named(at, sold, name) \in SUBSET P /\ z \in P \ Named(at, sold, name)
    BY <1>6
  <2> HIDE DEF Q, T, line
  <2>2. SumFunctionOnSet(Q, Named(at, sold, name) \union {z}) = SumFunctionOnSet(Q, Named(at, sold, name)) + Q[z]
    BY <1>5, <2>1, SumAdd
  <2>3. SumFunctionOnSet(T, Named(at, sold, name) \union {z}) = SumFunctionOnSet(T, Named(at, sold, name)) + T[z]
    BY <1>5, <2>1, SumAdd
  <2>. QED  BY <1>5, <2>2, <2>3
<1>9. {at[p].name : p \in more} = {at[p].name : p \in sold} \union {line.name}
  OBVIOUS
<1>10. /\ {entries[i].name : i \in DOMAIN entries} = {at[p].name : p \in sold}
       /\ \A i, j \in DOMAIN entries : entries[i].name = entries[j].name => i = j
       /\ \A i \in DOMAIN entries :
            /\ entries[i].quantity = SumFunctionOnSet(Q, Named(at, sold, entries[i].name))
            /\ entries[i].total = SumFunctionOnSet(T, Named(at, sold, entries[i].name))
  BY DEF Counted
<1> HIDE DEF Q, T, after
<1>11. CASE known # {}
  <2>1. PICK k \in known :
                    /\ Len(after) = Len(entries)
                    /\ \A i \in 1..Len(entries) : i # k => after[i] = entries[i]
                    /\ after[k].name = line.name
                    /\ after[k].quantity = entries[k].quantity + line.quantity
                    /\ after[k].total = entries[k].total + line.price * line.quantity
    BY <1>4, <1>11
  <2>2. DOMAIN after = DOMAIN entries /\ k \in DOMAIN entries /\ entries[k].name = line.name
    BY <1>2, <1>3, <2>1
  <2>3. \A i \in DOMAIN entries : after[i].name = entries[i].name
    BY <1>2, <2>1, <2>2
  <2>4. {after[i].name : i \in DOMAIN after} = {at[p].name : p \in more}
    <3>1. {after[i].name : i \in DOMAIN after} = {entries[i].name : i \in DOMAIN entries}
      BY <2>2, <2>3
    <3>2. line.name \in {entries[i].name : i \in DOMAIN entries}
      BY <2>2
    <3> HIDE DEF more, line
    <3>. QED  BY <1>9, <1>10, <3>1, <3>2
  <2>5. ASSUME NEW i \in DOMAIN after
        PROVE  /\ after[i].quantity = SumFunctionOnSet(Q, Named(at, more, after[i].name))
               /\ after[i].total = SumFunctionOnSet(T, Named(at, more, after[i].name))
    <3>1. CASE i = k
      <4> HIDE DEF line, more
      <4>. QED  BY <1>7, <1>8, <1>10, <2>1, <2>2, <2>3, <3>1
    <3>2. CASE i # k
      <4>1. after[i] = entries[i] /\ i \in DOMAIN entries
        BY <1>2, <2>1, <2>2, <3>2
      <4>2. entries[i].name # line.name
        BY <1>10, <2>2, <3>2, <4>1
      <4> HIDE DEF line, more
      <4>. QED  BY <1>6, <1>10, <4>1, <4>2
    <3>. QED  BY <3>1, <3>2
  <2>6. \A i, j \in DOMAIN after : after[i].name = after[j].name => i = j
    BY <1>10, <2>2, <2>3
  <2> HIDE DEF more
  <2>7. Counted(after, at, P, more)
    BY <1>1, <1>3, <2>4, <2>5, <2>6 DEF Counted, Q, T
  <2>. QED  BY <2>7 DEF after, more
<1>12. CASE known = {}
  <2>1. after = Append(entries, NewEntry(line))
    BY <1>3, <1>12
  <2>2. PICK n \in Nat : n = Len(entries)
    BY <1>2
  <2>3. /\ DOMAIN after = 1..(n + 1) /\ DOMAIN entries = 1..n
        /\ after[n + 1] = NewEntry(line) /\ \A i \in 1..n : after[i] = entries[i]
    BY <1>1, <1>2, <2>1, <2>2
  <2>4. /\ after[n + 1].name = line.name /\ after[n + 1].quantity = line.quantity
        /\ after[n + 1].total = line.price * line.quantity
    BY <2>3 DEF NewEntry
  <2>5. \A i \in 1..n : entries[i].name # line.name
    BY <1>12, <2>3
  <2>6. Named(at, sold, line.name) = {}
    <3>1. line.name \notin {entries[i].name : i \in DOMAIN entries}
      BY <2>3, <2>5
    <3>2. \A p \in sold : at[p].name # line.name
      BY <1>10, <3>1
    <3> HIDE DEF line
    <3>. QED  BY <3>2 DEF Named
  <2>7. SumFunctionOnSet(Q, {}) = 0 /\ SumFunctionOnSet(T, {}) = 0
    BY <1>5, SumType
  <2>8. {after[i].name : i \in DOMAIN after} = {at[p].name : p \in more}
    <3>1. {after[i].name : i \in DOMAIN after} = {entries[i].name : i \in 1..n} \union {line.name}
      <4>1. DOMAIN after = (1..n) \union {n + 1}
        BY <2>2, <2>3
      <4>2. {after[i].name : i \in DOMAIN after} = {after[i].name : i \in 1..n} \union {after[n + 1].name}
        BY <4>1
      <4>3. {after[i].name : i \in 1..n} = {entries[i].name : i \in 1..n}
        BY <2>3
      <4>. QED  BY <2>4, <4>2, <4>3
    <3> HIDE DEF more, line
    <3>. QED  BY <1>9, <1>10, <2>3, <3>1
  <2>9. ASSUME NEW i \in DOMAIN after
        PROVE  /\ after[i].quantity = SumFunctionOnSet(Q, Named(at, more, after[i].name))
               /\ after[i].total = SumFunctionOnSet(T, Named(at, more, after[i].name))
    <3>1. CASE i = n + 1
      <4>1. /\ SumFunctionOnSet(Q, {} \union {z}) = 0 + line.quantity
            /\ SumFunctionOnSet(T, {} \union {z}) = 0 + line.price * line.quantity
        BY <1>8, <2>6, <2>7
      <4>2. 0 + line.quantity = line.quantity /\ 0 + line.price * line.quantity = line.price * line.quantity
        BY <1>1
      <4> HIDE DEF line, more
      <4>. QED  BY <1>7, <2>4, <2>6, <3>1, <4>1, <4>2
    <3>2. CASE i # n + 1
      <4>1. i \in 1..n
        BY <2>2, <2>3, <3>2
      <4>2. after[i] = entries[i] /\ i \in DOMAIN entries /\ entries[i].name # line.name
        BY <2>3, <2>5, <4>1
      <4> HIDE DEF line, more
      <4>. QED  BY <1>6, <1>10, <4>2
    <3>. QED  BY <3>1, <3>2
  <2>10. \A i, j \in DOMAIN after : after[i].name = after[j].name => i = j
    <3>. SUFFICES ASSUME NEW i \in DOMAIN after, NEW j \in DOMAIN after, after[i].name = after[j].name
                  PROVE  i = j
      OBVIOUS
    <3>1. \A m \in DOMAIN after : m = n + 1 \/ (m \in 1..n /\ after[m] = entries[m])
      BY <2>2, <2>3
    <3> HIDE DEF line
    <3>. QED  BY <1>10, <2>3, <2>4, <2>5, <3>1
  <2> HIDE DEF more
  <2>11. Counted(after, at, P, more)
    BY <1>1, <1>3, <2>8, <2>9, <2>10 DEF Counted, Q, T
  <2>. QED  BY <2>11 DEF after, more
<1>. QED  BY <1>11, <1>12

\* The places of an order's lines.
PlacesIn(orders, i) == {i} \X (DOMAIN orders[i].lines)

LinePlaces(orders) == UNION {PlacesIn(orders, i) : i \in DOMAIN orders}

LinesOf(orders) == [p \in LinePlaces(orders) |-> orders[p[1]].lines[p[2]]]

\* An order as the statistics read it.
SoldOrder == [provider : STRING, status : STRING, lines : Seq(Line)]

\* The places in rows of some lengths.
PlacesInRows(n, lengths) == UNION {{i} \X (1..lengths[i]) : i \in 1..n}

\* The places in finitely many rows are finitely many.
LEMMA RowsAreFinite ==
    ASSUME NEW n \in Nat, NEW lengths \in [1..n -> Nat]
    PROVE  IsFiniteSet(PlacesInRows(n, lengths))
<1> DEFINE First(k) == UNION {{i} \X (1..lengths[i]) : i \in 1..k}
           Good == {k \in 0..n : IsFiniteSet(First(k))}
<1>1. 0 \in Good
  <2>1. First(0) = {} /\ 0 \in 0..n
    OBVIOUS
  <2> HIDE DEF First
  <2>. QED  BY <2>1, FS_EmptySet
<1>2. ASSUME NEW k \in 0..(n - 1), k \in Good PROVE k + 1 \in Good
  <2>1. k \in Nat /\ k + 1 \in 0..n /\ k + 1 \in 1..n
    OBVIOUS
  <2>2. First(k + 1) = First(k) \union ({k + 1} \X (1..lengths[k + 1]))
    <3>1. 1..(k + 1) = (1..k) \union {k + 1}
      BY <2>1
    <3>. QED  BY <3>1
  <2>3. IsFiniteSet({k + 1} \X (1..lengths[k + 1]))
    <3>1. PICK m \in Nat : m = lengths[k + 1]
      BY <2>1
    <3>2. IsFiniteSet(1..m)
      BY FS_Interval
    <3>3. IsFiniteSet({k + 1})
      BY FS_Singleton
    <3>4. IsFiniteSet({k + 1} \X (1..m))
      BY <3>2, <3>3, FS_Product
    <3>. QED  BY <3>1, <3>4
  <2>4. IsFiniteSet(First(k))
    BY <1>2
  <2> HIDE DEF First
  <2>5. IsFiniteSet(First(k) \union ({k + 1} \X (1..lengths[k + 1])))
    BY <2>3, <2>4, FS_Union
  <2>. QED  BY <2>1, <2>2, <2>5
<1>3. n \in Good
  <2>1. n \in 0..n
    OBVIOUS
  <2> HIDE DEF Good
  <2>. QED  BY <1>1, <1>2, <2>1, InductUpTo
<1>. QED  BY <1>3 DEF PlacesInRows

\* The places of the lines are finitely many pairs of numbers, with a line at each.
LEMMA PlacesFacts ==
    ASSUME NEW orders \in Seq(SoldOrder)
    PROVE  /\ Len(orders) \in Nat /\ DOMAIN orders = 1..Len(orders)
           /\ \A i \in DOMAIN orders :
                /\ orders[i] \in SoldOrder /\ orders[i].lines \in Seq(Line)
                /\ PlacesIn(orders, i) = {i} \X (1..Len(orders[i].lines)) /\ Len(orders[i].lines) \in Nat
                /\ PlacesIn(orders, i) \in SUBSET LinePlaces(orders)
           /\ LinesOf(orders) \in [LinePlaces(orders) -> Line]
           /\ \A p \in LinePlaces(orders) : LinesOf(orders)[p] = orders[p[1]].lines[p[2]]
           /\ IsFiniteSet(LinePlaces(orders))
<1>1. Len(orders) \in Nat /\ DOMAIN orders = 1..Len(orders) /\ \A i \in DOMAIN orders : orders[i] \in SoldOrder
  OBVIOUS
<1>2. ASSUME NEW i \in DOMAIN orders
      PROVE  /\ orders[i] \in SoldOrder /\ orders[i].lines \in Seq(Line)
             /\ DOMAIN orders[i].lines = 1..Len(orders[i].lines) /\ Len(orders[i].lines) \in Nat
             /\ \A j \in DOMAIN orders[i].lines : orders[i].lines[j] \in Line
  <2>1. orders[i].lines \in Seq(Line)
    BY <1>1 DEF SoldOrder
  <2>. QED  BY <1>1, <2>1
<1>3. \A i \in DOMAIN orders : PlacesIn(orders, i) = {i} \X (1..Len(orders[i].lines))
  BY <1>2 DEF PlacesIn
<1>4. \A i \in DOMAIN orders : PlacesIn(orders, i) \in SUBSET LinePlaces(orders)
  BY DEF LinePlaces
<1>5. \A p \in LinePlaces(orders) : orders[p[1]].lines[p[2]] \in Line
  <2>. SUFFICES ASSUME NEW i \in DOMAIN orders, NEW p \in PlacesIn(orders, i)
                PROVE  orders[p[1]].lines[p[2]] \in Line
    BY DEF LinePlaces
  <2>1. p[1] = i /\ p[2] \in DOMAIN orders[i].lines
    BY DEF PlacesIn
  <2>. QED  BY <1>2, <2>1
<1>6. IsFiniteSet(LinePlaces(orders))
  <2>1. PICK lengths : lengths = [i \in 1..Len(orders) |-> Len(orders[i].lines)]
    OBVIOUS
  <2>2. /\ \A i \in 1..Len(orders) : lengths[i] = Len(orders[i].lines)
        /\ lengths \in [1..Len(orders) -> Nat]
    BY <1>1, <1>2, <2>1
  <2>3. IsFiniteSet(PlacesInRows(Len(orders), lengths))
    BY <1>1, <2>2, RowsAreFinite
  <2>4. PlacesInRows(Len(orders), lengths) = LinePlaces(orders)
    <3>1. \A i \in 1..Len(orders) : {i} \X (1..lengths[i]) = PlacesIn(orders, i)
      BY <1>1, <1>3, <2>2
    <3>2. {{i} \X (1..lengths[i]) : i \in 1..Len(orders)} = {PlacesIn(orders, i) : i \in 1..Len(orders)}
      BY <3>1
    <3>. QED  BY <1>1, <3>2 DEF PlacesInRows, LinePlaces
  <2>. QED  BY <2>3, <2>4
<1>. QED  BY <1>1, <1>2, <1>3, <1>4, <1>5, <1>6 DEF LinesOf

\* All lines of an order are counted, when none was.
LEMMA AddOrderCounts ==
    ASSUME NEW orders \in Seq(SoldOrder), NEW i \in DOMAIN orders, NEW entries, NEW sold,
           Counted(entries, LinesOf(orders), LinePlaces(orders), sold),
           sold \intersect PlacesIn(orders, i) = {}
    PROVE  Counted(addOrder(entries, orders[i]), LinesOf(orders), LinePlaces(orders), sold \union PlacesIn(orders, i))
<1> DEFINE lines == orders[i].lines
           n == Len(lines)
           Then(k) == sold \union ({i} \X (1..k))
<1>1. lines \in Seq(Line) /\ n \in Nat /\ PlacesIn(orders, i) = {i} \X (1..n)
  BY PlacesFacts
<1>2. /\ LinesOf(orders) \in [LinePlaces(orders) -> Line] /\ IsFiniteSet(LinePlaces(orders))
      /\ PlacesIn(orders, i) \in SUBSET LinePlaces(orders)
      /\ \A p \in PlacesIn(orders, i) : LinesOf(orders)[p] = orders[p[1]].lines[p[2]]
  BY PlacesFacts
<1>3. entries \in Seq(Entry)
  BY DEF Counted
<1>4. PICK F : ProductsAfter(F, entries, lines)
  BY <1>1, <1>3, ProductsFold
<1> DEFINE Good == {k \in 0..n : Counted(F[k], LinesOf(orders), LinePlaces(orders), Then(k))}
<1>5. 0 \in Good
  <2>1. Then(0) = sold
    OBVIOUS
  <2>2. F[0] = entries /\ 0 \in 0..n
    BY <1>1, <1>4 DEF ProductsAfter
  <2> HIDE DEF Then
  <2>. QED  BY <2>1, <2>2
<1>6. ASSUME NEW k \in 0..(n - 1), k \in Good PROVE k + 1 \in Good
  <2> DEFINE z == <<i, k + 1>>
  <2>1. k \in Nat /\ k + 1 \in 0..n /\ k + 1 \in 1..n
    BY <1>1
  <2>2. z \in PlacesIn(orders, i) /\ z \notin Then(k)
    BY <1>1, <2>1
  <2>3. LinesOf(orders)[z] = lines[k + 1]
    BY <1>2, <2>2
  <2>4. Then(k + 1) = Then(k) \union {z}
    <3>1. 1..(k + 1) = (1..k) \union {k + 1}
      BY <2>1
    <3>. QED  BY <3>1
  <2>5. F[k + 1] = addProduct(F[k], lines[k + 1])
    BY <1>4 DEF ProductsAfter
  <2>6. Counted(F[k], LinesOf(orders), LinePlaces(orders), Then(k)) /\ z \in LinePlaces(orders) \ Then(k)
    BY <1>2, <1>6, <2>2
  <2> HIDE DEF Then, z
  <2>7. Counted(addProduct(F[k], LinesOf(orders)[z]), LinesOf(orders), LinePlaces(orders), Then(k) \union {z})
    BY <1>2, <2>6, AddProductCounts
  <2>. QED  BY <2>1, <2>3, <2>4, <2>5, <2>7
<1>7. n \in Good
  <2>1. n \in 0..n
    BY <1>1
  <2> HIDE DEF Good
  <2>. QED  BY <1>1, <1>5, <1>6, <2>1, InductUpTo
<1>8. F[n] = addOrder(entries, orders[i])
  BY <1>4 DEF ProductsAfter, addOrder
<1>. QED  BY <1>1, <1>7, <1>8

\* The entries after each of some orders.
SalesAfter(F, orders) ==
    /\ F[0] = <<>> /\ F[Len(orders)] = analyzeProductData(orders)
    /\ \A k \in 0..(Len(orders) - 1) : F[k + 1] = addOrder(F[k], orders[k + 1])

\* The statistics with one more order are entries again.
LEMMA AddOrderType ==
    ASSUME NEW base \in Seq(Entry), NEW order \in SoldOrder
    PROVE  addOrder(base, order) \in Seq(Entry)
<1> DEFINE lines == order.lines
           n == Len(lines)
<1>1. lines \in Seq(Line)
  BY DEF SoldOrder
<1>2. n \in Nat /\ \A i \in 1..n : lines[i] \in Line
  BY <1>1
<1>3. PICK F : ProductsAfter(F, base, lines)
  BY <1>1, ProductsFold
<1> DEFINE Good == {k \in 0..n : F[k] \in Seq(Entry)}
<1>4. 0 \in Good
  BY <1>2, <1>3 DEF ProductsAfter
<1>5. ASSUME NEW k \in 0..(n - 1), k \in Good PROVE k + 1 \in Good
  <2>1. k + 1 \in 0..n /\ lines[k + 1] \in Line
    BY <1>2
  <2>2. addProduct(F[k], lines[k + 1]) \in Seq(Entry)
    BY <1>5, <2>1, AddProductFacts
  <2>3. F[k + 1] = addProduct(F[k], lines[k + 1])
    BY <1>3 DEF ProductsAfter
  <2>. QED  BY <2>1, <2>2, <2>3
<1>6. n \in Good
  <2>1. n \in 0..n
    BY <1>2
  <2> HIDE DEF Good
  <2>. QED  BY <1>2, <1>4, <1>5, <2>1, InductUpTo
<1>. QED  BY <1>3, <1>6 DEF ProductsAfter, addOrder

\* The statistics are the last of the entries after each of the orders.
LEMMA SalesFold ==
    ASSUME NEW orders \in Seq(SoldOrder)
    PROVE  \E F : SalesAfter(F, orders)
<1> DEFINE n == Len(orders)
           V == Seq(Entry)
           Solves(h) == h = [s \in SUBSET (1..n) |->
                               IF s = {} THEN <<>> ELSE addOrder(h[s \ {Max(s)}], orders[Max(s)])]
<1>1. n \in Nat /\ DOMAIN orders = 1..n /\ \A i \in 1..n : orders[i] \in SoldOrder
  OBVIOUS
<1>2. PICK g : g = [p \in (1..n) \X V |-> addOrder(p[2], orders[p[1]])]
  OBVIOUS
<1>3. \A i \in 1..n : \A v \in V : g[<<i, v>>] = addOrder(v, orders[i]) /\ addOrder(v, orders[i]) \in V
  <2>1. \A i \in 1..n : \A v \in V : addOrder(v, orders[i]) \in V
    BY <1>1, AddOrderType
  <2>. QED  BY <1>2, <2>1
<1>4. PICK f \in [SUBSET (1..n) -> V] : IsLeftFold(f, n, <<>>, g)
  <2>1. StaysIn(g, 1..n, V)
    BY <1>3 DEF StaysIn
  <2>2. <<>> \in V
    OBVIOUS
  <2> HIDE DEF V
  <2>. QED  BY <1>1, <2>1, <2>2, LeftFoldExists
<1>5. \A s \in SUBSET (1..n) : s # {} => Max(s) \in 1..n
  BY <1>1, LastPlace
<1>6. Solves(f)
  <2>1. \A s \in SUBSET (1..n) : f[s] = IF s = {} THEN <<>> ELSE addOrder(f[s \ {Max(s)}], orders[Max(s)])
    BY <1>3, <1>4, <1>5 DEF IsLeftFold
  <2>. QED  BY <2>1
<1>7. PICK h : h = CHOOSE any : Solves(any)
  OBVIOUS
<1>8. Solves(h)
  BY <1>6, <1>7
<1>9. analyzeProductData(orders) = h[1..n]
  BY <1>1, <1>7 DEF analyzeProductData, FoldLeft, MapThenFoldSet
<1> DEFINE F == [k \in 0..n |-> h[1..k]]
<1>10. F[0] = <<>>
  <2>1. h[{}] = <<>> /\ 0 \in 0..n
    BY <1>1, <1>8
  <2>2. 1..0 = {}
    OBVIOUS
  <2>. QED  BY <2>1, <2>2
<1>11. F[n] = analyzeProductData(orders)
  BY <1>1, <1>9
<1>12. ASSUME NEW k \in 0..(n - 1) PROVE F[k + 1] = addOrder(F[k], orders[k + 1])
  <2>1. /\ 1..(k + 1) \in SUBSET (1..n) /\ 1..(k + 1) # {}
        /\ Max(1..(k + 1)) = k + 1 /\ (1..(k + 1)) \ {k + 1} = 1..k
    BY <1>1, LastPlace
  <2>2. h[1..(k + 1)] = addOrder(h[(1..(k + 1)) \ {Max(1..(k + 1))}], orders[Max(1..(k + 1))])
    BY <1>8, <2>1
  <2>3. k \in 0..n /\ k + 1 \in 0..n
    BY <1>1
  <2> HIDE DEF n
  <2>. QED  BY <2>1, <2>2, <2>3
<1>. QED  BY <1>10, <1>11, <1>12 DEF SalesAfter

\* The orders at some places are counted, each once.
LEMMA SalesCounted ==
    ASSUME NEW orders \in Seq(SoldOrder), NEW places \in SUBSET DOMAIN orders
    PROVE  Counted(analyzeProductData(Kept(orders, places)), LinesOf(orders), LinePlaces(orders),
                   UNION {PlacesIn(orders, i) : i \in places})
<1> DEFINE n == Cardinality(places)
           a == Ascending(places)
           kept == Kept(orders, places)
           Then(k) == UNION {PlacesIn(orders, a[j]) : j \in 1..k}
<1>1. /\ n \in Nat /\ kept \in Seq(SoldOrder) /\ Len(kept) = n
      /\ places \in SUBSET Nat /\ IsFiniteSet(places)
      /\ \A k \in 1..n : kept[k] = orders[a[k]]
  BY KeptFacts
<1>2. /\ a \in [1..n -> places] /\ \A i, j \in 1..n : i < j => a[i] < a[j]
      /\ \A i \in places : \E k \in 1..n : a[k] = i
  BY <1>1, AscendingFacts
<1> HIDE DEF n, a, kept
<1>3. PICK F : SalesAfter(F, kept)
  BY <1>1, SalesFold
<1> DEFINE Good == {k \in 0..n : Counted(F[k], LinesOf(orders), LinePlaces(orders), Then(k))}
<1>4. 0 \in Good
  <2>1. Then(0) = {}
    OBVIOUS
  <2>2. F[0] = <<>> /\ 0 \in 0..n
    BY <1>1, <1>3 DEF SalesAfter
  <2>3. Counted(<<>>, LinesOf(orders), LinePlaces(orders), {})
    BY DEF Counted
  <2> HIDE DEF Then
  <2>. QED  BY <2>1, <2>2, <2>3
<1>5. ASSUME NEW k \in 0..(n - 1), k \in Good PROVE k + 1 \in Good
  <2>1. k \in Nat /\ k + 1 \in 0..n /\ k + 1 \in 1..n /\ \A j \in 1..k : j \in 1..n /\ j < k + 1
    BY <1>1
  <2>2. a[k + 1] \in DOMAIN orders /\ kept[k + 1] = orders[a[k + 1]]
    BY <1>1, <1>2, <2>1
  <2>3. Then(k) \intersect PlacesIn(orders, a[k + 1]) = {}
    <3>1. \A j \in 1..k : a[j] \in Nat /\ a[k + 1] \in Nat /\ a[j] < a[k + 1]
      BY <1>1, <1>2, <2>1
    <3>2. \A j \in 1..k : a[j] # a[k + 1]
      BY <3>1
    <3>. QED  BY <3>2 DEF PlacesIn
  <2>4. Then(k + 1) = Then(k) \union PlacesIn(orders, a[k + 1])
    <3>1. 1..(k + 1) = (1..k) \union {k + 1}
      BY <2>1
    <3>. QED  BY <3>1
  <2>5. F[k + 1] = addOrder(F[k], kept[k + 1])
    BY <1>1, <1>3 DEF SalesAfter
  <2>6. Counted(F[k], LinesOf(orders), LinePlaces(orders), Then(k))
    BY <1>5
  <2> HIDE DEF Then
  <2>7. Counted(addOrder(F[k], orders[a[k + 1]]), LinesOf(orders), LinePlaces(orders),
                Then(k) \union PlacesIn(orders, a[k + 1]))
    BY <2>2, <2>3, <2>6, AddOrderCounts
  <2>. QED  BY <2>1, <2>2, <2>4, <2>5, <2>7
<1>6. n \in Good
  <2>1. n \in 0..n
    BY <1>1
  <2> HIDE DEF Good
  <2>. QED  BY <1>1, <1>4, <1>5, <2>1, InductUpTo
<1>7. F[n] = analyzeProductData(kept)
  BY <1>1, <1>3 DEF SalesAfter
<1>8. Then(n) = UNION {PlacesIn(orders, i) : i \in places}
  <2>1. {PlacesIn(orders, a[j]) : j \in 1..n} = {PlacesIn(orders, i) : i \in places}
    BY <1>2
  <2>. QED  BY <2>1
<1>. QED  BY <1>6, <1>7, <1>8 DEF kept

\* The sums of a subset, with the terms written out.
LEMMA CountedSums ==
    ASSUME NEW P, IsFiniteSet(P), NEW at \in [P -> Line], NEW of \in SUBSET P
    PROVE  /\ SumFunctionOnSet([p \in of |-> at[p].quantity], of) = SumFunctionOnSet(Quantities(at, P), of)
           /\ SumFunctionOnSet([p \in of |-> at[p].price * at[p].quantity], of) = SumFunctionOnSet(Totals(at, P), of)
<1> DEFINE q == [p \in of |-> at[p].quantity]
           t == [p \in of |-> at[p].price * at[p].quantity]
           Q == Quantities(at, P)
           T == Totals(at, P)
<1>1. IsFiniteSet(of)
  BY FS_Subset
<1>2. \A p \in of : Q[p] \in Int /\ T[p] \in Int /\ q[p] = Q[p] /\ t[p] = T[p]
  BY DEF Quantities, Totals, Line
<1> HIDE DEF q, t, Q, T
<1>3. SumFunctionOnSet(q, of) = SumFunctionOnSet(Q, of)
  BY <1>1, <1>2, SumSame
<1>4. SumFunctionOnSet(t, of) = SumFunctionOnSet(T, of)
  BY <1>1, <1>2, SumSame
<1>. QED  BY <1>3, <1>4 DEF q, t, Q, T

\* The statistics count all that was sold, whatever it was.
LEMMA SalesAreAllCounted ==
    ASSUME NEW s \in Sales
    PROVE  SalesAreCounted(s)
<1> DEFINE orders == s.orders
           LineAt(p) == s.orders[p[1]].lines[p[2]]
<1>1. orders \in Seq(SoldOrder) /\ s.names \in Seq(STRING)
  BY SalesAssumption DEF SoldOrder
<1>. SUFFICES ASSUME NEW sales \in ToSet(getProductHistory(orders, s.names))
     PROVE  LET sold == UNION {{i} \X (DOMAIN orders[i].lines) : i \in SoldBy(orders, sales.provider)}
                Of(name) == {p \in sold : LineAt(p).name = name}
                products == sales.products
            IN  /\ {products[i].name : i \in DOMAIN products} = {LineAt(p).name : p \in sold}
                /\ \A i, j \in DOMAIN products : products[i].name = products[j].name => i = j
                /\ \A i \in DOMAIN products :
                     LET of == Of(products[i].name)
                     IN  /\ products[i].quantity = SumFunctionOnSet([p \in of |-> LineAt(p).quantity], of)
                         /\ products[i].total =
                              SumFunctionOnSet([p \in of |-> LineAt(p).price * LineAt(p).quantity], of)
  BY DEF SalesAreCounted
<1> DEFINE places == SoldBy(orders, sales.provider)
           sold == UNION {{i} \X (DOMAIN orders[i].lines) : i \in places}
           Of(name) == {p \in sold : LineAt(p).name = name}
           products == sales.products
           at == LinesOf(orders)
           P == LinePlaces(orders)
<1>2. products = analyzeProductData(Kept(orders, places))
  <2> DEFINE names == <<"Munchi">> \o s.names
  <2>1. PICK k \in DOMAIN names :
          sales = [provider |-> names[k], products |-> analyzeProductData(Kept(orders, SoldBy(orders, names[k])))]
    BY DEF getProductHistory, ToSet
  <2>2. sales.provider = names[k]
    BY <2>1
  <2>. QED  BY <2>1, <2>2
<1>3. places \in SUBSET DOMAIN orders
  BY DEF SoldBy
<1>4. /\ at \in [P -> Line] /\ IsFiniteSet(P) /\ \A p \in P : at[p] = LineAt(p)
  BY <1>1, PlacesFacts
<1>5. Counted(products, at, P, sold)
  <2>1. Counted(analyzeProductData(Kept(orders, places)), LinesOf(orders), LinePlaces(orders),
                UNION {PlacesIn(orders, i) : i \in places})
    <3> HIDE DEF orders, places
    <3>. QED  BY <1>1, <1>3, SalesCounted
  <2>2. sold = UNION {PlacesIn(orders, i) : i \in places}
    BY DEF PlacesIn
  <2> HIDE DEF sold, products, places
  <2>. QED  BY <1>2, <2>1, <2>2
<1> HIDE DEF products, places, sold, at, P
<1>6. sold \in SUBSET P
  BY <1>5 DEF Counted
<1>7. \A p \in sold : at[p] = LineAt(p)
  BY <1>4, <1>6
<1> HIDE DEF LineAt
<1>8. {products[i].name : i \in DOMAIN products} = {LineAt(p).name : p \in sold}
  <2>1. {products[i].name : i \in DOMAIN products} = {at[p].name : p \in sold}
    BY <1>5 DEF Counted
  <2>2. {at[p].name : p \in sold} = {LineAt(p).name : p \in sold}
    BY <1>7
  <2>. QED  BY <2>1, <2>2
<1>9. \A i, j \in DOMAIN products : products[i].name = products[j].name => i = j
  BY <1>5 DEF Counted
<1>10. ASSUME NEW i \in DOMAIN products, NEW of, of = Of(products[i].name)
       PROVE  /\ products[i].quantity = SumFunctionOnSet([p \in of |-> LineAt(p).quantity], of)
              /\ products[i].total = SumFunctionOnSet([p \in of |-> LineAt(p).price * LineAt(p).quantity], of)
  <2>1. of = Named(at, sold, products[i].name)
    BY <1>7, <1>10 DEF Named
  <2>2. /\ products[i].quantity = SumFunctionOnSet(Quantities(at, P), of)
        /\ products[i].total = SumFunctionOnSet(Totals(at, P), of)
    BY <1>5, <2>1 DEF Counted
  <2>3. of \in SUBSET P /\ of \in SUBSET sold
    BY <1>6, <1>10
  <2>4. /\ SumFunctionOnSet([p \in of |-> at[p].quantity], of) = SumFunctionOnSet(Quantities(at, P), of)
        /\ SumFunctionOnSet([p \in of |-> at[p].price * at[p].quantity], of) = SumFunctionOnSet(Totals(at, P), of)
    BY <1>4, <2>3, CountedSums
  <2>5. /\ [p \in of |-> at[p].quantity] = [p \in of |-> LineAt(p).quantity]
        /\ [p \in of |-> at[p].price * at[p].quantity] = [p \in of |-> LineAt(p).price * LineAt(p).quantity]
    BY <1>7, <2>3
  <2>. QED  BY <2>2, <2>4, <2>5
<1>. QED  BY <1>8, <1>9, <1>10 DEF products, sold, places, LineAt

\* The statistics count every product of a provider's delivered orders once, with all that was
\* sold of it and all that was paid for it, for all orders (HistoryService.getProductHistory,
\* FinancialAnalyticsService.addProduct).
THEOREM SalesAddUpCorrect ==
    Spec => []SalesAddUp
<1>1. SalesAddUp
  BY SalesAreAllCounted DEF SalesAddUp
<1>. QED  BY <1>1, PTL

(***************************************************************************)
(* The menus that Wolt is sent.                                            *)
(***************************************************************************)

\* The menu that is sent: its full categories, and of each what there is of it.
LEMMA OptionsOffer ==
    ASSUME NEW extras \in Seq(Seq(Option))
    PROVE  \A k \in DOMAIN WoltOptions(extras) : WoltOptions(extras)[k].values # <<>>
<1>1. CASE extras = <<>>
  BY <1>1 DEF WoltOptions
<1>2. CASE extras # <<>>
  <2> DEFINE first == Head(extras)
             places == {i \in DOMAIN first : first[i].suboptions # <<>>}
             offered == Kept(first, places)
  <2>1. first \in Seq(Option)
    BY <1>2
  <2>2. WoltOptions(extras) = [i \in DOMAIN offered |-> WoltOption(offered[i])]
    BY <1>2 DEF WoltOptions
  <2>3. /\ places \in SUBSET DOMAIN first /\ \A i \in places : first[i].suboptions # <<>>
    OBVIOUS
  <2> HIDE DEF first, places, offered
  <2>4. /\ DOMAIN offered = 1..Cardinality(places) /\ places \in SUBSET Nat /\ IsFiniteSet(places)
        /\ \A k \in 1..Cardinality(places) : offered[k] = first[Ascending(places)[k]]
    BY <2>1, <2>3, KeptFacts DEF offered
  <2>5. Ascending(places) \in [1..Cardinality(places) -> places]
    BY <2>4, AscendingFacts
  <2>6. \A k \in DOMAIN offered : offered[k].suboptions # <<>>
    BY <2>3, <2>4, <2>5
  <2>. QED  BY <2>2, <2>6 DEF WoltOption
<1>. QED  BY <1>1, <1>2

\* Wolt is sent the menu, whatever it is.
LEMMA MenusAreSent ==
    ASSUME NEW menu \in MenusSent
    PROVE  SendsTheMenu(menu)
<1> DEFINE V == [id : Nat, products : Seq(Product)]
           places == {c \in DOMAIN menu : menu[c].products # <<>>}
           a == Ascending(places)
           full == Kept(menu, places)
           sent == getMenuCategory(menu)
           Items(c) == {<<sent[c].items[i].external_data, sent[c].items[i].enabled>> : i \in DOMAIN sent[c].items}
           Stands(c) == {<<menu[c].products[i].id, menu[c].products[i].enabled>> : i \in DOMAIN menu[c].products}
<1>1. menu \in Seq(V) /\ \A c \in DOMAIN menu : menu[c] \in V
  <2>1. menu \in Seq(V)
    BY MenusAssumption
  <2> HIDE DEF V
  <2>. QED  BY <2>1
<1>2. /\ places \in SUBSET Nat /\ IsFiniteSet(places) /\ DOMAIN full = 1..Cardinality(places)
      /\ \A k \in 1..Cardinality(places) : full[k] = menu[a[k]]
  <2>1. places \in SUBSET DOMAIN menu
    OBVIOUS
  <2> HIDE DEF V, places
  <2>. QED  BY <1>1, <2>1, KeptFacts
<1>3. /\ a \in [1..Cardinality(places) -> places]
      /\ \A i \in places : \E k \in 1..Cardinality(places) : a[k] = i
  <2> HIDE DEF places
  <2>. QED  BY <1>2, AscendingFacts
<1>4. /\ DOMAIN sent = 1..Cardinality(places)
      /\ \A k \in DOMAIN sent : sent[k] = mapToWoltCategory(menu[a[k]])
  BY <1>2 DEF getMenuCategory
<1> HIDE DEF sent, a
<1>5. ASSUME NEW k \in DOMAIN sent
      PROVE  /\ a[k] \in places /\ sent[k].id = menu[a[k]].id /\ Items(k) = Stands(a[k])
             /\ sent[k].items # <<>>
             /\ \A i \in DOMAIN sent[k].items :
                  \A j \in DOMAIN sent[k].items[i].options : sent[k].items[i].options[j].values # <<>>
  <2> DEFINE products == menu[a[k]].products
  <2>1. a[k] \in places /\ a[k] \in DOMAIN menu /\ products \in Seq(Product) /\ products # <<>>
    BY <1>1, <1>3, <1>4
  <2>2. sent[k].id = menu[a[k]].id /\ DOMAIN sent[k].items = DOMAIN products
    BY <1>4 DEF mapToWoltCategory
  <2>3. \A i \in DOMAIN products :
          /\ sent[k].items[i].external_data = products[i].id
          /\ sent[k].items[i].enabled = products[i].enabled
          /\ sent[k].items[i].options = WoltOptions(products[i].extras)
    BY <1>4 DEF mapToWoltCategory
  <2>4. Items(k) = Stands(a[k])
    BY <2>2, <2>3
  <2>5. sent[k].items # <<>>
    <3>1. DOMAIN products # {}
      <4> HIDE DEF products
      <4>1. Len(products) # 0 /\ Len(products) \in Nat /\ DOMAIN products = 1..Len(products)
        BY <2>1
      <4>. QED  BY <4>1
    <3>2. DOMAIN <<>> = {}
      OBVIOUS
    <3>. QED  BY <2>2, <3>1, <3>2
  <2>6. ASSUME NEW i \in DOMAIN products
        PROVE  \A j \in DOMAIN WoltOptions(products[i].extras) : WoltOptions(products[i].extras)[j].values # <<>>
    <3>1. products[i].extras \in Seq(Seq(Option))
      <4>1. products[i] \in Product
        <5> HIDE DEF products
        <5>. QED  BY <2>1
      <4> HIDE DEF products
      <4>. QED  BY <4>1 DEF Product
    <3>. QED  BY <3>1, OptionsOffer
  <2>7. \A i \in DOMAIN sent[k].items :
          \A j \in DOMAIN sent[k].items[i].options : sent[k].items[i].options[j].values # <<>>
    <3> HIDE DEF products
    <3>. QED  BY <2>2, <2>3, <2>6
  <2>. QED  BY <2>7, <2>1, <2>2, <2>3, <2>4, <2>5, <2>6
<1>6. \A c \in DOMAIN menu : c \notin places => Stands(c) = {}
  OBVIOUS
<1> HIDE DEF Items, Stands
<1>7. UNION {{sent[c].id} \X Items(c) : c \in DOMAIN sent} = UNION {{menu[c].id} \X Stands(c) : c \in DOMAIN menu}
  <2>1. {{sent[c].id} \X Items(c) : c \in DOMAIN sent} = {{menu[c].id} \X Stands(c) : c \in places}
    <3>1. \A k \in DOMAIN sent : {sent[k].id} \X Items(k) = {menu[a[k]].id} \X Stands(a[k]) /\ a[k] \in places
      BY <1>5
    <3>2. \A c \in places : \E k \in DOMAIN sent : a[k] = c
      BY <1>3, <1>4
    <3>. QED  BY <3>1, <3>2
  <2>2. UNION {{menu[c].id} \X Stands(c) : c \in places} = UNION {{menu[c].id} \X Stands(c) : c \in DOMAIN menu}
    BY <1>6
  <2>. QED  BY <2>1, <2>2
<1>. QED  BY <1>5, <1>7 DEF SendsTheMenu, sent, Items, Stands

\* Wolt is sent every product of every category with its state, and neither a category nor an
\* option with nothing in it, for all menus (OrderingMenuMapperService.mapToWoltCategory,
\* MenuService.getMenuCategory).
THEOREM WoltIsSentTheMenuCorrect ==
    Spec => []WoltIsSentTheMenu
<1>1. WoltIsSentTheMenu
  BY MenusAreSent DEF WoltIsSentTheMenu
<1>. QED  BY <1>1, PTL

(***************************************************************************)
(* The menus that a device is shown.                                       *)
(***************************************************************************)

\* The places of listings, menu by menu and in a menu as listed.
ByMenu(S) == {p \in S \X S : Earlier(p[1], p[2])}

\* z is listed after the others.
AllEarlier(S, z) == \A p \in S : Earlier(p, z)

\* Places menu by menu are in a strict total order.
LEMMA ByMenuIsOrder ==
    ASSUME NEW S \in SUBSET (Nat \X Nat)
    PROVE  IsOrder(S, ByMenu(S)) /\ MenuByMenu(S) = InOrder(S, ByMenu(S))
<1>1. \A p \in S : p[1] \in Int /\ p[2] \in Int /\ p = <<p[1], p[2]>>
  OBVIOUS
<1>2. \A p, q \in S : <<p, q>> \in ByMenu(S) <=> Earlier(p, q)
  BY DEF ByMenu
<1>3. \A p \in S : ~ Earlier(p, p)
  BY <1>1 DEF Earlier
<1>4. ASSUME NEW p \in S, NEW q \in S, p # q PROVE Earlier(p, q) \/ Earlier(q, p)
  <2>1. p[1] # q[1] \/ p[2] # q[2]
    BY <1>1, <1>4
  <2>2. p[1] \in Int /\ p[2] \in Int /\ q[1] \in Int /\ q[2] \in Int
    BY <1>1
  <2>. QED  BY <2>1, <2>2 DEF Earlier
<1>5. ASSUME NEW p \in S, NEW q \in S, NEW r \in S, Earlier(p, q), Earlier(q, r) PROVE Earlier(p, r)
  <2>1. p[1] \in Int /\ p[2] \in Int /\ q[1] \in Int /\ q[2] \in Int /\ r[1] \in Int /\ r[2] \in Int
    BY <1>1
  <2>. QED  BY <1>5, <2>1 DEF Earlier
<1>6. IsOrder(S, ByMenu(S))
  BY <1>2, <1>3, <1>4, <1>5 DEF IsOrder
<1>. QED  BY <1>6 DEF MenuByMenu, ByMenu

\* The menus at some places, in their order.
MenuIdsAt(menus, S) == [k \in 1..Cardinality(S) |-> menus[MenuByMenu(S)[k][1]].id]

\* A place after the others adds the menu it is on, as the last one.
LEMMA MenuIdsFacts ==
    ASSUME NEW menus, NEW S \in SUBSET (Nat \X Nat), IsFiniteSet(S), NEW z \in Nat \X Nat, AllEarlier(S, z),
           menus[z[1]].id \in Nat, MenuIdsAt(menus, S) \in Seq(Nat)
    PROVE  MenuIdsAt(menus, S \union {z}) = Append(MenuIdsAt(menus, S), menus[z[1]].id)
<1> DEFINE n == Cardinality(S)
           T == S \union {z}
           before == MenuIdsAt(menus, S)
           id == menus[z[1]].id
<1>1. z \notin S /\ T \in SUBSET (Nat \X Nat)
  <2>1. z \notin S
    BY DEF AllEarlier, Earlier
  <2>. QED  BY <2>1
<1>2. AgreeOn(S, ByMenu(S), ByMenu(T)) /\ IsLast(z, S, ByMenu(T))
  <2>1. AgreeOn(S, ByMenu(S), ByMenu(T))
    BY DEF AgreeOn, ByMenu
  <2>2. IsLast(z, S, ByMenu(T))
    BY DEF IsLast, ByMenu, AllEarlier
  <2>. QED  BY <2>1, <2>2
<1>3. IsOrder(S, ByMenu(S)) /\ MenuByMenu(S) = InOrder(S, ByMenu(S))
  BY ByMenuIsOrder
<1>4. IsOrder(T, ByMenu(T)) /\ MenuByMenu(T) = InOrder(T, ByMenu(T))
  BY <1>1, ByMenuIsOrder
<1>5. /\ n \in Nat /\ Cardinality(T) = n + 1
      /\ MenuByMenu(T)[n + 1] = z /\ \A k \in 1..n : MenuByMenu(T)[k] = MenuByMenu(S)[k]
  <2> DEFINE R == ByMenu(S)
             Q == ByMenu(S \union {z})
  <2>1. /\ z \notin S /\ IsOrder(S, R) /\ IsOrder(S \union {z}, Q)
        /\ AgreeOn(S, R, Q) /\ IsLast(z, S, Q)
    BY <1>1, <1>2, <1>3, <1>4
  <2>2. MenuByMenu(S) = InOrder(S, R) /\ MenuByMenu(T) = InOrder(S \union {z}, Q)
    BY <1>3, <1>4
  <2> HIDE DEF R, Q
  <2>3. PutLast(z, S, R, Q)
    BY <2>1, InOrderExtends
  <2>. QED  BY <2>2, <2>3 DEF PutLast
<1>6. MenuIdsAt(menus, T) = [k \in 1..(n + 1) |-> IF k = n + 1 THEN id ELSE before[k]]
  <2>1. DOMAIN before = 1..n /\ \A k \in 1..n : before[k] = menus[MenuByMenu(S)[k][1]].id
    BY DEF MenuIdsAt
  <2>2. ASSUME NEW k \in 1..(n + 1)
        PROVE  menus[MenuByMenu(T)[k][1]].id = IF k = n + 1 THEN id ELSE before[k]
    <3>1. k = n + 1 \/ k \in 1..n
      BY <1>5
    <3>2. k \in 1..n => k # n + 1
      BY <1>5
    <3> HIDE DEF before
    <3>. QED  BY <1>5, <2>1, <3>1, <3>2
  <2> HIDE DEF before, id
  <2>. QED  BY <1>5, <2>2 DEF MenuIdsAt
<1>7. before \in Seq(Nat) /\ Len(before) = n
  <2>1. DOMAIN before = 1..n
    BY DEF MenuIdsAt
  <2> HIDE DEF before, n
  <2>. QED  BY <1>5, <2>1 DEF before
<1>8. Append(before, id) = [k \in 1..(n + 1) |-> IF k = n + 1 THEN id ELSE before[k]]
  <2> DEFINE t == Append(before, id)
  <2>1. id \in Nat
    OBVIOUS
  <2> HIDE DEF before, id, n
  <2>2. /\ n \in Nat /\ t \in Seq(Nat) /\ Len(t) = n + 1 /\ DOMAIN t = 1..(n + 1)
        /\ \A k \in 1..(n + 1) : t[k] = IF k = n + 1 THEN id ELSE before[k]
    BY <1>5, <1>7, <2>1
  <2> HIDE DEF t
  <2>3. t = [k \in 1..(n + 1) |-> t[k]]
    BY <2>2
  <2>4. t = [k \in 1..(n + 1) |-> IF k = n + 1 THEN id ELSE before[k]]
    BY <2>2, <2>3
  <2>. QED  BY <2>4 DEF t
<1>. QED  BY <1>6, <1>8

\* A product as it is shown.
ShownProduct == [id : Nat, menuIds : Seq(Nat)]

\* A product is one more of its category, or on one more menu.
LEMMA AddListingFacts ==
    ASSUME NEW entries \in Seq(ShownProduct), NEW menu \in Nat, NEW listing \in Listing
    PROVE  LET known == {i \in DOMAIN entries : entries[i].id = listing.id}
               after == AddListing(entries, menu, listing)
           IN  /\ after \in Seq(ShownProduct)
               /\ known = {} => after = Append(entries, [id |-> listing.id, menuIds |-> <<menu>>])
               /\ known # {} => \E k \in known :
                    /\ Len(after) = Len(entries)
                    /\ \A i \in 1..Len(entries) : i # k => after[i] = entries[i]
                    /\ after[k].id = listing.id
                    /\ after[k].menuIds = Append(entries[k].menuIds, menu)
<1> DEFINE known == {i \in DOMAIN entries : entries[i].id = listing.id}
           after == AddListing(entries, menu, listing)
<1>1. listing.id \in Nat /\ <<menu>> \in Seq(Nat)
  BY DEF Listing
<1>2. DOMAIN entries = 1..Len(entries) /\ Len(entries) \in Nat /\ \A i \in 1..Len(entries) : entries[i] \in ShownProduct
  OBVIOUS
<1>3. CASE known = {}
  <2>1. after = Append(entries, [id |-> listing.id, menuIds |-> <<menu>>])
    BY <1>3 DEF AddListing
  <2>2. [id |-> listing.id, menuIds |-> <<menu>>] \in ShownProduct
    BY <1>1 DEF ShownProduct
  <2>. QED  BY <1>3, <2>1, <2>2
<1>4. CASE known # {}
  <2> DEFINE k == Min(known)
  <2>1. k \in known
    <3>1. known \in SUBSET Nat
      BY <1>2
    <3> HIDE DEF known
    <3>. QED  BY <1>4, <3>1, MinFacts
  <2>2. after = [entries EXCEPT ![k].menuIds = Append(@, menu)]
    BY <1>4 DEF AddListing
  <2> HIDE DEF k, after
  <2>3. k \in 1..Len(entries) /\ entries[k].id = listing.id /\ entries[k] \in ShownProduct
    BY <1>2, <2>1
  <2>4. PICK ids : ids = Append(entries[k].menuIds, menu)
    OBVIOUS
  <2>5. ids \in Seq(Nat)
    BY <2>3, <2>4 DEF ShownProduct
  <2>6. PICK e : e = [entries[k] EXCEPT !.menuIds = ids]
    OBVIOUS
  <2>7. e \in ShownProduct /\ e.id = listing.id /\ e.menuIds = ids
    BY <2>3, <2>5, <2>6 DEF ShownProduct
  <2>8. after = [entries EXCEPT ![k] = e]
    BY <2>2, <2>3, <2>4, <2>6
  <2>9. after \in Seq(ShownProduct) /\ Len(after) = Len(entries) /\ after[k] = e
        /\ \A i \in 1..Len(entries) : i # k => after[i] = entries[i]
    BY <1>2, <2>3, <2>7, <2>8
  <2>. QED  BY <1>4, <2>1, <2>3, <2>4, <2>7, <2>9 DEF after
<1>. QED  BY <1>3, <1>4

\* The listing at a place, those of a category, and those of a product in it.
ListingAt(menus, p) == menus[p[1]].products[p[2]]

InCategory(menus, places, c) == {p \in places : ListingAt(menus, p).category = c}

SameIn(menus, places, c, id) == {p \in InCategory(menus, places, c) : ListingAt(menus, p).id = id}

\* The products shown in a category are those listed at some places.
ShowsIn(shown, c, menus, places) ==
    /\ shown \in Seq(ShownProduct)
    /\ {shown[i].id : i \in DOMAIN shown} = {ListingAt(menus, p).id : p \in InCategory(menus, places, c)}
    /\ \A i, j \in DOMAIN shown : shown[i].id = shown[j].id => i = j
    /\ \A i \in DOMAIN shown : shown[i].menuIds = MenuIdsAt(menus, SameIn(menus, places, c, shown[i].id))

\* The places of the listings are finitely many pairs of numbers, with a listing at each.
LEMMA MenuPlaces ==
    ASSUME NEW menus \in Seq(Menu)
    PROVE  /\ Len(menus) \in Nat /\ DOMAIN menus = 1..Len(menus)
           /\ \A i \in DOMAIN menus :
                /\ menus[i] \in Menu /\ menus[i].id \in Nat /\ menus[i].products \in Seq(Listing)
                /\ DOMAIN menus[i].products = 1..Len(menus[i].products) /\ Len(menus[i].products) \in Nat
                /\ \A j \in DOMAIN menus[i].products : menus[i].products[j] \in Listing /\ <<i, j>> \in Places(menus)
           /\ \A p \in Places(menus) : /\ p \in Nat \X Nat /\ p[1] \in DOMAIN menus
                                       /\ p[2] \in DOMAIN menus[p[1]].products /\ p = <<p[1], p[2]>>
                                       /\ ListingAt(menus, p) \in Listing /\ menus[p[1]].id \in Nat
           /\ IsFiniteSet(Places(menus))
<1>1. Len(menus) \in Nat /\ DOMAIN menus = 1..Len(menus) /\ \A i \in DOMAIN menus : menus[i] \in Menu
  OBVIOUS
<1>2. ASSUME NEW i \in DOMAIN menus
      PROVE  /\ menus[i] \in Menu /\ menus[i].id \in Nat /\ menus[i].products \in Seq(Listing)
             /\ DOMAIN menus[i].products = 1..Len(menus[i].products) /\ Len(menus[i].products) \in Nat
             /\ \A j \in DOMAIN menus[i].products : menus[i].products[j] \in Listing
  <2>1. menus[i].products \in Seq(Listing) /\ menus[i].id \in Nat
    BY <1>1 DEF Menu
  <2>. QED  BY <1>1, <2>1
<1>3. \A i \in DOMAIN menus : \A j \in DOMAIN menus[i].products : <<i, j>> \in Places(menus)
  BY DEF Places
<1>4. \A p \in Places(menus) : /\ p[1] \in DOMAIN menus /\ p[2] \in DOMAIN menus[p[1]].products
                               /\ p = <<p[1], p[2]>>
  BY DEF Places
<1>5. ASSUME NEW p \in Places(menus)
      PROVE  p \in Nat \X Nat /\ ListingAt(menus, p) \in Listing /\ menus[p[1]].id \in Nat
  <2>1. p[1] \in DOMAIN menus /\ p[2] \in DOMAIN menus[p[1]].products /\ p = <<p[1], p[2]>>
    BY <1>4
  <2>2. p[1] \in Nat /\ p[2] \in Nat
    BY <1>1, <1>2, <2>1
  <2>. QED  BY <1>2, <2>1, <2>2 DEF ListingAt
<1>6. IsFiniteSet(Places(menus))
  <2>1. PICK lengths : lengths = [i \in 1..Len(menus) |-> Len(menus[i].products)]
    OBVIOUS
  <2>2. /\ \A i \in 1..Len(menus) : lengths[i] = Len(menus[i].products)
        /\ lengths \in [1..Len(menus) -> Nat]
    BY <1>1, <1>2, <2>1
  <2>3. IsFiniteSet(PlacesInRows(Len(menus), lengths))
    BY <1>1, <2>2, RowsAreFinite
  <2>4. PlacesInRows(Len(menus), lengths) = Places(menus)
    <3>1. \A i \in 1..Len(menus) : {i} \X (1..lengths[i]) = {i} \X (DOMAIN menus[i].products)
      BY <1>1, <1>2, <2>2
    <3>2. {{i} \X (1..lengths[i]) : i \in 1..Len(menus)} = {{i} \X (DOMAIN menus[i].products) : i \in 1..Len(menus)}
      BY <3>1
    <3>. QED  BY <1>1, <3>2 DEF PlacesInRows, Places
  <2>. QED  BY <2>3, <2>4
<1>. QED  BY <1>1, <1>2, <1>3, <1>4, <1>5, <1>6

\* A listing of another category changes nothing.
LEMMA OtherCategories ==
    ASSUME NEW menus, NEW places, NEW z, NEW c, ListingAt(menus, z).category # c,
           NEW shown, ShowsIn(shown, c, menus, places)
    PROVE  ShowsIn(shown, c, menus, places \union {z})
<1>1. InCategory(menus, places \union {z}, c) = InCategory(menus, places, c)
  BY DEF InCategory
<1>2. \A id : SameIn(menus, places \union {z}, c, id) = SameIn(menus, places, c, id)
  BY <1>1 DEF SameIn
<1>. QED  BY <1>1, <1>2 DEF ShowsIn

\* The menus a product is on, when it is listed once more.
LEMMA MenuIdsGrow ==
    ASSUME NEW menus \in Seq(Menu), NEW places \in SUBSET Places(menus), NEW z \in Places(menus),
           AllEarlier(places, z), NEW c, NEW id,
           MenuIdsAt(menus, SameIn(menus, places, c, id)) \in Seq(Nat)
    PROVE  MenuIdsAt(menus, SameIn(menus, places, c, id) \union {z}) =
             Append(MenuIdsAt(menus, SameIn(menus, places, c, id)), menus[z[1]].id)
<1> DEFINE S == SameIn(menus, places, c, id)
<1>1. S \in SUBSET places
  BY DEF SameIn, InCategory
<1>2. /\ \A p \in Places(menus) : p \in Nat \X Nat /\ menus[p[1]].id \in Nat
      /\ IsFiniteSet(Places(menus))
  BY MenuPlaces
<1>3. S \in SUBSET (Nat \X Nat) /\ IsFiniteSet(S) /\ AllEarlier(S, z)
  <2>1. S \in SUBSET (Nat \X Nat)
    BY <1>1, <1>2
  <2>2. IsFiniteSet(S)
    BY <1>1, <1>2, FS_Subset
  <2>3. AllEarlier(S, z)
    BY <1>1 DEF AllEarlier
  <2>. QED  BY <2>1, <2>2, <2>3
<1>4. z \in Nat \X Nat /\ menus[z[1]].id \in Nat
  BY <1>2
<1> HIDE DEF S
<1>5. MenuIdsAt(menus, S) \in Seq(Nat)
  BY DEF S
<1>6. MenuIdsAt(menus, S \union {z}) = Append(MenuIdsAt(menus, S), menus[z[1]].id)
  BY <1>3, <1>4, <1>5, MenuIdsFacts
<1>. QED  BY <1>6 DEF S

\* One more listing is shown, and what was shown stays.
LEMMA AddListingShows ==
    ASSUME NEW menus \in Seq(Menu), NEW places \in SUBSET Places(menus), NEW z \in Places(menus),
           AllEarlier(places, z), NEW c, ListingAt(menus, z).category = c,
           NEW shown, ShowsIn(shown, c, menus, places)
    PROVE  ShowsIn(AddListing(shown, menus[z[1]].id, ListingAt(menus, z)), c, menus, places \union {z})
<1> DEFINE menu == menus[z[1]].id
           listing == ListingAt(menus, z)
           after == AddListing(shown, menu, listing)
           more == places \union {z}
           known == {i \in DOMAIN shown : shown[i].id = listing.id}
           Ids(id) == MenuIdsAt(menus, SameIn(menus, places, c, id))
           IdsThen(id) == MenuIdsAt(menus, SameIn(menus, more, c, id))
<1>1. shown \in Seq(ShownProduct) /\ menu \in Nat /\ listing \in Listing /\ listing.id \in Nat
  <2>1. menu \in Nat /\ listing \in Listing
    BY MenuPlaces
  <2>. QED  BY <2>1 DEF Listing, ShowsIn
<1>2. DOMAIN shown = 1..Len(shown) /\ Len(shown) \in Nat /\ \A i \in DOMAIN shown : shown[i].menuIds \in Seq(Nat)
  <2>1. \A i \in DOMAIN shown : shown[i] \in ShownProduct
    BY <1>1
  <2>. QED  BY <1>1, <2>1 DEF ShownProduct
<1>3. after \in Seq(ShownProduct) /\ (known = {} => after = Append(shown, [id |-> listing.id, menuIds |-> <<menu>>]))
  <2> HIDE DEF menu, listing
  <2>1. after \in Seq(ShownProduct)
    BY <1>1, AddListingFacts
  <2>2. known = {} => after = Append(shown, [id |-> listing.id, menuIds |-> <<menu>>])
    BY <1>1, AddListingFacts
  <2>. QED  BY <2>1, <2>2
<1>4. known # {} => \E k \in known :
                    /\ Len(after) = Len(shown)
                    /\ \A i \in 1..Len(shown) : i # k => after[i] = shown[i]
                    /\ after[k].id = listing.id
                    /\ after[k].menuIds = Append(shown[k].menuIds, menu)
  BY <1>1, AddListingFacts
<1>5. InCategory(menus, more, c) = InCategory(menus, places, c) \union {z}
  BY DEF InCategory
<1>6. {ListingAt(menus, p).id : p \in InCategory(menus, more, c)}
        = {ListingAt(menus, p).id : p \in InCategory(menus, places, c)} \union {listing.id}
  BY <1>5
<1>7. \A id : id # listing.id => IdsThen(id) = Ids(id)
  <2>1. \A id : id # listing.id => SameIn(menus, more, c, id) = SameIn(menus, places, c, id)
    BY <1>5 DEF SameIn
  <2>. QED  BY <2>1
<1>8. Ids(listing.id) \in Seq(Nat) => IdsThen(listing.id) = Append(Ids(listing.id), menu)
  <2>1. SameIn(menus, more, c, listing.id) = SameIn(menus, places, c, listing.id) \union {z}
    BY <1>5 DEF SameIn
  <2>. SUFFICES ASSUME Ids(listing.id) \in Seq(Nat) PROVE IdsThen(listing.id) = Append(Ids(listing.id), menu)
    OBVIOUS
  <2>2. PICK id : id = listing.id
    OBVIOUS
  <2>3. MenuIdsAt(menus, SameIn(menus, places, c, id)) \in Seq(Nat)
    BY <2>2
  <2>4. MenuIdsAt(menus, SameIn(menus, places, c, id) \union {z}) =
             Append(MenuIdsAt(menus, SameIn(menus, places, c, id)), menus[z[1]].id)
    BY <2>3, MenuIdsGrow
  <2>. QED  BY <2>1, <2>2, <2>4
<1>9. /\ {shown[i].id : i \in DOMAIN shown} = {ListingAt(menus, p).id : p \in InCategory(menus, places, c)}
      /\ \A i, j \in DOMAIN shown : shown[i].id = shown[j].id => i = j
      /\ \A i \in DOMAIN shown : shown[i].menuIds = Ids(shown[i].id)
  BY DEF ShowsIn
<1> HIDE DEF after, listing, menu, more, Ids, IdsThen
<1>10. CASE known # {}
  <2>1. PICK k \in known :
                    /\ Len(after) = Len(shown)
                    /\ \A i \in 1..Len(shown) : i # k => after[i] = shown[i]
                    /\ after[k].id = listing.id
                    /\ after[k].menuIds = Append(shown[k].menuIds, menu)
    BY <1>4, <1>10
  <2>2. DOMAIN after = DOMAIN shown /\ k \in DOMAIN shown /\ shown[k].id = listing.id
    BY <1>2, <1>3, <2>1
  <2>3. \A i \in DOMAIN shown : after[i].id = shown[i].id
    BY <1>2, <2>1, <2>2
  <2>4. {after[i].id : i \in DOMAIN after} = {ListingAt(menus, p).id : p \in InCategory(menus, more, c)}
    <3>1. {after[i].id : i \in DOMAIN after} = {shown[i].id : i \in DOMAIN shown}
      BY <2>2, <2>3
    <3>2. listing.id \in {shown[i].id : i \in DOMAIN shown}
      BY <2>2
    <3>. QED  BY <1>6, <1>9, <3>1, <3>2
  <2>5. ASSUME NEW i \in DOMAIN after PROVE after[i].menuIds = IdsThen(after[i].id)
    <3>1. CASE i = k
      <4>1. shown[k].menuIds \in Seq(Nat) /\ shown[k].menuIds = Ids(listing.id)
        BY <1>2, <1>9, <2>2
      <4>. QED  BY <1>8, <2>1, <3>1, <4>1
    <3>2. CASE i # k
      <4>1. after[i] = shown[i] /\ i \in DOMAIN shown
        BY <1>2, <2>1, <2>2, <3>2
      <4>2. shown[i].id # listing.id
        BY <1>9, <2>2, <3>2, <4>1
      <4>. QED  BY <1>7, <1>9, <4>1, <4>2
    <3>. QED  BY <3>1, <3>2
  <2>6. \A i, j \in DOMAIN after : after[i].id = after[j].id => i = j
    BY <1>9, <2>2, <2>3
  <2>7. ShowsIn(after, c, menus, more)
    BY <1>3, <2>4, <2>5, <2>6 DEF ShowsIn, IdsThen
  <2>. QED  BY <2>7 DEF after, listing, menu, more
<1>11. CASE known = {}
  <2>1. after = Append(shown, [id |-> listing.id, menuIds |-> <<menu>>])
    BY <1>3, <1>11
  <2>2. PICK n \in Nat : n = Len(shown)
    BY <1>2
  <2>3. /\ DOMAIN after = 1..(n + 1) /\ DOMAIN shown = 1..n
        /\ after[n + 1] = [id |-> listing.id, menuIds |-> <<menu>>] /\ \A i \in 1..n : after[i] = shown[i]
    BY <1>1, <1>2, <2>1, <2>2
  <2>4. after[n + 1].id = listing.id /\ after[n + 1].menuIds = <<menu>>
    BY <2>3
  <2>5. \A i \in 1..n : shown[i].id # listing.id
    BY <1>11, <2>3
  <2>6. Ids(listing.id) = <<>>
    <3>1. SameIn(menus, places, c, listing.id) = {}
      <4>1. listing.id \notin {shown[i].id : i \in DOMAIN shown}
        BY <2>3, <2>5
      <4>2. \A p \in InCategory(menus, places, c) : ListingAt(menus, p).id # listing.id
        BY <1>9, <4>1
      <4>. QED  BY <4>2 DEF SameIn
    <3>2. Cardinality({}) = 0
      BY FS_EmptySet
    <3>3. MenuIdsAt(menus, {}) = <<>>
      <4>1. 1..0 = {}
        OBVIOUS
      <4>. QED  BY <3>2, <4>1 DEF MenuIdsAt
    <3>. QED  BY <3>1, <3>3 DEF Ids
  <2>7. IdsThen(listing.id) = <<menu>>
    <3>1. Ids(listing.id) \in Seq(Nat) /\ Append(<<>>, menu) = <<menu>>
      BY <2>6
    <3>. QED  BY <1>8, <2>6, <3>1
  <2>8. {after[i].id : i \in DOMAIN after} = {ListingAt(menus, p).id : p \in InCategory(menus, more, c)}
    <3>1. DOMAIN after = (1..n) \union {n + 1}
      BY <2>2, <2>3
    <3>2. {after[i].id : i \in DOMAIN after} = {after[i].id : i \in 1..n} \union {after[n + 1].id}
      BY <3>1
    <3>3. {after[i].id : i \in 1..n} = {shown[i].id : i \in 1..n}
      BY <2>3
    <3>. QED  BY <1>6, <1>9, <2>3, <2>4, <3>2, <3>3
  <2>9. ASSUME NEW i \in DOMAIN after PROVE after[i].menuIds = IdsThen(after[i].id)
    <3>1. CASE i = n + 1
      BY <2>4, <2>7, <3>1
    <3>2. CASE i # n + 1
      <4>1. i \in 1..n
        BY <2>2, <2>3, <3>2
      <4>2. after[i] = shown[i] /\ i \in DOMAIN shown /\ shown[i].id # listing.id
        BY <2>3, <2>5, <4>1
      <4>. QED  BY <1>7, <1>9, <4>2
    <3>. QED  BY <3>1, <3>2
  <2>10. \A i, j \in DOMAIN after : after[i].id = after[j].id => i = j
    <3>. SUFFICES ASSUME NEW i \in DOMAIN after, NEW j \in DOMAIN after, after[i].id = after[j].id
                  PROVE  i = j
      OBVIOUS
    <3>1. \A m \in DOMAIN after : m = n + 1 \/ (m \in 1..n /\ after[m] = shown[m])
      BY <2>2, <2>3
    <3>. QED  BY <1>9, <2>3, <2>4, <2>5, <3>1
  <2>11. ShowsIn(after, c, menus, more)
    BY <1>3, <2>8, <2>9, <2>10 DEF ShowsIn, IdsThen
  <2>. QED  BY <2>11 DEF after, listing, menu, more
<1>. QED  BY <1>10, <1>11

\* Every category shows what is listed of it at some places.
Shows(by, D, menus, places) ==
    by \in [D -> Seq(ShownProduct)] /\ \A c \in D : ShowsIn(by[c], c, menus, places)

\* The products with one more listing are products by category again.
LEMMA AddToCategoryType ==
    ASSUME NEW D, NEW by \in [D -> Seq(ShownProduct)], NEW menu \in Nat, NEW listing \in Listing, listing.category \in D
    PROVE  AddToCategory(by, menu, listing) \in [D -> Seq(ShownProduct)]
<1>1. AddListing(by[listing.category], menu, listing) \in Seq(ShownProduct)
  BY AddListingFacts
<1>. QED  BY <1>1 DEF AddToCategory

\* One more listing is shown in its category.
LEMMA AddToCategoryShows ==
    ASSUME NEW D, NEW menus \in Seq(Menu), NEW places \in SUBSET Places(menus), NEW z \in Places(menus),
           AllEarlier(places, z), ListingAt(menus, z).category \in D,
           NEW by, Shows(by, D, menus, places)
    PROVE  Shows(AddToCategory(by, menus[z[1]].id, ListingAt(menus, z)), D, menus, places \union {z})
<1> DEFINE menu == menus[z[1]].id
           listing == ListingAt(menus, z)
           d == listing.category
           after == AddToCategory(by, menu, listing)
<1>1. menu \in Nat /\ listing \in Listing /\ by \in [D -> Seq(ShownProduct)] /\ \A c \in D : ShowsIn(by[c], c, menus, places)
  BY MenuPlaces DEF Shows
<1>2. after \in [D -> Seq(ShownProduct)]
  <2> HIDE DEF menu, listing
  <2>1. listing.category \in D
    BY DEF listing
  <2>. QED  BY <1>1, <2>1, AddToCategoryType
<1>3. after[d] = AddListing(by[d], menu, listing) /\ \A c \in D : c # d => after[c] = by[c]
  BY <1>1 DEF AddToCategory
<1>4. ASSUME NEW c \in D PROVE ShowsIn(after[c], c, menus, places \union {z})
  <2>1. CASE c = d
    <3>1. ShowsIn(AddListing(by[c], menus[z[1]].id, ListingAt(menus, z)), c, menus, places \union {z})
      BY <1>1, <2>1, AddListingShows
    <3> HIDE DEF after
    <3>. QED  BY <1>3, <2>1, <3>1
  <2>2. CASE c # d
    <3>1. ShowsIn(by[c], c, menus, places \union {z})
      BY <1>1, <2>2, OtherCategories
    <3> HIDE DEF after, d
    <3>. QED  BY <1>3, <2>2, <3>1
  <2>. QED  BY <2>1, <2>2
<1> HIDE DEF after
<1>5. Shows(after, D, menus, places \union {z})
  BY <1>2, <1>4 DEF Shows
<1>. QED  BY <1>5 DEF after

\* The products after each listing of a menu.
ListingsAfter(F, base, menu) ==
    /\ F[0] = base /\ F[Len(menu.products)] = AddMenu(base, menu)
    /\ \A k \in 0..(Len(menu.products) - 1) : F[k + 1] = AddToCategory(F[k], menu.id, menu.products[k + 1])

\* A menu lists products of some categories.
ListedIn(menu, D) == \A j \in DOMAIN menu.products : menu.products[j].category \in D

\* What AddMenu computes is the last of the products after each listing of the menu.
LEMMA ListingsFold ==
    ASSUME NEW D, NEW base \in [D -> Seq(ShownProduct)], NEW menu \in Menu, ListedIn(menu, D)
    PROVE  \E F : ListingsAfter(F, base, menu)
<1> DEFINE lines == menu.products
           n == Len(lines)
           V == [D -> Seq(ShownProduct)]
           Solves(h) == h = [s \in SUBSET (1..n) |->
                               IF s = {} THEN base ELSE AddToCategory(h[s \ {Max(s)}], menu.id, lines[Max(s)])]
<1>1. /\ n \in Nat /\ DOMAIN lines = 1..n /\ \A i \in 1..n : lines[i] \in Listing /\ lines[i].category \in D
      /\ menu.id \in Nat
  <2>1. lines \in Seq(Listing) /\ menu.id \in Nat
    BY DEF Menu
  <2>2. n \in Nat /\ DOMAIN lines = 1..n /\ \A i \in 1..n : lines[i] \in Listing
    <3> HIDE DEF lines
    <3>. QED  BY <2>1
  <2>. QED  BY <2>1, <2>2 DEF ListedIn
<1>2. PICK g : g = [p \in (1..n) \X V |-> AddToCategory(p[2], menu.id, lines[p[1]])]
  OBVIOUS
<1>3. \A i \in 1..n : \A v \in V : /\ g[<<i, v>>] = AddToCategory(v, menu.id, lines[i])
                                   /\ AddToCategory(v, menu.id, lines[i]) \in V
  <2> HIDE DEF n, lines
  <2>1. \A i \in 1..n : \A v \in V : AddToCategory(v, menu.id, lines[i]) \in V
    BY <1>1, AddToCategoryType
  <2>. QED  BY <1>2, <2>1
<1>4. PICK f \in [SUBSET (1..n) -> V] : IsLeftFold(f, n, base, g)
  <2>1. StaysIn(g, 1..n, V)
    BY <1>3 DEF StaysIn
  <2>2. base \in V
    OBVIOUS
  <2> HIDE DEF V
  <2>. QED  BY <1>1, <2>1, <2>2, LeftFoldExists
<1>5. \A s \in SUBSET (1..n) : s # {} => Max(s) \in 1..n
  BY <1>1, LastPlace
<1>6. Solves(f)
  <2>1. \A s \in SUBSET (1..n) : f[s] = IF s = {} THEN base
                                        ELSE AddToCategory(f[s \ {Max(s)}], menu.id, lines[Max(s)])
    <3> HIDE DEF V, lines, n
    <3>. QED  BY <1>3, <1>4, <1>5 DEF IsLeftFold
  <2>. QED  BY <2>1
<1>7. PICK h : h = CHOOSE any : Solves(any)
  OBVIOUS
<1>8. Solves(h)
  BY <1>6, <1>7
<1>9. AddMenu(base, menu) = h[1..n]
  BY <1>1, <1>7 DEF AddMenu, FoldLeft, MapThenFoldSet
<1> DEFINE F == [k \in 0..n |-> h[1..k]]
<1>10. F[0] = base
  <2>1. h[{}] = base /\ 0 \in 0..n
    BY <1>1, <1>8
  <2>2. 1..0 = {}
    OBVIOUS
  <2>. QED  BY <2>1, <2>2
<1>11. F[n] = AddMenu(base, menu)
  BY <1>1, <1>9
<1>12. ASSUME NEW k \in 0..(n - 1) PROVE F[k + 1] = AddToCategory(F[k], menu.id, lines[k + 1])
  <2>1. /\ 1..(k + 1) \in SUBSET (1..n) /\ 1..(k + 1) # {}
        /\ Max(1..(k + 1)) = k + 1 /\ (1..(k + 1)) \ {k + 1} = 1..k
    BY <1>1, LastPlace
  <2>2. h[1..(k + 1)] = AddToCategory(h[(1..(k + 1)) \ {Max(1..(k + 1))}], menu.id, lines[Max(1..(k + 1))])
    BY <1>8, <2>1
  <2>3. k \in 0..n /\ k + 1 \in 0..n
    BY <1>1
  <2> HIDE DEF n
  <2>. QED  BY <2>1, <2>2, <2>3
<1>. QED  BY <1>10, <1>11, <1>12 DEF ListingsAfter

\* The places in the first menus.
PlacesTo(menus, k) == {p \in Places(menus) : p[1] <= k}

\* One more menu is shown.
LEMMA AddMenuShows ==
    ASSUME NEW menus \in Seq(Menu), NEW D, CategoriesOf(menus) \subseteq D,
           NEW i \in DOMAIN menus, NEW by, Shows(by, D, menus, PlacesTo(menus, i - 1))
    PROVE  Shows(AddMenu(by, menus[i]), D, menus, PlacesTo(menus, i))
<1> DEFINE menu == menus[i]
           n == Len(menu.products)
           Then(k) == PlacesTo(menus, i - 1) \union ({i} \X (1..k))
<1>1. /\ menu \in Menu /\ n \in Nat /\ DOMAIN menu.products = 1..n /\ i \in Nat
      /\ \A j \in 1..n : <<i, j>> \in Places(menus)
  BY MenuPlaces
<1>2. ListedIn(menu, D)
  <2>1. \A j \in 1..n : menu.products[j].category \in CategoriesOf(menus)
    <3>. SUFFICES ASSUME NEW j \in 1..n PROVE menu.products[j].category \in CategoriesOf(menus)
      OBVIOUS
    <3>1. PICK p \in Places(menus) : p = <<i, j>>
      BY <1>1
    <3>2. p[1] = i /\ p[2] = j
      BY <3>1
    <3>3. menus[p[1]].products[p[2]].category \in CategoriesOf(menus)
      BY DEF CategoriesOf
    <3>. QED  BY <3>2, <3>3
  <2>. QED  BY <1>1, <2>1 DEF ListedIn
<1>3. by \in [D -> Seq(ShownProduct)]
  BY DEF Shows
<1> HIDE DEF menu
<1>4. PICK F : ListingsAfter(F, by, menu)
  BY <1>1, <1>2, <1>3, ListingsFold
<1> DEFINE Good == {k \in 0..n : Shows(F[k], D, menus, Then(k))}
<1>5. 0 \in Good
  <2>1. Then(0) = PlacesTo(menus, i - 1)
    OBVIOUS
  <2>2. F[0] = by /\ 0 \in 0..n
    BY <1>1, <1>4 DEF ListingsAfter
  <2> HIDE DEF Then
  <2>. QED  BY <2>1, <2>2
<1>6. ASSUME NEW k \in 0..(n - 1), k \in Good PROVE k + 1 \in Good
  <2> DEFINE z == <<i, k + 1>>
  <2>1. k \in Nat /\ k + 1 \in 0..n /\ k + 1 \in 1..n /\ \A j \in 1..k : j \in 1..n /\ j < k + 1
    BY <1>1
  <2>2. z \in Places(menus) /\ z[1] = i /\ z[2] = k + 1
    BY <1>1, <2>1
  <2>3. ListingAt(menus, z) = menu.products[k + 1] /\ menus[z[1]].id = menu.id
    BY <2>2 DEF ListingAt, menu
  <2>4. Then(k + 1) = Then(k) \union {z}
    <3>1. 1..(k + 1) = (1..k) \union {k + 1}
      BY <2>1
    <3>. QED  BY <3>1
  <2>5. F[k + 1] = AddToCategory(F[k], menu.id, menu.products[k + 1])
    BY <1>4 DEF ListingsAfter
  <2>6. Shows(F[k], D, menus, Then(k))
    BY <1>6
  <2>7. Then(k) \in SUBSET Places(menus)
    BY <1>1, <2>1 DEF PlacesTo
  <2>8. AllEarlier(Then(k), z)
    <3>1. \A p \in PlacesTo(menus, i - 1) : p[1] \in Nat /\ p[1] <= i - 1
      BY MenuPlaces DEF PlacesTo
    <3>2. \A p \in PlacesTo(menus, i - 1) : p[1] < i
      BY <1>1, <3>1
    <3>3. \A p \in {i} \X (1..k) : p[1] = i /\ p[2] < k + 1
      BY <2>1
    <3>. QED  BY <2>2, <3>2, <3>3 DEF AllEarlier, Earlier
  <2>9. ListingAt(menus, z).category \in D
    BY <1>2, <2>1, <2>3, <1>1 DEF ListedIn
  <2> HIDE DEF Then, z
  <2>10. Shows(AddToCategory(F[k], menus[z[1]].id, ListingAt(menus, z)), D, menus, Then(k) \union {z})
    BY <2>2, <2>6, <2>7, <2>8, <2>9, AddToCategoryShows
  <2>. QED  BY <2>1, <2>3, <2>4, <2>5, <2>10
<1>7. n \in Good
  <2>1. n \in 0..n
    BY <1>1
  <2> HIDE DEF Good
  <2>. QED  BY <1>1, <1>5, <1>6, <2>1, InductUpTo
<1>8. F[n] = AddMenu(by, menu)
  BY <1>4 DEF ListingsAfter
<1>9. Then(n) = PlacesTo(menus, i)
  <2>1. {i} \X (1..n) = {p \in Places(menus) : p[1] = i}
    <3>1. \A p \in Places(menus) : p[1] = i => p[2] \in 1..n /\ p = <<i, p[2]>>
      BY <1>1, MenuPlaces DEF menu
    <3>2. {p \in Places(menus) : p[1] = i} \subseteq {i} \X (1..n)
      BY <3>1
    <3>3. {i} \X (1..n) \subseteq {p \in Places(menus) : p[1] = i}
      BY <1>1
    <3>. QED  BY <3>2, <3>3
  <2>2. \A p \in Places(menus) : p[1] \in Nat
    BY MenuPlaces
  <2>3. \A p \in Places(menus) : p[1] <= i <=> p[1] <= i - 1 \/ p[1] = i
    BY <1>1, <2>2
  <2>. QED  BY <2>1, <2>3 DEF PlacesTo
<1>. QED  BY <1>7, <1>8, <1>9 DEF menu

\* The products with one more menu are products by category again.
LEMMA AddMenuType ==
    ASSUME NEW D, NEW base \in [D -> Seq(ShownProduct)], NEW menu \in Menu, ListedIn(menu, D)
    PROVE  AddMenu(base, menu) \in [D -> Seq(ShownProduct)]
<1> DEFINE lines == menu.products
           n == Len(lines)
<1>1. /\ n \in Nat /\ DOMAIN lines = 1..n /\ \A i \in 1..n : lines[i] \in Listing /\ lines[i].category \in D
      /\ menu.id \in Nat
  <2>1. lines \in Seq(Listing) /\ menu.id \in Nat
    BY DEF Menu
  <2>2. n \in Nat /\ DOMAIN lines = 1..n /\ \A i \in 1..n : lines[i] \in Listing
    <3> HIDE DEF lines
    <3>. QED  BY <2>1
  <2>. QED  BY <2>1, <2>2 DEF ListedIn
<1>2. PICK F : ListingsAfter(F, base, menu)
  BY ListingsFold
<1> DEFINE Good == {k \in 0..n : F[k] \in [D -> Seq(ShownProduct)]}
<1>3. 0 \in Good
  BY <1>1, <1>2 DEF ListingsAfter
<1>4. ASSUME NEW k \in 0..(n - 1), k \in Good PROVE k + 1 \in Good
  <2>1. k + 1 \in 0..n /\ lines[k + 1] \in Listing /\ lines[k + 1].category \in D
    BY <1>1
  <2>2. F[k] \in [D -> Seq(ShownProduct)]
    BY <1>4
  <2>3. AddToCategory(F[k], menu.id, lines[k + 1]) \in [D -> Seq(ShownProduct)]
    BY <1>1, <2>1, <2>2, AddToCategoryType
  <2>4. F[k + 1] = AddToCategory(F[k], menu.id, lines[k + 1])
    BY <1>2 DEF ListingsAfter
  <2>. QED  BY <2>1, <2>3, <2>4
<1>5. n \in Good
  <2>1. n \in 0..n
    BY <1>1
  <2> HIDE DEF Good
  <2>. QED  BY <1>1, <1>3, <1>4, <2>1, InductUpTo
<1>6. F[n] = AddMenu(base, menu)
  BY <1>2 DEF ListingsAfter
<1>. QED  BY <1>5, <1>6

\* The products after each menu.
MenusAfter(F, base, menus) ==
    /\ F[0] = base /\ F[Len(menus)] = FoldLeft(AddMenu, base, menus)
    /\ \A k \in 0..(Len(menus) - 1) : F[k + 1] = AddMenu(F[k], menus[k + 1])

\* What ProductsByCategory computes is the last of the products after each menu.
LEMMA MenusFold ==
    ASSUME NEW D, NEW base \in [D -> Seq(ShownProduct)], NEW menus \in Seq(Menu),
           \A i \in DOMAIN menus : ListedIn(menus[i], D)
    PROVE  \E F : MenusAfter(F, base, menus)
<1> DEFINE n == Len(menus)
           V == [D -> Seq(ShownProduct)]
           Solves(h) == h = [s \in SUBSET (1..n) |->
                               IF s = {} THEN base ELSE AddMenu(h[s \ {Max(s)}], menus[Max(s)])]
<1>1. n \in Nat /\ DOMAIN menus = 1..n /\ \A i \in 1..n : menus[i] \in Menu
  OBVIOUS
<1>2. PICK g : g = [p \in (1..n) \X V |-> AddMenu(p[2], menus[p[1]])]
  OBVIOUS
<1>3. \A i \in 1..n : \A v \in V : g[<<i, v>>] = AddMenu(v, menus[i]) /\ AddMenu(v, menus[i]) \in V
  <2>1. \A i \in 1..n : \A v \in V : AddMenu(v, menus[i]) \in V
    BY <1>1, AddMenuType
  <2>. QED  BY <1>2, <2>1
<1>4. PICK f \in [SUBSET (1..n) -> V] : IsLeftFold(f, n, base, g)
  <2>1. StaysIn(g, 1..n, V)
    BY <1>3 DEF StaysIn
  <2>2. base \in V
    OBVIOUS
  <2> HIDE DEF V
  <2>. QED  BY <1>1, <2>1, <2>2, LeftFoldExists
<1>5. \A s \in SUBSET (1..n) : s # {} => Max(s) \in 1..n
  BY <1>1, LastPlace
<1>6. Solves(f)
  <2>1. \A s \in SUBSET (1..n) : f[s] = IF s = {} THEN base ELSE AddMenu(f[s \ {Max(s)}], menus[Max(s)])
    <3> HIDE DEF V
    <3>. QED  BY <1>3, <1>4, <1>5 DEF IsLeftFold
  <2>. QED  BY <2>1
<1>7. PICK h : h = CHOOSE any : Solves(any)
  OBVIOUS
<1>8. Solves(h)
  BY <1>6, <1>7
<1>9. FoldLeft(AddMenu, base, menus) = h[1..n]
  BY <1>1, <1>7 DEF FoldLeft, MapThenFoldSet
<1> DEFINE F == [k \in 0..n |-> h[1..k]]
<1>10. F[0] = base
  <2>1. h[{}] = base /\ 0 \in 0..n
    BY <1>1, <1>8
  <2>2. 1..0 = {}
    OBVIOUS
  <2>. QED  BY <2>1, <2>2
<1>11. F[n] = FoldLeft(AddMenu, base, menus)
  BY <1>1, <1>9
<1>12. ASSUME NEW k \in 0..(n - 1) PROVE F[k + 1] = AddMenu(F[k], menus[k + 1])
  <2>1. /\ 1..(k + 1) \in SUBSET (1..n) /\ 1..(k + 1) # {}
        /\ Max(1..(k + 1)) = k + 1 /\ (1..(k + 1)) \ {k + 1} = 1..k
    BY <1>1, LastPlace
  <2>2. h[1..(k + 1)] = AddMenu(h[(1..(k + 1)) \ {Max(1..(k + 1))}], menus[Max(1..(k + 1))])
    BY <1>8, <2>1
  <2>3. k \in 0..n /\ k + 1 \in 0..n
    BY <1>1
  <2> HIDE DEF n
  <2>. QED  BY <2>1, <2>2, <2>3
<1>. QED  BY <1>10, <1>11, <1>12 DEF MenusAfter

\* Every category shows all that is listed of it.
LEMMA ProductsAreShown ==
    ASSUME NEW menus \in Seq(Menu), NEW D, CategoriesOf(menus) \subseteq D
    PROVE  Shows(ProductsByCategory(menus, D), D, menus, Places(menus))
<1> DEFINE n == Len(menus)
           base == [c \in D |-> <<>>]
<1>1. n \in Nat /\ DOMAIN menus = 1..n
  OBVIOUS
<1>2. base \in [D -> Seq(ShownProduct)]
  OBVIOUS
<1>3. ASSUME NEW i \in DOMAIN menus PROVE ListedIn(menus[i], D)
  <2>. SUFFICES ASSUME NEW j \in DOMAIN menus[i].products PROVE menus[i].products[j].category \in CategoriesOf(menus)
    BY DEF ListedIn
  <2>1. PICK p \in Places(menus) : p = <<i, j>>
    BY MenuPlaces
  <2>2. p[1] = i /\ p[2] = j
    BY <2>1
  <2>3. menus[p[1]].products[p[2]].category \in CategoriesOf(menus)
    BY DEF CategoriesOf
  <2>. QED  BY <2>2, <2>3
<1>4. PICK F : MenusAfter(F, base, menus)
  <2> HIDE DEF base
  <2>. QED  BY <1>2, <1>3, MenusFold
<1> DEFINE Good == {k \in 0..n : Shows(F[k], D, menus, PlacesTo(menus, k))}
<1>5. 0 \in Good
  <2>1. PlacesTo(menus, 0) = {}
    <3>1. \A p \in Places(menus) : p[1] \in 1..n
      BY <1>1, MenuPlaces
    <3>2. \A p \in Places(menus) : ~ (p[1] <= 0)
      BY <3>1
    <3>. QED  BY <3>2 DEF PlacesTo
  <2>2. F[0] = base /\ 0 \in 0..n
    BY <1>1, <1>4 DEF MenusAfter
  <2>3. ASSUME NEW c \in D PROVE ShowsIn(<<>>, c, menus, {})
    BY DEF ShowsIn, InCategory
  <2>4. Shows(base, D, menus, {})
    <3>1. \A c \in D : base[c] = <<>>
      OBVIOUS
    <3> HIDE DEF base
    <3>. QED  BY <1>2, <2>3, <3>1 DEF Shows
  <2>. QED  BY <2>1, <2>2, <2>4
<1>6. ASSUME NEW k \in 0..(n - 1), k \in Good PROVE k + 1 \in Good
  <2>1. k \in Nat /\ k + 1 \in 0..n /\ k + 1 \in DOMAIN menus /\ (k + 1) - 1 = k
    BY <1>1
  <2>2. PICK i \in DOMAIN menus : i = k + 1
    BY <2>1
  <2>3. Shows(F[k], D, menus, PlacesTo(menus, i - 1))
    BY <1>6, <2>1, <2>2
  <2>4. Shows(AddMenu(F[k], menus[i]), D, menus, PlacesTo(menus, i))
    BY <2>3, AddMenuShows
  <2>5. F[k + 1] = AddMenu(F[k], menus[k + 1])
    BY <1>4 DEF MenusAfter
  <2>. QED  BY <2>1, <2>2, <2>4, <2>5
<1>7. n \in Good
  <2>1. n \in 0..n
    BY <1>1
  <2> HIDE DEF Good
  <2>. QED  BY <1>1, <1>5, <1>6, <2>1, InductUpTo
<1>8. F[n] = ProductsByCategory(menus, D)
  BY <1>4 DEF MenusAfter, ProductsByCategory
<1>9. PlacesTo(menus, n) = Places(menus)
  <2>1. \A p \in Places(menus) : p[1] \in 1..n
    BY <1>1, MenuPlaces
  <2>2. \A p \in Places(menus) : p[1] <= n
    BY <1>1, <2>1
  <2>. QED  BY <2>2 DEF PlacesTo
<1>. QED  BY <1>7, <1>8, <1>9

\* A category is above itself, with a category its parent, and each one but the first for a child.
LEMMA AboveFacts ==
    ASSUME NEW parent, IsForest(parent), NEW c \in DOMAIN parent
    PROVE  /\ c \in Above(c, parent) /\ Above(c, parent) \in SUBSET DOMAIN parent
           /\ IsClosed(Above(c, parent), parent)
           /\ \A d \in Above(c, parent) : d # c => \E e \in Above(c, parent) : parent[e] = d
<1> DEFINE up == Above(c, parent)
<1>1. c \in up /\ up \in SUBSET DOMAIN parent
  BY DEF Above
<1>2. IsClosed(up, parent)
  <2>. SUFFICES ASSUME NEW d \in up, parent[d] # NoParent PROVE parent[d] \in up
    BY DEF IsClosed
  <2>1. parent[d] \in DOMAIN parent
    BY <1>1 DEF IsForest
  <2>2. \A S \in SUBSET DOMAIN parent : c \in S /\ IsClosed(S, parent) => parent[d] \in S
    BY DEF Above, IsClosed
  <2>. QED  BY <2>1, <2>2 DEF Above
<1>3. ASSUME NEW d \in up, d # c, \A e \in up : parent[e] # d PROVE FALSE
  <2>1. PICK S : S = up \ {d}
    OBVIOUS
  <2>2. c \in S /\ S \in SUBSET DOMAIN parent
    BY <1>1, <1>3, <2>1
  <2>3. IsClosed(S, parent)
    <3> HIDE DEF up
    <3>. QED  BY <1>2, <1>3, <2>1 DEF IsClosed
  <2>4. d \in S
    BY <2>2, <2>3 DEF Above
  <2>. QED  BY <2>1, <2>4
<1>. QED  BY <1>1, <1>2, <1>3

\* The categories kept are the ones above one with products.
LEMMA KeptAreAbove ==
    ASSUME NEW parent, IsForest(parent), NEW by
    PROVE  KeptCategories(parent, by) = UNION {Above(c, parent) : c \in {d \in DOMAIN parent : by[d] # <<>>}}
<1> DEFINE D == DOMAIN parent
           full == {d \in D : by[d] # <<>>}
           up == UNION {Above(c, parent) : c \in full}
           Solves(k) == k = [c \in D |-> by[c] # <<>> \/ \E d \in D : parent[d] = c /\ k[d]]
<1>1. /\ full \in SUBSET up /\ up \in SUBSET D
      /\ \A d \in up : parent[d] # NoParent => parent[d] \in up
      /\ \A d \in up : d \in full \/ \E e \in up : parent[e] = d
  <2>1. \A c \in full : c \in D
    OBVIOUS
  <2>2. \A c \in full : /\ c \in Above(c, parent) /\ Above(c, parent) \in SUBSET D
                        /\ IsClosed(Above(c, parent), parent)
                        /\ \A d \in Above(c, parent) : d # c => \E e \in Above(c, parent) : parent[e] = d
    BY <2>1, AboveFacts
  <2> HIDE DEF full
  <2>3. full \in SUBSET up /\ up \in SUBSET D
    BY <2>2
  <2>4. ASSUME NEW d \in up
        PROVE  (parent[d] # NoParent => parent[d] \in up) /\ (d \in full \/ \E e \in up : parent[e] = d)
    <3>1. PICK c \in full : d \in Above(c, parent)
      OBVIOUS
    <3>2. parent[d] # NoParent => parent[d] \in Above(c, parent)
      BY <2>2, <3>1 DEF IsClosed
    <3>3. d # c => \E e \in Above(c, parent) : parent[e] = d
      BY <2>2, <3>1
    <3>4. Above(c, parent) \subseteq up
      OBVIOUS
    <3> HIDE DEF up
    <3>. QED  BY <3>1, <3>2, <3>3, <3>4
  <2>. QED  BY <2>3, <2>4
<1>2. /\ IsFiniteSet(D) /\ D \in SUBSET Nat /\ NoParent \notin D
      /\ \A c \in D : parent[c] \in {NoParent} \union D /\ parent[c] < c
  BY DEF IsForest
<1> HIDE DEF up
<1>3. Solves([c \in D |-> c \in up])
  <2> DEFINE k == [c \in D |-> c \in up]
  <2>1. ASSUME NEW c \in D PROVE (c \in up) = (by[c] # <<>> \/ \E d \in D : parent[d] = c /\ k[d])
    <3>1. (\E d \in D : parent[d] = c /\ k[d]) <=> \E d \in up : parent[d] = c
      BY <1>1
    <3>2. (\E d \in up : parent[d] = c) => c \in up
      BY <1>1, <1>2
    <3>3. by[c] # <<>> <=> c \in full
      OBVIOUS
    <3> HIDE DEF full, k
    <3>. QED  BY <1>1, <3>1, <3>2, <3>3
  <2>2. k = [c \in D |-> by[c] # <<>> \/ \E d \in D : parent[d] = c /\ k[d]]
    <3>1. k = [c \in D |-> c \in up]
      OBVIOUS
    <3> HIDE DEF k
    <3>. QED  BY <2>1, <3>1
  <2>. QED  BY <2>2
<1>4. PICK kept : kept = CHOOSE k : Solves(k)
  OBVIOUS
<1>5. Solves(kept)
  BY <1>3, <1>4
<1>6. KeptCategories(parent, by) = {c \in D : kept[c]}
  BY <1>4 DEF KeptCategories
<1>7. \A c \in D : kept[c] <=> by[c] # <<>> \/ \E d \in D : parent[d] = c /\ kept[d]
  BY <1>5
<1> DEFINE Wrong == {c \in D : ~ (kept[c] <=> c \in up)}
<1>8. ASSUME Wrong # {} PROVE FALSE
  <2>1. Max(Wrong) \in Wrong /\ \A c \in Wrong : c <= Max(Wrong)
    <3>1. PICK n \in Int : \A c \in D : c <= n
      BY <1>2, FiniteHasBound
    <3>2. Wrong \in SUBSET Nat /\ \A c \in Wrong : c <= n
      BY <1>2, <3>1
    <3> HIDE DEF Wrong
    <3>. QED  BY <1>8, <3>2, MaxFacts
  <2>2. PICK m \in Wrong : \A c \in Wrong : c <= m
    BY <2>1
  <2>3. m \in D /\ m \in Nat /\ ~ (kept[m] <=> m \in up)
    BY <1>2, <2>2
  <2>4. \A d \in D : parent[d] = m => (kept[d] <=> d \in up)
    <3>. SUFFICES ASSUME NEW d \in D, parent[d] = m, d \in Wrong PROVE FALSE
      OBVIOUS
    <3>1. d \in Nat /\ m < d /\ d <= m
      BY <1>2, <2>2
    <3>. QED  BY <2>3, <3>1
  <2>5. by[m] # <<>> <=> m \in full
    BY <2>3
  <2>6. (\E d \in D : parent[d] = m /\ kept[d]) <=> (\E d \in D : parent[d] = m /\ d \in up)
    BY <2>4
  <2>7. (\E d \in D : parent[d] = m /\ d \in up) => m \in up
    BY <1>1, <1>2, <2>3
  <2>8. m \in up <=> m \in full \/ \E d \in D : parent[d] = m /\ d \in up
    <3> HIDE DEF full
    <3>. QED  BY <1>1, <2>7
  <2>9. kept[m] <=> by[m] # <<>> \/ \E d \in D : parent[d] = m /\ kept[d]
    BY <1>7, <2>3
  <2> HIDE DEF full
  <2>. QED  BY <2>3, <2>5, <2>6, <2>8, <2>9
<1>9. \A c \in D : kept[c] <=> c \in up
  BY <1>8
<1>. QED  BY <1>1, <1>6, <1>9 DEF up

\* A device is shown the menus, whatever they are.
LEMMA MenusAreShown ==
    ASSUME NEW m \in MenusShown
    PROVE  ShowsTheMenus(m)
<1> DEFINE used == MenusToProcess(m.menus, m.shared)
           parent == m.parent
           data == processMenuData(m.menus, m.shared, parent)
           D == DOMAIN parent \union CategoriesOf(used)
           by == ProductsByCategory(used, D)
           kept == KeptCategories(parent, by)
           The(p) == used[p[1]].products[p[2]]
           Of(c) == {p \in Places(used) : The(p).category = c}
           MenuIds(places) == [k \in 1..Cardinality(places) |-> used[MenuByMenu(places)[k][1]].id]
           Like(c, id) == {p \in Of(c) : The(p).id = id}
<1>1. used \in Seq(Menu) /\ IsForest(parent)
  <2>1. m.menus \in Seq(Menu) /\ m.shared \in Seq(Menu) /\ IsForest(m.parent)
    BY MenusAssumption
  <2>. QED  BY <2>1 DEF MenusToProcess
<1>2. data.products = [c \in kept |-> by[c]]
  BY DEF processMenuData
<1> HIDE DEF used, parent, data
<1>3. Shows(by, D, used, Places(used))
  BY <1>1, ProductsAreShown
<1>4. kept = UNION {Above(c, parent) : c \in {d \in DOMAIN parent : by[d] # <<>>}}
  BY <1>1, KeptAreAbove
<1> HIDE DEF by, kept
<1>5. ASSUME NEW c \in D
      PROVE  /\ by[c] \in Seq(ShownProduct)
             /\ {by[c][i].id : i \in DOMAIN by[c]} = {The(p).id : p \in Of(c)}
             /\ \A i, j \in DOMAIN by[c] : by[c][i].id = by[c][j].id => i = j
             /\ \A i \in DOMAIN by[c] : by[c][i].menuIds = MenuIds(Like(c, by[c][i].id))
  <2>1. ShowsIn(by[c], c, used, Places(used))
    BY <1>3 DEF Shows
  <2>. QED  BY <2>1 DEF ShowsIn, InCategory, SameIn, MenuIdsAt, ListingAt
<1>6. \A c \in DOMAIN parent : by[c] # <<>> <=> c \in CategoriesOf(used)
  <2>. SUFFICES ASSUME NEW c \in DOMAIN parent PROVE by[c] # <<>> <=> c \in CategoriesOf(used)
    OBVIOUS
  <2>1. c \in CategoriesOf(used) <=> Of(c) # {}
    BY DEF CategoriesOf
  <2>2. by[c] \in Seq(ShownProduct) /\ {by[c][i].id : i \in DOMAIN by[c]} = {The(p).id : p \in Of(c)}
    BY <1>5
  <2>3. by[c] # <<>> <=> DOMAIN by[c] # {}
    <3>1. DOMAIN by[c] = 1..Len(by[c]) /\ Len(by[c]) \in Nat /\ (Len(by[c]) = 0 <=> by[c] = <<>>)
      BY <2>2
    <3>2. PICK n \in Nat : n = Len(by[c])
      BY <3>1
    <3>3. 1..0 = {} /\ (n # 0 => 1 \in 1..n)
      OBVIOUS
    <3>. QED  BY <3>1, <3>2, <3>3
  <2> HIDE DEF Of, The
  <2>4. DOMAIN by[c] # {} <=> Of(c) # {}
    BY <2>2
  <2>. QED  BY <2>1, <2>3, <2>4
<1>7. kept = UNION {Above(c, parent) : c \in DOMAIN parent \intersect CategoriesOf(used)}
  <2>1. {d \in DOMAIN parent : by[d] # <<>>} = DOMAIN parent \intersect CategoriesOf(used)
    BY <1>6
  <2>. QED  BY <1>4, <2>1
<1>8. kept \in SUBSET D
  <2>1. \A c \in DOMAIN parent : Above(c, parent) \in SUBSET DOMAIN parent
    BY DEF Above
  <2>. QED  BY <1>7, <2>1
<1>9. DOMAIN data.products = kept /\ \A c \in kept : data.products[c] = by[c] /\ c \in D
  BY <1>2, <1>8
<1> HIDE DEF D, Of, The, MenuIds, Like
<1>10. ASSUME NEW c \in DOMAIN data.products
       PROVE  /\ {data.products[c][i].id : i \in DOMAIN data.products[c]} = {The(p).id : p \in Of(c)}
              /\ \A i, j \in DOMAIN data.products[c] : data.products[c][i].id = data.products[c][j].id => i = j
              /\ \A i \in DOMAIN data.products[c] :
                   data.products[c][i].menuIds = MenuIds(Like(c, data.products[c][i].id))
  <2>1. data.products[c] = by[c] /\ c \in D
    BY <1>9
  <2>2. PICK s : s = by[c]
    OBVIOUS
  <2>3. /\ {s[i].id : i \in DOMAIN s} = {The(p).id : p \in Of(c)}
        /\ \A i, j \in DOMAIN s : s[i].id = s[j].id => i = j
        /\ \A i \in DOMAIN s : s[i].menuIds = MenuIds(Like(c, s[i].id))
    <3>1. {s[i].id : i \in DOMAIN s} = {The(p).id : p \in Of(c)}
      BY <1>5, <2>1, <2>2
    <3>2. \A i, j \in DOMAIN s : s[i].id = s[j].id => i = j
      BY <1>5, <2>1, <2>2
    <3>3. \A i \in DOMAIN s : s[i].menuIds = MenuIds(Like(c, s[i].id))
      BY <1>5, <2>1, <2>2
    <3>. QED  BY <3>1, <3>2, <3>3
  <2>4. s = data.products[c]
    BY <2>1, <2>2
  <2>. QED  BY <2>3, <2>4
<1>. QED  BY <1>7, <1>9, <1>10 DEF ShowsTheMenus, used, parent, data, The, Of, MenuIds, Like

\* A device is shown every product its business's menus list, exactly once in each category of the
\* tree, with the menus it is on in their order, and exactly the categories that lead to one, for
\* all menus and every tree (MenuDataProcessorService.processMenuData).
THEOREM DevicesSeeTheMenusCorrect ==
    Spec => []DevicesSeeTheMenus
<1>1. DevicesSeeTheMenus
  BY MenusAreShown DEF DevicesSeeTheMenus
<1>. QED  BY <1>1, PTL
=============================================================================
