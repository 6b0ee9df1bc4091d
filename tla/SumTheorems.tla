---------------------------- MODULE SumTheorems ----------------------------
(***************************************************************************)
(* Facts about SumFunction, the sum of the values of a function on a       *)
(* finite set: the proofs about usage and charges rest on them.            *)
(*                                                                         *)
(* Induction is over sets: a set of numbers that has 0 and every successor *)
(* has all of them, and a family of finite sets that is not empty has a    *)
(* least one.                                                              *)
(***************************************************************************)
EXTENDS Integers, FiniteSets, Functions, FiniteSetTheorems, TLAPS

-----------------------------------------------------------------------------
(* Induction. *)

LEMMA AllNaturals ==
  ASSUME NEW N \in SUBSET Nat, 0 \in N, \A n \in N : n + 1 \in N
  PROVE  Nat \subseteq N
<1> SUFFICES ASSUME Nat \ N # {} PROVE FALSE
  OBVIOUS
<1> DEFINE Less == OpToRel(<, Nat)
<1>1. IsWellFoundedOn(Less, Nat)
  BY NatLessThanWellFounded
<1>2. \A m, n \in Nat : m < n => <<m, n>> \in Less
  BY DEF OpToRel
<1> HIDE DEF Less
<1>3. PICK n \in Nat \ N : \A m \in Nat \ N : <<m, n>> \notin Less
  BY <1>1, WFMin
<1>4. n # 0 /\ n - 1 \in Nat /\ n - 1 < n
  BY <1>3
<1>5. n - 1 \in N
  BY <1>2, <1>3, <1>4
<1> QED BY <1>3, <1>4, <1>5

LEMMA LeastSubset ==
  ASSUME NEW S, IsFiniteSet(S), NEW B \in SUBSET (SUBSET S), B # {}
  PROVE  \E T \in B : \A U \in SUBSET T : U # T => U \notin B
<1>1. IsWellFoundedOn(StrictSubsetOrdering(S), SUBSET S)
  BY FS_StrictSubsetOrderingWellFounded, FS_FiniteSubsetsOfFinite
<1>2. PICK T \in B : \A U \in B : <<U, T>> \notin StrictSubsetOrdering(S)
  BY <1>1, WFMin
<1> QED BY <1>2 DEF StrictSubsetOrdering

-----------------------------------------------------------------------------
(* The sum is additive. *)

\* h gives the sum of f over every subset of S.
Sums(h, f, S) ==
  /\ h \in [SUBSET S -> Int] /\ h[{}] = 0
  /\ \A T \in SUBSET S : \A x \in T : h[T] = f[x] + h[T \ {x}]

\* Two such functions agree.
LEMMA SumsAgree ==
  ASSUME NEW S, IsFiniteSet(S), NEW f, NEW g, NEW h, Sums(g, f, S), Sums(h, f, S)
  PROVE  g[S] = h[S]
<1> DEFINE B == {T \in SUBSET S : g[T] # h[T]}
<1> SUFFICES ASSUME B # {} PROVE FALSE
  OBVIOUS
<1>1. PICK T \in B : \A U \in SUBSET T : U # T => U \notin B
  <2> HIDE DEF B
  <2>1. B \in SUBSET (SUBSET S)
    BY DEF B
  <2> QED BY <2>1, LeastSubset
<1>2. CASE T = {}
  BY <1>1, <1>2 DEF Sums
<1>3. CASE T # {}
  <2>1. PICK x \in T : TRUE
    BY <1>3
  <2>2. T \ {x} \in SUBSET S /\ T \ {x} # T /\ T \in SUBSET S
    BY <1>1, <2>1
  <2>3. g[T \ {x}] = h[T \ {x}]
    BY <1>1, <2>1, <2>2
  <2>4. g[T] = f[x] + g[T \ {x}] /\ h[T] = f[x] + h[T \ {x}]
    BY <2>1, <2>2 DEF Sums
  <2> QED BY <1>1, <2>3, <2>4
<1> QED BY <1>2, <1>3

Chosen(T) == CHOOSE x \in T : TRUE

\* A function that adds one chosen element after the other is additive.
LEMMA ChosenSums ==
  ASSUME NEW S, IsFiniteSet(S), NEW f \in [S -> Int],
         NEW g \in [SUBSET S -> Int], g[{}] = 0,
         \A T \in SUBSET S :
           T # {} => g[T] = f[Chosen(T)] + g[T \ {Chosen(T)}]
  PROVE  Sums(g, f, S)
<1> DEFINE B == {T \in SUBSET S : \E x \in T : g[T] # f[x] + g[T \ {x}]}
<1> SUFFICES ASSUME B # {} PROVE FALSE
  BY DEF Sums
<1>1. PICK T \in B : \A U \in SUBSET T : U # T => U \notin B
  <2> HIDE DEF B
  <2>1. B \in SUBSET (SUBSET S)
    BY DEF B
  <2> QED BY <2>1, LeastSubset
<1>2. T \in SUBSET S
  BY <1>1
<1>3. PICK x \in T : g[T] # f[x] + g[T \ {x}]
  BY <1>1
<1> DEFINE y == Chosen(T)
<1>4. y \in T
  BY <1>3 DEF Chosen
<1>5. g[T] = f[y] + g[T \ {y}]
  BY <1>2, <1>3
<1>6. x # y
  BY <1>3, <1>5
<1> HIDE DEF y, B
<1> DEFINE U == T \ {x}
           V == T \ {y}
<1>7. U \notin B /\ V \notin B /\ U \in SUBSET S /\ V \in SUBSET S
  BY <1>1, <1>2, <1>3, <1>4
<1>8. g[U] = f[y] + g[U \ {y}] /\ g[V] = f[x] + g[V \ {x}]
  <2>1. y \in U /\ x \in V
    BY <1>3, <1>4, <1>6
  <2> HIDE DEF U, V
  <2> QED BY <1>7, <2>1 DEF B
<1>9. U \ {y} = V \ {x} /\ U \ {y} \in SUBSET S
  BY <1>2
<1>10. f[x] \in Int /\ f[y] \in Int /\ g[U \ {y}] \in Int
  BY <1>2, <1>3, <1>4, <1>9
<1> HIDE DEF U, V
<1>11. g[T] = f[x] + g[U]
  <2>1. g[V] = f[x] + g[U \ {y}] /\ g[U] = f[y] + g[U \ {y}]
    BY <1>8, <1>9
  <2>2. g[T] = f[y] + g[V]
    BY <1>5 DEF V
  <2> QED BY <1>10, <2>1, <2>2
<1> QED BY <1>3, <1>11 DEF U

\* The sum of f over T, if g has it for the sets with one element less.
OneMore(f, g, T) ==
  IF T = {} THEN 0 ELSE f[Chosen(T)] + g[T \ {Chosen(T)}]

LEMMA OneLess ==
  ASSUME NEW S, IsFiniteSet(S), NEW T \in SUBSET S
  PROVE  /\ Cardinality(T) \in Nat /\ Cardinality(T) <= Cardinality(S)
         /\ Cardinality(T) <= 0 => T = {}
         /\ T # {} => /\ Chosen(T) \in T
                      /\ Cardinality(T \ {Chosen(T)}) = Cardinality(T) - 1
<1>1. IsFiniteSet(T) /\ Cardinality(T) \in Nat /\ Cardinality(T) <= Cardinality(S)
  BY FS_Subset, FS_CardinalityType
<1>2. T # {} => Chosen(T) \in T
  BY DEF Chosen
<1>3. Cardinality(T) = 0 => T = {}
  BY <1>1, FS_EmptySet
<1>4. T # {} => Cardinality(T \ {Chosen(T)}) = Cardinality(T) - 1
  BY <1>1, <1>2, FS_RemoveElement
<1>5. Cardinality(T) <= 0 => T = {}
  BY <1>1, <1>3
<1> QED BY <1>1, <1>2, <1>4, <1>5

LEMMA OneMoreIsInt ==
  ASSUME NEW S, NEW f \in [S -> Int], NEW g \in [SUBSET S -> Int],
         NEW T \in SUBSET S
  PROVE  OneMore(f, g, T) \in Int
<1>1. CASE T # {}
  <2>1. Chosen(T) \in S
    BY <1>1 DEF Chosen
  <2>2. f[Chosen(T)] \in Int /\ g[T \ {Chosen(T)}] \in Int
    BY <2>1
  <2> QED BY <1>1, <2>2 DEF OneMore
<1>2. CASE T = {}
  BY <1>2 DEF OneMore
<1> QED BY <1>1, <1>2

\* There is such a function for the sets with at most n elements ...
SumsUpTo(f, S, n) ==
  \E g \in [SUBSET S -> Int] :
    \A T \in SUBSET S : Cardinality(T) <= n => g[T] = OneMore(f, g, T)

LEMMA PartialSums ==
  ASSUME NEW S, IsFiniteSet(S), NEW f \in [S -> Int]
  PROVE  \A n \in Nat : SumsUpTo(f, S, n)
<1> DEFINE N == {k \in Nat : SumsUpTo(f, S, k)}
<1>1. SumsUpTo(f, S, 0)
  <2> DEFINE g == [T \in SUBSET S |-> 0]
  <2>1. g \in [SUBSET S -> Int] /\ \A T \in SUBSET S : g[T] = 0
    OBVIOUS
  <2> HIDE DEF g
  <2>2. \A T \in SUBSET S : Cardinality(T) <= 0 => g[T] = OneMore(f, g, T)
    BY <2>1, OneLess DEF OneMore
  <2> QED BY <2>1, <2>2 DEF SumsUpTo
<1>2. ASSUME NEW k \in Nat, SumsUpTo(f, S, k)
      PROVE  SumsUpTo(f, S, k + 1)
  <2>1. PICK g \in [SUBSET S -> Int] :
          \A T \in SUBSET S : Cardinality(T) <= k => g[T] = OneMore(f, g, T)
    BY <1>2 DEF SumsUpTo
  <2> DEFINE h == [T \in SUBSET S |-> OneMore(f, g, T)]
  <2>2. h \in [SUBSET S -> Int] /\ \A T \in SUBSET S : h[T] = OneMore(f, g, T)
    BY OneMoreIsInt
  <2> HIDE DEF h
  <2>3. ASSUME NEW T \in SUBSET S, Cardinality(T) <= k + 1
        PROVE  h[T] = OneMore(f, h, T)
    <3>1. CASE T = {}
      BY <2>2, <3>1 DEF OneMore
    <3>2. CASE T # {}
      <4> DEFINE U == T \ {Chosen(T)}
      <4>1. Cardinality(U) <= k
        BY <2>3, <3>2, OneLess
      <4>2. U \in SUBSET S
        OBVIOUS
      <4>3. h[U] = g[U]
        BY <2>1, <2>2, <4>1, <4>2
      <4> QED BY <2>2, <3>2, <4>3 DEF OneMore
    <3> QED BY <3>1, <3>2
  <2> QED BY <2>2, <2>3 DEF SumsUpTo
<1>3. 0 \in N /\ \A k \in N : k + 1 \in N
  BY <1>1, <1>2
<1>4. N \in SUBSET Nat
  OBVIOUS
<1>5. Nat \subseteq N
  <2> HIDE DEF N
  <2> QED BY <1>3, <1>4, AllNaturals
<1> QED BY <1>5

\* ... and so for all, and SumFunction has its value at S.
LEMMA SumIsSum ==
  ASSUME NEW S, IsFiniteSet(S), NEW f \in [S -> Int]
  PROVE  \E h : Sums(h, f, S) /\ SumFunction(f) = h[S]
<1> DEFINE Step(g) == [T \in SUBSET S |->
                         IF T = {} THEN 0 ELSE f[Chosen(T)] + g[T \ {Chosen(T)}]]
           h == CHOOSE g : g = Step(g)
<1>1. PICK g \in [SUBSET S -> Int] : \A T \in SUBSET S : g[T] = OneMore(f, g, T)
  <2>1. Cardinality(S) \in Nat /\ \A T \in SUBSET S : Cardinality(T) <= Cardinality(S)
    BY OneLess, FS_CardinalityType
  <2>2. SumsUpTo(f, S, Cardinality(S))
    BY <2>1, PartialSums
  <2> QED BY <2>1, <2>2 DEF SumsUpTo
<1>2. g = Step(g)
  BY <1>1 DEF OneMore
<1>3. h = Step(h)
  BY <1>2
<1>4. SumFunction(f) = h[S]
  <2>1. DOMAIN f = S
    OBVIOUS
  <2> QED BY <2>1 DEF SumFunction, SumFunctionOnSet, FoldFunctionOnSet,
                      MapThenFoldSet, Chosen
<1> HIDE DEF h
<1>5. h[{}] = 0 /\ \A T \in SUBSET S :
        T # {} => h[T] = f[Chosen(T)] + h[T \ {Chosen(T)}]
  BY <1>3
<1>6. h \in [SUBSET S -> Int]
  <2> DEFINE B == {T \in SUBSET S : h[T] # g[T]}
  <2>1. B = {}
    <3> SUFFICES ASSUME B # {} PROVE FALSE
      OBVIOUS
    <3>1. PICK T \in B : \A U \in SUBSET T : U # T => U \notin B
      <4> HIDE DEF B
      <4>1. B \in SUBSET (SUBSET S)
        BY DEF B
      <4> QED BY <4>1, LeastSubset
    <3>2. CASE T = {}
      BY <1>1, <1>5, <3>1, <3>2 DEF OneMore
    <3>3. CASE T # {}
      <4> DEFINE U == T \ {Chosen(T)}
      <4>1. Chosen(T) \in T
        BY <3>3 DEF Chosen
      <4>2. T \in SUBSET S /\ U \in SUBSET S /\ U \in SUBSET T /\ U # T
        BY <3>1, <4>1
      <4>3. h[U] = g[U]
        BY <3>1, <4>2
      <4> QED BY <1>1, <1>5, <3>1, <3>3, <4>2, <4>3 DEF OneMore
    <3> QED BY <3>2, <3>3
  <2>2. DOMAIN h = SUBSET S /\ h = [T \in SUBSET S |-> h[T]]
    BY <1>3
  <2>3. \A T \in SUBSET S : h[T] \in Int
    BY <2>1
  <2> QED BY <2>2, <2>3
<1>7. Sums(h, f, S)
  BY <1>5, <1>6, ChosenSums
<1> QED BY <1>4, <1>7

-----------------------------------------------------------------------------
(* What the proofs about usage and charges cite. *)

\* Whatever is additive is the sum.
THEOREM SumUnique ==
  ASSUME NEW S, IsFiniteSet(S), NEW f \in [S -> Int], NEW h, Sums(h, f, S)
  PROVE  SumFunction(f) = h[S]
BY SumIsSum, SumsAgree

THEOREM SumType ==
  ASSUME NEW S, IsFiniteSet(S), NEW f \in [S -> Int]
  PROVE  SumFunction(f) \in Int
<1>1. PICK h : Sums(h, f, S) /\ SumFunction(f) = h[S]
  BY SumIsSum
<1> QED BY <1>1 DEF Sums

THEOREM SumOfNothing ==
  ASSUME NEW f \in [{} -> Int]
  PROVE  SumFunction(f) = 0
<1>1. IsFiniteSet({})
  BY FS_EmptySet
<1> QED BY <1>1, SumIsSum DEF Sums

\* One element more adds its value.
THEOREM SumWith ==
  ASSUME NEW S, IsFiniteSet(S), NEW x, x \notin S,
         NEW f \in [S -> Int], NEW g \in [S \union {x} -> Int],
         \A y \in S : g[y] = f[y]
  PROVE  SumFunction(g) = SumFunction(f) + g[x]
<1> DEFINE R == S \union {x}
<1>1. IsFiniteSet(R)
  BY FS_AddElement
<1>2. PICK h : Sums(h, g, R) /\ SumFunction(g) = h[R]
  BY <1>1, SumIsSum
<1> DEFINE k == [T \in SUBSET S |-> h[T]]
<1>3. \A T \in SUBSET S : T \in SUBSET R /\ k[T] = h[T] /\ h[T] \in Int
  BY <1>2 DEF Sums
<1>4. k \in [SUBSET S -> Int]
  BY <1>3
<1> HIDE DEF k
<1>5. Sums(k, f, S)
  <2>1. k[{}] = 0
    BY <1>2, <1>3 DEF Sums
  <2>2. ASSUME NEW T \in SUBSET S, NEW y \in T
        PROVE  k[T] = f[y] + k[T \ {y}]
    <3>1. T \ {y} \in SUBSET S /\ T \in SUBSET R /\ y \in S
      BY Zenon
    <3>2. h[T] = g[y] + h[T \ {y}]
      BY <1>2, <3>1 DEF Sums
    <3>3. g[y] = f[y]
      BY <3>1
    <3> QED BY <1>3, <3>1, <3>2, <3>3
  <2> QED BY <1>4, <2>1, <2>2 DEF Sums
<1>6. SumFunction(f) = h[S]
  BY <1>3, <1>5, SumUnique
<1>7. h[R] = g[x] + h[S]
  <2>1. R \in SUBSET R /\ x \in R /\ R \ {x} = S
    OBVIOUS
  <2> HIDE DEF R
  <2> QED BY <1>2, <2>1 DEF Sums
<1>8. h[S] \in Int /\ g[x] \in Int
  BY <1>3
<1> QED BY <1>2, <1>6, <1>7, <1>8

\* One element less takes its value.
THEOREM SumWithout ==
  ASSUME NEW S, IsFiniteSet(S), NEW f \in [S -> Int], NEW x \in S
  PROVE  SumFunction(f) = SumFunction([y \in S \ {x} |-> f[y]]) + f[x]
<1> DEFINE R == S \ {x}
           k == [y \in R |-> f[y]]
<1>1. IsFiniteSet(R) /\ x \notin R /\ R \union {x} = S
  BY FS_RemoveElement
<1>2. k \in [R -> Int] /\ \A y \in R : f[y] = k[y]
  OBVIOUS
<1> HIDE DEF R, k
<1>3. SumFunction(f) = SumFunction(k) + f[x]
  <2> DEFINE g == f
  <2>1. g \in [R \union {x} -> Int]
    BY <1>1
  <2>2. \A y \in R : g[y] = k[y]
    BY <1>2
  <2> HIDE DEF g
  <2>3. SumFunction(g) = SumFunction(k) + g[x]
    BY <1>1, <1>2, <2>1, <2>2, SumWith
  <2> QED BY <2>3 DEF g
<1> QED BY <1>3 DEF R, k

\* One value changed changes the sum by the difference.
THEOREM SumExcept ==
  ASSUME NEW S, IsFiniteSet(S), NEW f \in [S -> Int], NEW g \in [S -> Int],
         NEW x \in S, \A y \in S \ {x} : g[y] = f[y]
  PROVE  SumFunction(g) = SumFunction(f) - f[x] + g[x]
<1> DEFINE k == [y \in S \ {x} |-> f[y]]
<1>1. k = [y \in S \ {x} |-> g[y]] /\ k \in [S \ {x} -> Int]
  OBVIOUS
<1>2. IsFiniteSet(S \ {x})
  BY FS_RemoveElement
<1>3. SumFunction(f) = SumFunction(k) + f[x]
  BY SumWithout
<1>4. SumFunction(g) = SumFunction(k) + g[x]
  <2>1. SumFunction(g) = SumFunction([y \in S \ {x} |-> g[y]]) + g[x]
    BY SumWithout
  <2> QED BY <1>1, <2>1
<1> HIDE DEF k
<1>5. SumFunction(k) \in Int
  BY <1>1, <1>2, SumType
<1>6. f[x] \in Int /\ g[x] \in Int
  OBVIOUS
<1> QED BY <1>3, <1>4, <1>5, <1>6

\* Other names for the elements leave the sum as it is.
THEOREM SumRenamed ==
  ASSUME NEW S, IsFiniteSet(S), NEW T, IsFiniteSet(T), NEW b \in Bijection(S, T),
         NEW f \in [T -> Int], NEW g \in [S -> Int], \A x \in S : g[x] = f[b[x]]
  PROVE  SumFunction(g) = SumFunction(f)
<1>1. PICK h : Sums(h, f, T) /\ SumFunction(f) = h[T]
  BY SumIsSum
<1> DEFINE Image(U) == {b[x] : x \in U}
           k == [U \in SUBSET S |-> h[Image(U)]]
<1>2. /\ b \in [S -> T] /\ \A x, y \in S : b[x] = b[y] => x = y
      /\ \A z \in T : \E x \in S : b[x] = z
  BY DEF Bijection, Injection, Surjection, IsInjective
<1>3. \A U \in SUBSET S : Image(U) \in SUBSET T /\ h[Image(U)] \in Int
  BY <1>1, <1>2 DEF Sums
<1>4. k \in [SUBSET S -> Int] /\ \A U \in SUBSET S : k[U] = h[Image(U)]
  BY <1>3
<1>5. Image({}) = {} /\ Image(S) = T
  BY <1>2
<1>6. \A U \in SUBSET S : \A x \in U : Image(U \ {x}) = Image(U) \ {b[x]}
  BY <1>2
<1> HIDE DEF k
<1>7. Sums(k, g, S)
  <2>1. k[{}] = 0
    BY <1>1, <1>4, <1>5 DEF Sums
  <2>2. ASSUME NEW U \in SUBSET S, NEW x \in U
        PROVE  k[U] = g[x] + k[U \ {x}]
    <3>1. U \ {x} \in SUBSET S /\ x \in S /\ b[x] \in Image(U)
      OBVIOUS
    <3>2. Image(U) \in SUBSET T
      BY <1>3
    <3> HIDE DEF Image
    <3>3. h[Image(U)] = f[b[x]] + h[Image(U) \ {b[x]}]
      BY <1>1, <3>1, <3>2 DEF Sums
    <3> QED BY <1>4, <1>6, <3>1, <3>3
  <2> QED BY <1>4, <2>1, <2>2 DEF Sums
<1>8. SumFunction(g) = k[S]
  BY <1>7, SumUnique
<1> QED BY <1>1, <1>4, <1>5, <1>8

\* A part of a function and one element more.
THEOREM SumOfPart ==
  ASSUME NEW S, IsFiniteSet(S), NEW x, x \notin S,
         NEW c, \A y \in S \union {x} : c[y] \in Int
  PROVE  SumFunction([y \in S \union {x} |-> c[y]])
           = SumFunction([y \in S |-> c[y]]) + c[x]
<1> DEFINE f == [y \in S |-> c[y]]
           g == [y \in S \union {x} |-> c[y]]
<1>1. /\ f \in [S -> Int] /\ g \in [S \union {x} -> Int]
      /\ g[x] = c[x] /\ \A y \in S : g[y] = f[y]
  OBVIOUS
<1> HIDE DEF f, g
<1>2. SumFunction(g) = SumFunction(f) + g[x]
  BY <1>1, SumWith
<1> QED BY <1>1, <1>2 DEF f, g

\* The sum of the first values of a sequence grows by the next.
THEOREM SumOfNext ==
  ASSUME NEW n \in Nat, NEW c \in [1..n -> Int], NEW k \in Nat, k < n
  PROVE  SumFunction([i \in 1..(k + 1) |-> c[i]])
           = SumFunction([i \in 1..k |-> c[i]]) + c[k + 1]
<1> DEFINE S == 1..k
           x == k + 1
<1>1. x \notin S /\ \A i \in S \union {x} : c[i] \in Int
  OBVIOUS
<1>2. IsFiniteSet(S)
  BY FS_Interval
<1>3. 1..(k + 1) = S \union {x}
  OBVIOUS
<1> HIDE DEF S, x
<1>4. SumFunction([i \in S \union {x} |-> c[i]])
        = SumFunction([i \in S |-> c[i]]) + c[x]
  BY <1>1, <1>2, SumOfPart
<1>5. SumFunction([i \in 1..(k + 1) |-> c[i]])
        = SumFunction([i \in S |-> c[i]]) + c[x]
  BY <1>3, <1>4
<1> QED BY <1>5 DEF S, x
=============================================================================
