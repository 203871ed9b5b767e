---------------------------- MODULE SumTheorems -----------------------------
(***************************************************************************)
(* Finite induction, in a form that is about sets and not about operators, *)
(* and what it shows of MapThenSumSet: that the recursion it is defined by *)
(* has a solution, and the laws of sums that the theorems about ledgers    *)
(* and balances rest on.                                                   *)
(***************************************************************************)
EXTENDS FiniteSetsExt, FiniteSetTheorems, TLAPS

(* What holds of a subset of S whenever it holds of all that are smaller   *)
(* holds of them all.                                                      *)
LEMMA SubsetInduction ==
  ASSUME NEW S, IsFiniteSet(S), NEW T,
         \A U \in SUBSET S : (\A V \in SUBSET U : V # U => V \in T) => U \in T
  PROVE  \A U \in SUBSET S : U \in T
<1> SUFFICES ASSUME NEW W \in SUBSET S, W \notin T PROVE FALSE
  OBVIOUS
<1> DEFINE Bad == (SUBSET S) \ T
<1>1. FiniteSubsetsOf(S) = SUBSET S
  BY FS_FiniteSubsetsOfFinite
<1>2. IsWellFoundedOn(StrictSubsetOrdering(S), SUBSET S)
  <2>1. IsWellFoundedOn(StrictSubsetOrdering(S), FiniteSubsetsOf(S))
    BY FS_StrictSubsetOrderingWellFounded
  <2> QED BY <1>1, <2>1
<1>3. Bad \subseteq SUBSET S /\ Bad # {}
  OBVIOUS
<1> HIDE DEF Bad
<1>4. PICK U \in Bad : \A V \in Bad : <<V, U>> \notin StrictSubsetOrdering(S)
  BY <1>2, <1>3, WFMin
<1>5. U \subseteq S /\ U \notin T
  BY <1>4 DEF Bad
<1>6. ASSUME NEW V \in SUBSET U, V # U PROVE V \in T
  <2>1. <<V, U>> \in StrictSubsetOrdering(S)
    BY <1>5, <1>6 DEF StrictSubsetOrdering
  <2> QED BY <1>4, <1>5, <2>1 DEF Bad
<1> QED BY <1>5, <1>6

(* What the empty set has, and every set has with one element more, every  *)
(* finite set has.                                                         *)
LEMMA FiniteInduction ==
  ASSUME NEW S, IsFiniteSet(S), NEW T,
         {} \in T,
         \A A \in SUBSET S : \A x \in S \ A : A \in T => A \cup {x} \in T
  PROVE  S \in T
<1>1. ASSUME NEW U \in SUBSET S, \A V \in SUBSET U : V # U => V \in T
      PROVE  U \in T
  <2>1. CASE U = {}
    BY <2>1
  <2>2. CASE U # {}
    <3>1. PICK x : x \in U
      BY <2>2
    <3>2. U = (U \ {x}) \cup {x} /\ U \ {x} # U
      BY <3>1
    <3>3. U \ {x} \in T
      BY <1>1, <3>2
    <3> QED BY <3>1, <3>2, <3>3
  <2> QED BY <2>1, <2>2
<1> QED BY <1>1, SubsetInduction

-----------------------------------------------------------------------------
(* Of finitely many numbers one is the greatest. *)
LEMMA Greatest ==
  ASSUME NEW B \in SUBSET Nat, IsFiniteSet(B), B # {}
  PROVE  \E m \in B : \A n \in B : n <= m
<1> DEFINE T == {A \in SUBSET B : A = {} \/ \E m \in A : \A n \in A : n <= m}
<1>1. {} \in T
  OBVIOUS
<1>2. ASSUME NEW A \in SUBSET B, NEW x \in B \ A, A \in T PROVE A \cup {x} \in T
  <2>1. CASE A = {}
    BY <2>1
  <2>2. CASE A # {}
    <3>1. PICK m \in A : \A n \in A : n <= m
      BY <1>2, <2>2
    <3>2. \E y \in A \cup {x} : \A n \in A \cup {x} : n <= y
      <4>1. CASE x <= m
        BY <3>1, <4>1
      <4>2. CASE ~(x <= m)
        <5>1. m \in Nat /\ x \in Nat /\ \A n \in A : n \in Nat
          OBVIOUS
        <5> QED BY <3>1, <4>2, <5>1
      <4> QED BY <4>1, <4>2
    <3> QED BY <3>2
  <2> QED BY <2>1, <2>2
<1> HIDE DEF T
<1>3. B \in T
  BY <1>1, <1>2, FiniteInduction
<1> QED BY <1>3 DEF T

(* Of finitely many numbers one is the least. *)
LEMMA Least ==
  ASSUME NEW B \in SUBSET Nat, IsFiniteSet(B), B # {}
  PROVE  \E m \in B : \A n \in B : m <= n
<1> DEFINE T == {A \in SUBSET B : A = {} \/ \E m \in A : \A n \in A : m <= n}
<1>1. {} \in T
  OBVIOUS
<1>2. ASSUME NEW A \in SUBSET B, NEW x \in B \ A, A \in T PROVE A \cup {x} \in T
  <2>1. CASE A = {}
    BY <2>1
  <2>2. CASE A # {}
    <3>1. PICK m \in A : \A n \in A : m <= n
      BY <1>2, <2>2
    <3>2. \E y \in A \cup {x} : \A n \in A \cup {x} : y <= n
      <4>1. CASE m <= x
        BY <3>1, <4>1
      <4>2. CASE ~(m <= x)
        <5>1. m \in Nat /\ x \in Nat /\ \A n \in A : n \in Nat
          OBVIOUS
        <5> QED BY <3>1, <4>2, <5>1
      <4> QED BY <4>1, <4>2
    <3> QED BY <3>2
  <2> QED BY <2>1, <2>2
<1> HIDE DEF T
<1>3. B \in T
  BY <1>1, <1>2, FiniteInduction
<1> QED BY <1>3 DEF T

(* So the greatest and the least that CHOOSE picks are.                    *)
LEMMA MaxMin ==
  ASSUME NEW B \in SUBSET Nat, IsFiniteSet(B), B # {}
  PROVE  /\ Max(B) \in B /\ \A n \in B : n <= Max(B)
         /\ Min(B) \in B /\ \A n \in B : Min(B) <= n
<1>1. \E x \in B : \A y \in B : x >= y
  BY Greatest
<1>2. \E x \in B : \A y \in B : x =< y
  BY Least
<1> QED BY <1>1, <1>2 DEF Max, Min

-----------------------------------------------------------------------------
(* The sum of the values of f over S, and the recursion behind it.         *)
SumOf(f, S) == MapThenSumSet(LAMBDA x : f[x], S)

Pick(s) == CHOOSE x \in s : TRUE

IsSum(g, f, S) == g = [s \in SUBSET S |->
   IF s = {} THEN 0 ELSE f[Pick(s)] + g[s \ {Pick(s)}]]

(* The element that the recursion takes out is one of the set.             *)
LEMMA PickIn == ASSUME NEW s, s # {} PROVE Pick(s) \in s
  BY DEF Pick

(* The sum is the value at S of the recursion that CHOOSE picks.           *)
LEMMA SumOfIs ==
  ASSUME NEW f, NEW S
  PROVE  SumOf(f, S) = (CHOOSE g : IsSum(g, f, S))[S]
  BY DEF SumOf, MapThenSumSet, MapThenFoldSet, IsSum, Pick

(* Two solutions agree wherever both are defined, whatever they are summed *)
(* over beyond that.                                                       *)
LEMMA SumUnique ==
  ASSUME NEW S, IsFiniteSet(S), NEW A \in SUBSET S, NEW B \in SUBSET S,
         NEW e, NEW f, \A x \in S : e[x] = f[x],
         NEW g, IsSum(g, e, A), NEW h, IsSum(h, f, B),
         NEW s \in SUBSET (A \cap B)
  PROVE  g[s] = h[s]
<1> DEFINE T == {u \in SUBSET (A \cap B) : g[u] = h[u]}
<1>1. IsFiniteSet(A \cap B)
  BY FS_Subset
<1>2. ASSUME NEW U \in SUBSET (A \cap B), \A V \in SUBSET U : V # U => V \in T
      PROVE  U \in T
  <2>1. /\ g[U] = IF U = {} THEN 0 ELSE e[Pick(U)] + g[U \ {Pick(U)}]
        /\ h[U] = IF U = {} THEN 0 ELSE f[Pick(U)] + h[U \ {Pick(U)}]
    BY DEF IsSum
  <2>2. CASE U # {}
    <3>1. Pick(U) \in U /\ U \ {Pick(U)} # U
      BY <2>2, PickIn
    <3>2. U \ {Pick(U)} \in T
      BY <1>2, <3>1
    <3> QED BY <2>1, <2>2, <3>1, <3>2
  <2> QED BY <2>1, <2>2
<1> DEFINE C == A \cap B
<1>c. IsFiniteSet(C) /\ \A U \in SUBSET C : (\A V \in SUBSET U : V # U => V \in T) => U \in T
  BY <1>1, <1>2
<1> HIDE DEF T, C
<1>3. \A U \in SUBSET C : U \in T
  BY <1>c, SubsetInduction
<1> QED BY <1>3 DEF T, C

(* The recursion has a solution over every finite set.                     *)
LEMMA SumExists ==
  ASSUME NEW f, NEW S, IsFiniteSet(S)
  PROVE  \E g : IsSum(g, f, S)
<1> DEFINE T == {A \in SUBSET S : \E g : IsSum(g, f, A)}
           Of(A) == CHOOSE g : IsSum(g, f, A)
<1>1. ASSUME NEW U \in SUBSET S, \A V \in SUBSET U : V # U => V \in T
      PROVE  U \in T
  <2>1. \A V \in SUBSET U : V # U => IsSum(Of(V), f, V)
    BY <1>1
  <2> DEFINE below(s) == Of(s \ {Pick(s)})[s \ {Pick(s)}]
             g == [s \in SUBSET U |-> IF s = {} THEN 0 ELSE f[Pick(s)] + below(s)]
             h == [s \in SUBSET U |-> IF s = {} THEN 0 ELSE f[Pick(s)] + g[s \ {Pick(s)}]]
  <2> HIDE DEF Of
  <2>2. ASSUME NEW s \in SUBSET U, s # U PROVE Of(s)[s] = g[s]
    <3>1. IsSum(Of(s), f, s)
      BY <2>1, <2>2
    <3>2. Of(s)[s] = IF s = {} THEN 0 ELSE f[Pick(s)] + Of(s)[s \ {Pick(s)}]
      BY <3>1 DEF IsSum
    <3>3. CASE s # {}
      <4> DEFINE v == s \ {Pick(s)}
      <4>1. v \in SUBSET s /\ v \in SUBSET U /\ v # U
        BY <3>3, PickIn
      <4>2. IsSum(Of(v), f, v)
        BY <2>1, <4>1
      <4>3. Of(s)[v] = Of(v)[v]
        <5>1. s \in SUBSET S /\ v \in SUBSET S /\ v \in SUBSET (s \cap v)
          BY <4>1
        <5> HIDE DEF v
        <5> QED BY <3>1, <4>2, <5>1, SumUnique
      <4> QED BY <3>2, <3>3, <4>3
    <3> QED BY <3>2, <3>3
  <2>3. ASSUME NEW s \in SUBSET U PROVE g[s] = h[s]
    <3>1. CASE s # {}
      <4>1. s \ {Pick(s)} \in SUBSET U /\ s \ {Pick(s)} # U
        BY <3>1, PickIn
      <4> QED BY <2>2, <3>1, <4>1
    <3> QED BY <3>1
  <2>4. g = h
    BY <2>3
  <2>5. IsSum(g, f, U)
    BY <2>4 DEF IsSum
  <2> QED BY <2>5
<1> HIDE DEF T
<1>2. S \in T
  BY <1>1, SubsetInduction
<1> QED BY <1>2 DEF T

(* Whatever satisfies the recursion is the sum.                            *)
LEMMA SumSolves ==
  ASSUME NEW f, NEW S, IsFiniteSet(S), NEW g, IsSum(g, f, S), NEW A \in SUBSET S
  PROVE  g[A] = SumOf(f, A)
<1> DEFINE h == CHOOSE k : IsSum(k, f, A)
<1>1. IsFiniteSet(A)
  BY FS_Subset
<1>2. IsSum(h, f, A)
  BY <1>1, SumExists
<1> HIDE DEF h
<1>3. g[A] = h[A]
  BY <1>2, SumUnique
<1> QED BY <1>3, SumOfIs DEF h

(* Nothing sums to zero.                                                   *)
LEMMA SumEmpty == ASSUME NEW f PROVE SumOf(f, {}) = 0
<1>1. PICK g : IsSum(g, f, {})
  BY FS_EmptySet, SumExists
<1>2. g[{}] = 0
  BY <1>1 DEF IsSum
<1> QED BY <1>1, <1>2, FS_EmptySet, SumSolves

(* The sum takes one element out, and adds the sum of the others.          *)
LEMMA SumStep ==
  ASSUME NEW f, NEW S, IsFiniteSet(S), S # {}
  PROVE  SumOf(f, S) = f[Pick(S)] + SumOf(f, S \ {Pick(S)})
<1>1. PICK g : IsSum(g, f, S)
  BY SumExists
<1>2. g[S] = f[Pick(S)] + g[S \ {Pick(S)}]
  BY <1>1 DEF IsSum
<1>3. \A A \in SUBSET S : g[A] = SumOf(f, A)
  BY <1>1, SumSolves
<1> QED BY <1>2, <1>3

(* A sum depends on the values over its set alone.                         *)
LEMMA SumEqual ==
  ASSUME NEW S, IsFiniteSet(S), NEW e, NEW f, \A x \in S : e[x] = f[x]
  PROVE  SumOf(e, S) = SumOf(f, S)
<1> DEFINE T == {A \in SUBSET S : SumOf(e, A) = SumOf(f, A)}
<1>1. ASSUME NEW U \in SUBSET S, \A V \in SUBSET U : V # U => V \in T
      PROVE  U \in T
  <2>1. CASE U = {}
    BY <2>1, SumEmpty
  <2>2. CASE U # {}
    <3>1. Pick(U) \in U /\ IsFiniteSet(U)
      BY <2>2, PickIn, FS_Subset
    <3>2. SumOf(e, U \ {Pick(U)}) = SumOf(f, U \ {Pick(U)})
      BY <1>1, <3>1
    <3>3. /\ SumOf(e, U) = e[Pick(U)] + SumOf(e, U \ {Pick(U)})
          /\ SumOf(f, U) = f[Pick(U)] + SumOf(f, U \ {Pick(U)})
      BY <2>2, <3>1, SumStep
    <3> QED BY <3>1, <3>2, <3>3
  <2> QED BY <2>1, <2>2
<1> HIDE DEF T
<1>2. \A U \in SUBSET S : U \in T
  BY <1>1, SubsetInduction
<1> QED BY <1>2 DEF T

(* A sum of integers is an integer.                                        *)
LEMMA SumTyped ==
  ASSUME NEW S, IsFiniteSet(S), NEW f, \A x \in S : f[x] \in Int
  PROVE  SumOf(f, S) \in Int
<1> DEFINE T == {A \in SUBSET S : SumOf(f, A) \in Int}
<1>1. ASSUME NEW U \in SUBSET S, \A V \in SUBSET U : V # U => V \in T
      PROVE  U \in T
  <2>1. CASE U = {}
    BY <2>1, SumEmpty
  <2>2. CASE U # {}
    <3>1. Pick(U) \in U /\ IsFiniteSet(U)
      BY <2>2, PickIn, FS_Subset
    <3>2. SumOf(f, U \ {Pick(U)}) \in Int
      BY <1>1, <3>1
    <3>3. SumOf(f, U) = f[Pick(U)] + SumOf(f, U \ {Pick(U)})
      BY <2>2, <3>1, SumStep
    <3> QED BY <3>1, <3>2, <3>3
  <2> QED BY <2>1, <2>2
<1> HIDE DEF T
<1>2. \A U \in SUBSET S : U \in T
  BY <1>1, SubsetInduction
<1> QED BY <1>2 DEF T

(* Any element may be taken out first.                                     *)
LEMMA SumRemove ==
  ASSUME NEW S, IsFiniteSet(S), NEW f, \A x \in S : f[x] \in Int, NEW x \in S
  PROVE  SumOf(f, S) = f[x] + SumOf(f, S \ {x})
<1> DEFINE T == {A \in SUBSET S : \A y \in A : SumOf(f, A) = f[y] + SumOf(f, A \ {y})}
<1>0. \A A \in SUBSET S : IsFiniteSet(A) /\ SumOf(f, A) \in Int
  BY FS_Subset, SumTyped
<1>1. ASSUME NEW U \in SUBSET S, \A V \in SUBSET U : V # U => V \in T
      PROVE  U \in T
  <2> SUFFICES ASSUME NEW y \in U PROVE SumOf(f, U) = f[y] + SumOf(f, U \ {y})
    OBVIOUS
  <2> DEFINE z == Pick(U)
             V == U \ {z}
             W == U \ {y}
  <2>1. z \in U
    BY PickIn
  <2>2. SumOf(f, U) = f[z] + SumOf(f, V)
    BY <1>0, SumStep
  <2> HIDE DEF z
  <2>3. CASE y # z
    <3>1. SumOf(f, V) = f[y] + SumOf(f, V \ {y})
      <4>1. V \in SUBSET U /\ V # U /\ y \in V
        BY <2>1, <2>3
      <4> QED BY <1>1, <4>1
    <3>2. SumOf(f, W) = f[z] + SumOf(f, W \ {z})
      <4>1. W \in SUBSET U /\ W # U /\ z \in W
        BY <2>1, <2>3
      <4> QED BY <1>1, <4>1
    <3>3. V \ {y} = W \ {z}
      OBVIOUS
    <3>4. f[y] \in Int /\ f[z] \in Int /\ SumOf(f, W \ {z}) \in Int
      BY <1>0, <2>1
    <3>5. SumOf(f, U) = f[z] + (f[y] + SumOf(f, W \ {z}))
      BY <2>2, <3>1, <3>3
    <3> HIDE DEF V, W
    <3>6. SumOf(f, U) = f[y] + (f[z] + SumOf(f, W \ {z}))
      BY <3>4, <3>5
    <3>7. SumOf(f, U) = f[y] + SumOf(f, W)
      BY <3>2, <3>6
    <3> QED BY <3>7 DEF W
  <2> QED BY <2>2, <2>3
<1> HIDE DEF T
<1>2. \A U \in SUBSET S : U \in T
  BY <1>1, SubsetInduction
<1> QED BY <1>2 DEF T

(* One element more adds its value.                                        *)
LEMMA SumAdd ==
  ASSUME NEW S, IsFiniteSet(S), NEW f, \A y \in S : f[y] \in Int,
         NEW x, x \notin S, f[x] \in Int
  PROVE  SumOf(f, S \cup {x}) = f[x] + SumOf(f, S)
<1> DEFINE U == S \cup {x}
<1>1. IsFiniteSet(U) /\ U \ {x} = S /\ x \in U /\ \A y \in U : f[y] \in Int
  BY FS_AddElement
<1> HIDE DEF U
<1>2. SumOf(f, U) = f[x] + SumOf(f, U \ {x})
  BY <1>1, SumRemove
<1> QED BY <1>1, <1>2 DEF U

(* A sum over more elements, of larger values, is no smaller, as long as   *)
(* what is added is not negative.                                          *)
LEMMA SumBounded ==
  ASSUME NEW S, IsFiniteSet(S), NEW A \in SUBSET S, NEW e, NEW f,
         \A x \in S : f[x] \in Int,
         \A x \in A : e[x] \in Int /\ e[x] <= f[x],
         \A x \in S \ A : f[x] >= 0
  PROVE  SumOf(e, A) <= SumOf(f, S)
<1> DEFINE T == {B \in SUBSET S : SumOf(e, A \cap B) <= SumOf(f, B)}
<1>0. /\ \A B \in SUBSET S : IsFiniteSet(B) /\ SumOf(f, B) \in Int
      /\ \A B \in SUBSET A : IsFiniteSet(B) /\ SumOf(e, B) \in Int
  BY FS_Subset, SumTyped
<1>1. {} \in T
  BY SumEmpty
<1>2. ASSUME NEW B \in SUBSET S, NEW x \in S \ B, B \in T
      PROVE  B \cup {x} \in T
  <2>1. SumOf(f, B \cup {x}) = f[x] + SumOf(f, B)
    BY <1>0, SumAdd
  <2>2. SumOf(e, A \cap B) <= SumOf(f, B)
    BY <1>2
  <2>3. CASE x \in A
    <3>1. A \cap (B \cup {x}) = (A \cap B) \cup {x}
      BY <2>3
    <3>2. SumOf(e, (A \cap B) \cup {x}) = e[x] + SumOf(e, A \cap B)
      <4>1. IsFiniteSet(A \cap B) /\ x \notin A \cap B /\ \A y \in A \cap B : e[y] \in Int
        BY <1>0
      <4> QED BY <2>3, <4>1, SumAdd
    <3>3. SumOf(e, A \cap B) \in Int /\ SumOf(f, B) \in Int
      BY <1>0
    <3>4. SumOf(e, A \cap (B \cup {x})) <= SumOf(f, B \cup {x})
      <4> DEFINE ea == SumOf(e, A \cap B)  fb == SumOf(f, B)
      <4>1. /\ SumOf(e, A \cap (B \cup {x})) = e[x] + ea
            /\ SumOf(f, B \cup {x}) = f[x] + fb
        BY <2>1, <3>1, <3>2
      <4>2. ea \in Int /\ fb \in Int /\ ea <= fb
        BY <2>2, <3>3
      <4>3. e[x] \in Int /\ f[x] \in Int /\ e[x] <= f[x]
        BY <2>3
      <4> HIDE DEF ea, fb
      <4>4. e[x] + ea <= f[x] + fb
        BY <4>2, <4>3
      <4> QED BY <4>1, <4>4
    <3> QED BY <3>4
  <2>4. CASE x \notin A
    <3>1. A \cap (B \cup {x}) = A \cap B
      BY <2>4
    <3>2. SumOf(e, A \cap B) \in Int /\ SumOf(f, B) \in Int /\ f[x] \in Int /\ f[x] >= 0
      BY <1>0, <2>4
    <3> DEFINE ea == SumOf(e, A \cap B)  fb == SumOf(f, B)
    <3>3. /\ SumOf(e, A \cap (B \cup {x})) = ea
          /\ SumOf(f, B \cup {x}) = f[x] + fb
      BY <2>1, <3>1
    <3>4. ea \in Int /\ fb \in Int /\ ea <= fb /\ f[x] \in Int /\ f[x] >= 0
      BY <2>2, <3>2
    <3> HIDE DEF ea, fb
    <3>5. ea <= f[x] + fb
      BY <3>4
    <3> QED BY <3>3, <3>5
  <2> QED BY <2>3, <2>4
<1> HIDE DEF T
<1>3. S \in T
  BY <1>1, <1>2, FiniteInduction
<1>4. A \cap S = A
  OBVIOUS
<1>5. SumOf(e, A \cap S) <= SumOf(f, S)
  BY <1>3 DEF T
<1> QED BY <1>4, <1>5

(* A sum of values none of which is positive is not positive.              *)
LEMMA SumNotPositive ==
  ASSUME NEW S, IsFiniteSet(S), NEW f, \A x \in S : f[x] \in Int /\ f[x] <= 0
  PROVE  SumOf(f, S) <= 0
<1> DEFINE T == {A \in SUBSET S : SumOf(f, A) <= 0}
<1>0. \A A \in SUBSET S : IsFiniteSet(A) /\ SumOf(f, A) \in Int
  BY FS_Subset, SumTyped
<1>1. {} \in T
  BY SumEmpty
<1>2. ASSUME NEW A \in SUBSET S, NEW x \in S \ A, A \in T
      PROVE  A \cup {x} \in T
  <2>1. SumOf(f, A \cup {x}) = f[x] + SumOf(f, A)
    BY <1>0, SumAdd
  <2>2. SumOf(f, A) \in Int /\ SumOf(f, A) <= 0 /\ f[x] \in Int /\ f[x] <= 0
    BY <1>0, <1>2
  <2>3. SumOf(f, A \cup {x}) <= 0
    BY <2>1, <2>2
  <2> QED BY <2>3
<1> HIDE DEF T
<1>3. S \in T
  BY <1>1, <1>2, FiniteInduction
<1> QED BY <1>3 DEF T

(* Elements of value zero add nothing.                                     *)
LEMMA SumPadded ==
  ASSUME NEW S, IsFiniteSet(S), NEW A \in SUBSET S, NEW f,
         \A x \in A : f[x] \in Int, \A x \in S \ A : f[x] = 0
  PROVE  SumOf(f, S) = SumOf(f, A)
<1> DEFINE T == {B \in SUBSET S : SumOf(f, B) = SumOf(f, A \cap B)}
<1>0. /\ \A B \in SUBSET S : IsFiniteSet(B) /\ SumOf(f, B) \in Int
      /\ \A x \in S : f[x] \in Int
  BY FS_Subset, SumTyped
<1>1. {} \in T
  BY SumEmpty
<1>2. ASSUME NEW B \in SUBSET S, NEW x \in S \ B, B \in T
      PROVE  B \cup {x} \in T
  <2>1. SumOf(f, B \cup {x}) = f[x] + SumOf(f, B)
    BY <1>0, SumAdd
  <2>2. SumOf(f, B) = SumOf(f, A \cap B)
    BY <1>2
  <2>3. CASE x \in A
    <3>1. A \cap (B \cup {x}) = (A \cap B) \cup {x}
      BY <2>3
    <3>2. SumOf(f, (A \cap B) \cup {x}) = f[x] + SumOf(f, A \cap B)
      <4>1. IsFiniteSet(A \cap B) /\ x \notin A \cap B /\ \A y \in A \cap B : f[y] \in Int
        BY <1>0
      <4> QED BY <2>3, <4>1, SumAdd
    <3> QED BY <2>1, <2>2, <3>1, <3>2
  <2>4. CASE x \notin A
    <3>1. A \cap (B \cup {x}) = A \cap B
      BY <2>4
    <3>2. f[x] = 0 /\ SumOf(f, B) \in Int
      BY <1>0, <2>4
    <3>3. SumOf(f, B \cup {x}) = SumOf(f, B)
      BY <2>1, <3>2
    <3> QED BY <2>2, <3>1, <3>3
  <2> QED BY <2>3, <2>4
<1> HIDE DEF T
<1>3. S \in T
  BY <1>1, <1>2, FiniteInduction
<1>4. A \cap S = A
  OBVIOUS
<1>5. SumOf(f, S) = SumOf(f, A \cap S)
  BY <1>3 DEF T
<1> QED BY <1>4, <1>5

(* The parts of a finite set have as many elements together as the set.    *)
LEMMA SumOfParts ==
  ASSUME NEW S, IsFiniteSet(S), NEW D, IsFiniteSet(D),
         NEW g, \A x \in S : g[x] \in D
  PROVE  SumOf([d \in D |-> Cardinality({x \in S : g[x] = d})], D) = Cardinality(S)
<1> DEFINE P(A) == [d \in D |-> Cardinality({x \in A : g[x] = d})]
           T == {A \in SUBSET S : SumOf(P(A), D) = Cardinality(A)}
<1>0. \A A \in SUBSET S : /\ IsFiniteSet(A) /\ Cardinality(A) \in Int
                         /\ \A d \in D : P(A)[d] \in Int
  <2>1. \A A \in SUBSET S : IsFiniteSet(A)
    BY FS_Subset
  <2>2. \A A \in SUBSET S : \A d \in D : {x \in A : g[x] = d} \in SUBSET S
    OBVIOUS
  <2> QED BY <2>1, <2>2, FS_CardinalityType
<1>1. {} \in T
  <2>1. \A d \in D : P({})[d] = 0
    <3>1. \A d \in D : {x \in {} : g[x] = d} = {}
      OBVIOUS
    <3> QED BY <3>1, FS_EmptySet
  <2>2. SumOf(P({}), D) = SumOf(P({}), {})
    <3> DEFINE f == P({})
    <3>1. \A d \in D : f[d] = 0
      BY <2>1
    <3> HIDE DEF f
    <3>2. SumOf(f, D) = SumOf(f, {})
      BY <3>1, SumPadded
    <3> QED BY <3>2 DEF f
  <2> QED BY <2>2, SumEmpty, FS_EmptySet
<1>2. ASSUME NEW A \in SUBSET S, NEW x \in S \ A, A \in T
      PROVE  A \cup {x} \in T
  <2> DEFINE B == A \cup {x}  y == g[x]  R == D \ {y}  e == P(A)  f == P(B)
  <2>1. y \in D /\ B \in SUBSET S /\ IsFiniteSet(R)
    BY FS_Subset
  <2>2. f[y] = e[y] + 1
    <3>1. {z \in B : g[z] = y} = {z \in A : g[z] = y} \cup {x}
      OBVIOUS
    <3>2. IsFiniteSet({z \in A : g[z] = y}) /\ x \notin {z \in A : g[z] = y}
      BY <1>0, FS_Subset
    <3>3. Cardinality({z \in A : g[z] = y} \cup {x}) = Cardinality({z \in A : g[z] = y}) + 1
      BY <3>2, FS_AddElement
    <3> QED BY <2>1, <3>1, <3>3
  <2>3. \A d \in R : f[d] = e[d]
    <3>1. \A d \in R : {z \in B : g[z] = d} = {z \in A : g[z] = d}
      OBVIOUS
    <3> QED BY <3>1
  <2>4. \A d \in D : e[d] \in Int /\ f[d] \in Int
    BY <1>0, <2>1
  <2>5. Cardinality(B) = Cardinality(A) + 1
    BY <1>0, FS_AddElement
  <2>6. SumOf(e, D) = Cardinality(A)
    BY <1>2
  <2> HIDE DEF e, f, y, R
  <2>7. SumOf(e, D) = e[y] + SumOf(e, R) /\ SumOf(f, D) = f[y] + SumOf(f, R)
    BY <2>1, <2>4, SumRemove DEF R
  <2>8. SumOf(e, R) = SumOf(f, R) /\ SumOf(e, R) \in Int
    <3>1. \A d \in R : e[d] \in Int
      BY <2>4 DEF R
    <3> QED BY <2>1, <2>3, <3>1, SumEqual, SumTyped
  <2>9. SumOf(f, D) = Cardinality(B)
    BY <2>1, <2>2, <2>4, <2>5, <2>6, <2>7, <2>8
  <2> QED BY <2>1, <2>9 DEF f
<1> HIDE DEF T
<1>3. S \in T
  BY <1>1, <1>2, FiniteInduction
<1> QED BY <1>3 DEF T
=============================================================================
